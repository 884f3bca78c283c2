--------------------------- MODULE Confirmations ---------------------------
(***************************************************************************)
(* The Gateway's confirmation path: RuntimeStore (runtime.py) and the      *)
(* handlers of app.py that ask, answer, run and expire.                    *)
(*                                                                         *)
(* No lock guards the store.  Desktop requests run on the event loop, one  *)
(* at a time between awaits; chat, sub-agent, Telegram and automation work *)
(* runs in threads of its own.  A handler is therefore a sequence of steps *)
(* and a step is what cannot be split: one operation of a dictionary, one  *)
(* read or one write of the `assistant` record.  A record update,          *)
(*     self.assistant = self.assistant.model_copy(update=...)              *)
(* reads every field, builds the new record and, in a later step, writes   *)
(* the whole of it.                                                        *)
(*                                                                         *)
(* Every action modelled is a sensitive one: the others run at once and    *)
(* leave the store alone.                                                  *)
(***************************************************************************)
EXTENDS TokenStore, Sequences

CONSTANTS
  Thread,    \* the requests and worker threads in flight
  Loop,      \* the ones that run on the event loop
  External   \* actions that reach outside the machine: ToolSpec.is_external

ASSUME ThreadAssumption == Loop \subseteq Thread
ASSUME ExternalAssumption == External \subseteq Act

VARIABLES
  assistant, \* RuntimeStore.assistant: the mode, the one card, the phase
  notified,  \* _notification_at is set
  writes,    \* the keys of _external_writes
  pc,        \* where each thread stands
  at,        \* each thread's locals
  taken,     \* history: tokens take_confirmation has handed out
  audit,     \* the verdicts on each token in the audit log
  ran,       \* history: what was executed under each token, in order
  sent       \* history: executions of each external action while its key
             \* lives: none, one, or more than one

threadVars == <<pc, at>>
history    == <<taken, audit, ran, sent>>
vars == <<storeVars, assistant, notified, writes, threadVars, history>>

Phase   == {"ready", "confirmation", "notification"}
Verdict == {"approved", "denied", "argument_mismatch", "expired", "cancelled"}
Label   == {"idle", "expire", "insert", "show", "shown", "lookup", "take",
            "settle", "clear", "run", "record", "status", "notify", "collapse",
            "mode", "cancel", "drop"}

(* Where a thread can go after expiring, and after clearing.               *)
Then == {"idle", "insert", "take", "lookup", "notify"}
Back == Then \cup {"expire", "run", "status"}

Assistant == [yolo : BOOLEAN, card : Token \cup {None}, phase : Phase]
(* tok, act: the token and exact action in hand.  yes: the answer, or the  *)
(* mode wanted.  todo: tokens still to visit.  copy: the record to be      *)
(* written.  then, back: where to go after expiring and after clearing.    *)
(* off: a tool has run, and the rest of the call is off the loop with it.  *)
Locals == [tok : Token \cup {None}, act : Act \cup {None}, yes : BOOLEAN,
           todo : SUBSET Token, copy : Assistant, then : Then, back : Back,
           off : BOOLEAN]

NoAssistant == [yolo |-> FALSE, card |-> None, phase |-> "ready"]
Blank == [tok |-> None, act |-> None, yes |-> FALSE, todo |-> {},
          copy |-> NoAssistant, then |-> "idle", back |-> "idle", off |-> FALSE]

TypeOK ==
  /\ StoreTypeOK
  /\ assistant \in Assistant
  /\ notified \in BOOLEAN
  /\ writes \subseteq External
  /\ pc \in [Thread -> Label]
  /\ at \in [Thread -> Locals]
  /\ taken \subseteq Token
  /\ audit \in [Token -> SUBSET Verdict]
  /\ ran \in [Token -> Seq(Act)]
  /\ sent \in [External -> 0..2]

Init ==
  /\ StoreInit
  /\ assistant \in {[NoAssistant EXCEPT !.yolo = y] : y \in BOOLEAN}
  /\ notified = FALSE
  /\ writes = {}
  /\ pc = [h \in Thread |-> "idle"]
  /\ at = [h \in Thread |-> Blank]
  /\ taken = {}
  /\ audit = [t \in Token |-> {}]
  /\ ran = [t \in Token |-> <<>>]
  /\ sent = [a \in External |-> 0]

-----------------------------------------------------------------------------
(* Threads.  A thread that has only its answer left forgets its locals.    *)

(* A loop request gives the loop up only to run_tool, which runs the tool, *)
(* records it and looks at the status in a thread.                         *)
OffLoop(h)  == pc[h] \in {"idle", "run", "record"} \/ at[h].off
MayStart(h) == pc[h] = "idle" /\ (h \in Loop => \A g \in Loop : OffLoop(g))

Goto(h, label, locals) ==
  /\ pc' = [pc EXCEPT ![h] = label]
  /\ at' = [at EXCEPT ![h] =
       IF label = "idle" THEN Blank
       ELSE IF label = "status" THEN [Blank EXCEPT !.off = locals.off] ELSE locals]

(* expire_confirmations starts by listing the tokens past their limit.     *)
Expiring(h, then, locals) ==
  IF overdue = {}
  THEN Goto(h, then, locals)
  ELSE Goto(h, "expire", [locals EXCEPT !.todo = overdue, !.then = then])

(* What a desktop request answers with carries current_status(), which     *)
(* expires transients; a worker's answer does not.                         *)
Answer(h) == IF h \in Loop THEN "status" ELSE "idle"

(* _clear_confirmation(t) reads the record, and leaves it alone when it    *)
(* shows the card of another token.                                        *)
Clearing(h, t, back, locals) ==
  IF assistant.card \in {None, t}
  THEN Goto(h, "clear",
         [locals EXCEPT !.back = back,
            !.copy = [assistant EXCEPT !.card = None, !.phase = "notification"]])
  ELSE Goto(h, back, locals)

ClearWrite(h) ==
  /\ pc[h] = "clear"
  /\ assistant' = at[h].copy
  /\ notified' = TRUE
  /\ Goto(h, at[h].back, at[h])
  /\ UNCHANGED <<storeVars, writes, history>>

(* One token of expire_confirmations' list.  pop(token) has no default: a  *)
(* token another thread removed meanwhile raises KeyError, which ends the  *)
(* request.                                                                *)
Expire(h) ==
  /\ pc[h] = "expire"
  /\ \/ \E t \in at[h].todo \cap pending :
          LET rest == at[h].todo \ {t}
              next == IF rest = {} THEN at[h].then ELSE "expire"
          IN  /\ Pop(t)
              /\ audit' = [audit EXCEPT ![t] = @ \cup {"expired"}]
              /\ Clearing(h, t, next, [at[h] EXCEPT !.todo = rest])
              /\ UNCHANGED <<taken, ran, sent>>
     \/ /\ at[h].todo \ pending # {}
        /\ Goto(h, "idle", Blank)
        /\ UNCHANGED <<storeVars, history>>
  /\ UNCHANGED <<assistant, notified, writes>>

-----------------------------------------------------------------------------
(* Asking.                                                                 *)

(* Tokens a thread on its way to issue one will need: the token bound.     *)
Claims(h) == \/ pc[h] = "insert"
             \/ pc[h] \in {"expire", "clear"} /\ at[h].then = "insert"
TokensLeft == Cardinality({h \in Thread : Claims(h)}) < Cardinality(Fresh)

(* POST /tools/{name} looks for a completed external write before it asks, *)
(* and answers a repeat from the record, which changes what a Poll does;   *)
(* dispatch_for_chat, on a worker, computes the key and never looks.       *)
(* Under YOLO the action runs at once, else it is confirmed.               *)
Request(h, a) ==
  /\ MayStart(h)
  /\ h \in Loop => a \notin writes
  /\ LET request == [Blank EXCEPT !.act = a]
     IN  IF assistant.yolo THEN Goto(h, "run", request)
         ELSE TokensLeft /\ Expiring(h, "insert", request)
  /\ UNCHANGED <<storeVars, assistant, notified, writes, history>>

(* Fault: the token of the card that is showing is used again.             *)
InsertAgain(h) ==
  /\ pc[h] = "insert"
  /\ \E t \in Fresh \cup ({assistant.card} \ {None}) :
       /\ pending' = pending \cup {t}
       /\ asked' = [asked EXCEPT ![t] = at[h].act]
       /\ Goto(h, "show", [Blank EXCEPT !.tok = t])
  /\ notified' = FALSE
  /\ UNCHANGED <<overdue, assistant, writes, history>>

(* issue_confirmation, after its expiry: the token joins _pending, and the *)
(* hooks that mirror approvals fire before the card is drawn.              *)
Insert(h) ==
  /\ pc[h] = "insert"
  /\ \E t \in Fresh :
       /\ Issue(t, at[h].act)
       /\ Goto(h, "show", [Blank EXCEPT !.tok = t])
  /\ notified' = FALSE
  /\ UNCHANGED <<assistant, writes, history>>

Show(h) ==
  /\ pc[h] = "show"
  /\ Goto(h, "shown",
       [Blank EXCEPT !.copy = [assistant EXCEPT !.card = at[h].tok,
                                                !.phase = "confirmation"]])
  /\ UNCHANGED <<storeVars, assistant, notified, writes, history>>

Shown(h) ==
  /\ pc[h] = "shown"
  /\ assistant' = at[h].copy
  /\ Goto(h, Answer(h), at[h])
  /\ UNCHANGED <<storeVars, notified, writes, history>>

-----------------------------------------------------------------------------
(* Answering.                                                              *)

(* POST /confirmations/{token}: the caller supplies the arguments, a; None *)
(* is arguments nothing was asked with.                                    *)
Resolve(h, t, a, yes) ==
  /\ h \in Loop /\ MayStart(h)
  /\ t \notin Fresh
  /\ Expiring(h, "take", [Blank EXCEPT !.tok = t, !.act = a, !.yes = yes])
  /\ UNCHANGED <<storeVars, assistant, notified, writes, history>>

(* settle_for_channel: a tap or a relayed yes, which brings no arguments.  *)
Tap(h, t, yes) ==
  /\ h \notin Loop /\ MayStart(h)
  /\ t \notin Fresh
  /\ Expiring(h, "lookup", [Blank EXCEPT !.tok = t, !.yes = yes])
  /\ UNCHANGED <<storeVars, assistant, notified, writes, history>>

(* pending_arguments supplies what the token was issued for.               *)
Lookup(h) ==
  /\ pc[h] = "lookup"
  /\ IF at[h].tok \in pending
     THEN Expiring(h, "take", [at[h] EXCEPT !.act = asked[at[h].tok]])
     ELSE Goto(h, "idle", Blank)
  /\ UNCHANGED <<storeVars, assistant, notified, writes, history>>

(* The arguments are compared with those the token was issued for.         *)
AnyArguments(h, t) == TRUE    \* fault: they are not
Matches(h, t) == at[h].act = asked[t]

(* take_confirmation, after its expiry: the token is gone either way, and  *)
(* arguments that are not the ones it was issued for burn it.              *)
Take(h) ==
  /\ pc[h] = "take"
  /\ LET t == at[h].tok IN
       \/ /\ t \notin pending
          /\ Goto(h, "idle", Blank)
          /\ UNCHANGED <<storeVars, taken, audit>>
       \/ /\ Pop(t)
          /\ IF Matches(h, t)
             THEN /\ taken' = taken \cup {t}
                  /\ Goto(h, "settle", at[h])
                  /\ UNCHANGED audit
             ELSE /\ audit' = [audit EXCEPT ![t] = @ \cup {"argument_mismatch"}]
                  /\ Clearing(h, t, "idle", at[h])
                  /\ UNCHANGED taken
  /\ UNCHANGED <<assistant, notified, writes, ran, sent>>

(* Only a yes goes on to run.                                              *)
RunAnyway(h) == "run"         \* fault: a no does too
AfterVerdict(h) == IF at[h].yes THEN "run" ELSE Answer(h)

(* The verdict is audited and the card comes down before anything runs.    *)
Settle(h) ==
  /\ pc[h] = "settle"
  /\ LET t == at[h].tok
         verdict == IF at[h].yes THEN "approved" ELSE "denied"
     IN  /\ audit' = [audit EXCEPT ![t] = @ \cup {verdict}]
         /\ Clearing(h, t, AfterVerdict(h), at[h])
  /\ UNCHANGED <<storeVars, assistant, notified, writes, taken, ran, sent>>

-----------------------------------------------------------------------------
(* Running.                                                                *)

(* A handler that raises is a failed call, and only a write that completed *)
(* is recorded.                                                            *)
EveryWrite(a, ok) == a \in External    \* fault: a failed one is too
Completed(a, ok) == ok /\ a \in External

(* run_tool and the record's guard.  The answer carries current_status().  *)
Run(h) ==
  /\ pc[h] = "run"
  /\ ran' = IF at[h].tok = None THEN ran
            ELSE [ran EXCEPT ![at[h].tok] = Append(@, at[h].act)]
  /\ \E ok \in BOOLEAN :
       /\ sent' = IF ok /\ at[h].act \in External
                  THEN [sent EXCEPT ![at[h].act] = IF @ = 0 THEN 1 ELSE 2]
                  ELSE sent
       /\ Goto(h, IF Completed(at[h].act, ok) THEN "record" ELSE "status",
               [at[h] EXCEPT !.off = TRUE])
  /\ UNCHANGED <<storeVars, assistant, notified, writes, taken, audit>>

(* record_external_write.                                                  *)
Record(h) ==
  /\ pc[h] = "record"
  /\ writes' = writes \cup {at[h].act}
  /\ Goto(h, "status", at[h])
  /\ UNCHANGED <<storeVars, assistant, notified, history>>

(* EXTERNAL_WRITE_TTL_SECONDS pass and expire_external_writes drops a key. *)
(* No thread takes that long between running an action and recording it.   *)
Forget(a) ==
  /\ a \in writes
  /\ \A h \in Thread : ~ (pc[h] = "record" /\ at[h].act = a)
  /\ writes' = writes \ {a}
  /\ sent' = [sent EXCEPT ![a] = 0]
  /\ UNCHANGED <<storeVars, assistant, notified, threadVars, taken, audit, ran>>

-----------------------------------------------------------------------------
(* Polling and the mode.                                                   *)

(* GET /status is current_status() and nothing else.                       *)
Poll(h) ==
  /\ h \in Loop /\ MayStart(h)
  /\ Goto(h, "status", Blank)
  /\ UNCHANGED <<storeVars, assistant, notified, writes, history>>

(* Fault: a poll shows the store as it is.                                 *)
StatusAlone(h) ==
  /\ pc[h] = "status"
  /\ Goto(h, "notify", at[h])
  /\ UNCHANGED <<storeVars, assistant, notified, writes, history>>

Status(h) ==
  /\ pc[h] = "status"
  /\ Expiring(h, "notify", at[h])
  /\ UNCHANGED <<storeVars, assistant, notified, writes, history>>

(* expire_transients, after its expiry: a notification older than          *)
(* TERMINAL_NOTIFICATION_TTL_SECONDS is collapsed.                         *)
Notify(h) ==
  /\ pc[h] = "notify"
  /\ \/ /\ assistant.phase = "notification" /\ notified
        /\ Goto(h, "collapse",
             [Blank EXCEPT !.off = at[h].off,
                           !.copy = [assistant EXCEPT !.card = None,
                                                      !.phase = "ready"]])
     \/ Goto(h, "idle", Blank)
  /\ UNCHANGED <<storeVars, assistant, notified, writes, history>>

Collapse(h) ==
  /\ pc[h] = "collapse"
  /\ assistant' = at[h].copy
  /\ notified' = FALSE
  /\ Goto(h, "idle", Blank)
  /\ UNCHANGED <<storeVars, writes, history>>

(* PUT /runtime/mode: set_yolo.                                            *)
SetMode(h, yolo) ==
  /\ h \in Loop /\ MayStart(h)
  /\ Goto(h, "mode", [Blank EXCEPT !.yes = yolo,
                                !.copy = [assistant EXCEPT !.yolo = yolo]])
  /\ UNCHANGED <<storeVars, assistant, notified, writes, history>>

ModeWrite(h) ==
  /\ pc[h] = "mode"
  /\ assistant' = at[h].copy
  /\ IF at[h].yes /\ pending # {}
     THEN Goto(h, "cancel", [Blank EXCEPT !.todo = pending])
     ELSE Goto(h, "status", at[h])
  /\ UNCHANGED <<storeVars, notified, writes, history>>

(* Every pending token is audited as cancelled, one file append each ...   *)
Cancel(h) ==
  /\ pc[h] = "cancel"
  /\ audit' = [t \in Token |-> audit[t] \cup
                 (IF t \in pending THEN {"cancelled"} ELSE {})]
  /\ Goto(h, "drop", at[h])
  /\ UNCHANGED <<storeVars, assistant, notified, writes, taken, ran, sent>>

(* ... and dropped.  A dictionary that changed size under the loop raises  *)
(* RuntimeError instead, and nothing is dropped.                           *)
Drop(h) ==
  /\ pc[h] = "drop"
  /\ IF Cardinality(pending) # Cardinality(at[h].todo)
     THEN Goto(h, "idle", Blank) /\ UNCHANGED storeVars
     ELSE /\ pending' = {} /\ overdue' = {}
          /\ UNCHANGED asked
          /\ IF assistant.card # None
             THEN Clearing(h, assistant.card, "status", at[h])
             ELSE Goto(h, "status", at[h])
  /\ UNCHANGED <<assistant, notified, writes, history>>

-----------------------------------------------------------------------------
Start(h) ==
  \/ \E a \in Act : Request(h, a)
  \/ \E t \in Token, yes \in BOOLEAN : \/ \E a \in Act \cup {None} : Resolve(h, t, a, yes)
                                       \/ Tap(h, t, yes)
  \/ Poll(h)
  \/ \E yolo \in BOOLEAN : SetMode(h, yolo)

Continue(h) ==
  \/ ClearWrite(h) \/ Expire(h)
  \/ Insert(h) \/ Show(h) \/ Shown(h)
  \/ Lookup(h) \/ Take(h) \/ Settle(h)
  \/ Run(h) \/ Record(h)
  \/ Status(h) \/ Notify(h) \/ Collapse(h)
  \/ ModeWrite(h) \/ Cancel(h) \/ Drop(h)

Tick(t) ==
  /\ Age(t)
  /\ UNCHANGED <<assistant, notified, writes, threadVars, history>>

Next ==
  \/ \E h \in Thread : Start(h) \/ Continue(h)
  \/ \E a \in External : Forget(a)
  \/ \E t \in Token : Tick(t)

Spec == Init /\ [][Next]_vars

(* Threads run, time passes, and the desktop keeps polling: the event loop *)
(* serves its queue in turn, so a poll is not put off for ever.            *)
Fairness ==
  /\ \A h \in Thread : WF_vars(Continue(h))
  /\ \A h \in Loop : SF_vars(Poll(h))
  /\ \A t \in Token : WF_vars(Tick(t))

FairSpec == Spec /\ Fairness

-----------------------------------------------------------------------------
(* What the path promises.                                                 *)

(* Consent: an action is executed under a token at most once, it is the    *)
(* exact action the token was issued for, and by then the owner's yes has  *)
(* been taken and audited (take_confirmation, resolve_confirmation,        *)
(* settle_for_channel).                                                    *)
Consent ==
  \A t \in Token : ran[t] # <<>> =>
    /\ ran[t] = <<asked[t]>>
    /\ t \in taken
    /\ "approved" \in audit[t]

(* OneVerdict: the audit log never holds two answers to one token: not a   *)
(* yes and a no, not an answer and an expiry, whichever threads raced.  A  *)
(* burned token is not answered either.                                    *)
OneVerdict ==
  \A t \in Token : Cardinality(audit[t] \ {"cancelled"}) <= 1

(* Recorded: a write is recorded as completed only if it was executed, so  *)
(* a retry is never told of a success that did not happen                  *)
(* (run_tool: "a failed write is not a completed write").                  *)
Recorded == \A a \in writes : sent[a] > 0

(* Withdrawn: a token that left _pending without being handed out is never *)
(* handed out or run later; turning YOLO on cannot execute what it         *)
(* cancelled, and a token never comes back (set_yolo, expire_confirmations)*)
Withdrawn ==
  [][\A t \in Token : t \notin Fresh /\ t \notin pending =>
        /\ t \notin pending'
        /\ (t \notin taken => t \notin taken' /\ ran'[t] = ran[t])]_vars

(* Lapses: a token nobody answers does not stay usable; polling alone is   *)
(* enough to expire it (current_status), whatever the threads that race    *)
(* for it and fail with KeyError.                                          *)
Lapses == \A t \in Token : t \in pending ~> t \notin pending

(* SentOnce: an external action is not executed twice while its key lives  *)
(* (tests/test_idempotency.py:3-5).                                        *)
SentOnce == \A a \in External : sent[a] <= 1

-----------------------------------------------------------------------------
(* The abstract request behind each token.                                 *)
StatusOf(t) ==
  IF t \in Fresh THEN "new"
  ELSE IF t \in pending THEN "asked"
  ELSE IF ran[t] # <<>> THEN "ran"
  ELSE IF "approved" \in audit[t] THEN "approved"
  ELSE IF t \in taken /\ "denied" \notin audit[t] THEN "answering"
  ELSE "closed"

Abstract == INSTANCE Approval WITH
              status <- [t \in Token |-> StatusOf(t)],
              ask <- asked, effect <- ran

(* Implements: every behaviour of the store and its handlers is one of     *)
(* Approval's.                                                             *)
Implements == Abstract!ASpec
=============================================================================
