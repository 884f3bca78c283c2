------------------------- MODULE ConfirmationsProofs -------------------------
(***************************************************************************)
(* Proofs about Confirmations, for every set of tokens, actions and        *)
(* threads.                                                                *)
(*                                                                         *)
(* The argument.  A token leaves pending once, and the thread that takes   *)
(* it is the only one to hold it until the action has run: the dictionary  *)
(* is not locked, its pop is.  What a thread holds it holds through an     *)
(* expiry and a card that comes down, so the invariant speaks of where a   *)
(* thread is going, Dest, and not of where it stands.                      *)
(***************************************************************************)
EXTENDS Confirmations, FiniteSetTheorems, TLAPS

(* Where a thread goes once it has cleared the card and expired.           *)
DestOf(label, locals) ==
  LET place == IF label = "clear" THEN locals.back ELSE label
  IN  IF place = "expire" THEN locals.then ELSE place
Dest(h) == DestOf(pc[h], at[h])

(* A thread that goes there with these locals has taken a token and not    *)
(* used it yet.                                                            *)
Holding(dest, locals) == dest \in {"settle", "run"} /\ locals.tok # None
Holds(h) == Holding(Dest(h), at[h])

(* A token is fresh, then pending, then perhaps taken, and nothing runs or *)
(* is said of it before.                                                   *)
LifeCycle ==
  /\ pending \cap Fresh = {}
  /\ taken \cap (pending \cup Fresh) = {}
  /\ \A t \in Token \ taken : ran[t] = <<>> /\ "approved" \notin audit[t]
  /\ \A t \in pending \cup Fresh : audit[t] \subseteq {"cancelled"}

(* What a thread knows of what it has in hand.                             *)
InHand(dest, locals) ==
  /\ dest \in {"insert", "run"} => locals.act \in Act
  /\ dest = "record" => locals.act \in External /\ sent[locals.act] > 0
  /\ dest = "settle" => locals.tok # None /\ audit[locals.tok] \subseteq {"cancelled"}
  /\ Holding(dest, locals) => /\ locals.tok \in taken
                              /\ locals.act = asked[locals.tok]
                              /\ ran[locals.tok] = <<>>
                              /\ dest = "run" => "approved" \in audit[locals.tok]
Threads == \A h \in Thread : InHand(Dest(h), at[h])

(* No two threads hold one token.                                          *)
OneHolder ==
  \A g, h \in Thread : g # h /\ Holds(g) /\ Holds(h) => at[g].tok # at[h].tok

Answers == {"approved", "denied", "argument_mismatch", "expired"}
OneAnswer == \A t \in Token : \E v \in Answers : audit[t] \subseteq {v, "cancelled"}

(* The inductive invariant.                                                *)
IInv ==
  /\ TypeOK
  /\ LifeCycle
  /\ Threads
  /\ OneHolder
  /\ OneAnswer
  /\ Consent
  /\ Recorded

-----------------------------------------------------------------------------
(* Typing.                                                                 *)

Typed == pc' \in [Thread -> Label] /\ at' \in [Thread -> Locals]

(* A thread that goes to a label with proper locals stays well typed.      *)
LEMMA GotoTyped ==
  ASSUME TypeOK, NEW h \in Thread, NEW label \in Label, NEW locals \in Locals,
         Goto(h, label, locals)
  PROVE  Typed
<1>1. Blank \in Locals
  BY DEF Blank, Locals, NoAssistant, Assistant, Phase, Then, Back
<1>2. pc \in [Thread -> Label] /\ at \in [Thread -> Locals]
  BY DEF TypeOK
<1>3. [Blank EXCEPT !.off = locals.off] \in Locals
  BY <1>1 DEF Locals
<1> QED BY <1>1, <1>2, <1>3 DEF Goto, Typed

LEMMA ExpiringTyped ==
  ASSUME TypeOK, NEW h \in Thread, NEW then \in Then, NEW locals \in Locals,
         Expiring(h, then, locals)
  PROVE  Typed
<1>1. then \in Label /\ "expire" \in Label
  BY DEF Then, Label
<1>2. [locals EXCEPT !.todo = overdue, !.then = then] \in Locals
  BY DEF Locals, TypeOK, StoreTypeOK
<1> QED BY <1>1, <1>2, GotoTyped DEF Expiring

LEMMA ClearingTyped ==
  ASSUME TypeOK, NEW h \in Thread, NEW t, NEW back \in Back, NEW locals \in Locals,
         Clearing(h, t, back, locals)
  PROVE  Typed
<1>1. back \in Label /\ "clear" \in Label
  BY DEF Back, Then, Label
<1> DEFINE copy == [assistant EXCEPT !.card = None, !.phase = "notification"]
<1>2. copy \in Assistant
  BY DEF TypeOK, Assistant, Phase
<1>3. [locals EXCEPT !.back = back, !.copy = copy] \in Locals
  BY <1>2 DEF Locals
<1> HIDE DEF copy
<1>4. \/ Goto(h, "clear", [locals EXCEPT !.back = back, !.copy = copy])
      \/ Goto(h, back, locals)
  BY DEF Clearing, copy
<1> QED BY <1>1, <1>3, <1>4, GotoTyped

LEMMA TypeInit == Init => TypeOK
<1>1. Blank \in Locals
  BY DEF Blank, Locals, NoAssistant, Assistant, Phase, Then, Back
<1>2. Init => /\ assistant \in Assistant
              /\ pc \in [Thread -> Label] /\ at \in [Thread -> Locals]
  BY <1>1 DEF Init, NoAssistant, Assistant, Phase, Label
<1>3. Init => StoreTypeOK
  BY DEF Init, StoreInit, StoreTypeOK
<1>4. Init => /\ notified \in BOOLEAN /\ writes \subseteq External
              /\ taken \subseteq Token /\ audit \in [Token -> SUBSET Verdict]
  BY DEF Init
<1>5. Init => ran \in [Token -> Seq(Act)] /\ sent \in [External -> 0..2]
  BY SMT DEF Init
<1> QED BY <1>2, <1>3, <1>4, <1>5 DEF TypeOK

(* Where only a thread moves, typing is a matter of its locals.            *)
LEMMA MoveTyped ==
  ASSUME TypeOK, Typed,
         UNCHANGED <<storeVars, assistant, notified, writes, history>>
  PROVE  TypeOK'
BY DEF TypeOK, Typed, StoreTypeOK, storeVars, history

LEMMA BlankTyped == Blank \in Locals
BY DEF Blank, Locals, NoAssistant, Assistant, Phase, Then, Back

(* What a thread stores is of the right kind: what it appends to ran is an *)
(* action because InHand says so.                                          *)
LEMMA StartTyped ==
  ASSUME TypeOK, NEW h \in Thread, Start(h)
  PROVE  TypeOK'
<1> USE BlankTyped
<1>1. ASSUME NEW a \in Act, Request(h, a) PROVE TypeOK'
  <2> DEFINE request == [Blank EXCEPT !.act = a]
  <2>1. request \in Locals
    BY DEF Locals
  <2>2. "insert" \in Then /\ "run" \in Label
    BY DEF Then, Label
  <2> HIDE DEF request
  <2>3. Goto(h, "run", request) \/ Expiring(h, "insert", request)
    BY <1>1 DEF Request, request
  <2>4. Typed
    BY <2>1, <2>2, <2>3, GotoTyped, ExpiringTyped
  <2> QED BY <1>1, <2>4, MoveTyped DEF Request
<1>2. ASSUME NEW t \in Token, NEW a \in Act \cup {None}, NEW yes \in BOOLEAN,
             Resolve(h, t, a, yes)
      PROVE  TypeOK'
  <2>1. [Blank EXCEPT !.tok = t, !.act = a, !.yes = yes] \in Locals
    BY DEF Locals
  <2>2. "take" \in Then
    BY DEF Then
  <2>3. Typed
    BY <1>2, <2>1, <2>2, ExpiringTyped DEF Resolve
  <2> QED BY <1>2, <2>3, MoveTyped DEF Resolve
<1>3. ASSUME NEW t \in Token, NEW yes \in BOOLEAN, Tap(h, t, yes) PROVE TypeOK'
  <2>1. [Blank EXCEPT !.tok = t, !.yes = yes] \in Locals
    BY DEF Locals
  <2>2. "lookup" \in Then
    BY DEF Then
  <2>3. Typed
    BY <1>3, <2>1, <2>2, ExpiringTyped DEF Tap
  <2> QED BY <1>3, <2>3, MoveTyped DEF Tap
<1>4. CASE Poll(h)
  <2>1. Typed
    BY <1>4, GotoTyped DEF Poll, Label
  <2> QED BY <1>4, <2>1, MoveTyped DEF Poll
<1>5. ASSUME NEW yolo \in BOOLEAN, SetMode(h, yolo) PROVE TypeOK'
  <2>1. [assistant EXCEPT !.yolo = yolo] \in Assistant
    BY DEF TypeOK, Assistant
  <2> DEFINE copy == [assistant EXCEPT !.yolo = yolo]
  <2> HIDE DEF copy
  <2>2. [Blank EXCEPT !.yes = yolo, !.copy = copy] \in Locals
    BY <2>1 DEF Locals, copy
  <2>3. Typed
    BY <1>5, <2>2, GotoTyped DEF SetMode, Label, copy
  <2> QED BY <1>5, <2>3, MoveTyped DEF SetMode
<1> QED BY <1>1, <1>2, <1>3, <1>4, <1>5 DEF Start
LEMMA LocalsTyped ==
  ASSUME TypeOK, NEW h \in Thread
  PROVE  /\ pc[h] \in Label /\ at[h] \in Locals
         /\ at[h].tok \in Token \cup {None} /\ at[h].act \in Act \cup {None}
         /\ at[h].yes \in BOOLEAN /\ at[h].todo \in SUBSET Token
         /\ at[h].copy \in Assistant
         /\ at[h].then \in Then /\ at[h].back \in Back
BY DEF TypeOK, Locals

LEMMA ContinueTyped ==
  ASSUME TypeOK, Threads, NEW h \in Thread, Continue(h)
  PROVE  TypeOK'
<1> USE BlankTyped, LocalsTyped
<1>0. Back \subseteq Label /\ Then \subseteq Label /\ Answer(h) \in Label
  BY DEF Back, Then, Label, Answer
<1>1. CASE ClearWrite(h)
  <2>1. Typed
    BY <1>0, <1>1, GotoTyped DEF ClearWrite
  <2> QED BY <1>1, <2>1 DEF ClearWrite, TypeOK, Typed, StoreTypeOK, storeVars, history
<1>2. CASE Expire(h)
  <2>1. CASE \E t \in at[h].todo \cap pending :
               /\ Pop(t)
               /\ audit' = [audit EXCEPT ![t] = @ \cup {"expired"}]
               /\ \E rest \in SUBSET Token, next \in Back :
                    Clearing(h, t, next, [at[h] EXCEPT !.todo = rest])
               /\ UNCHANGED <<taken, ran, sent>>
    <3>1. PICK t \in at[h].todo \cap pending :
            /\ Pop(t)
            /\ audit' = [audit EXCEPT ![t] = @ \cup {"expired"}]
            /\ \E rest \in SUBSET Token, next \in Back :
                 Clearing(h, t, next, [at[h] EXCEPT !.todo = rest])
            /\ UNCHANGED <<taken, ran, sent>>
      BY <2>1
    <3>2. PICK rest \in SUBSET Token, next \in Back :
            Clearing(h, t, next, [at[h] EXCEPT !.todo = rest])
      BY <3>1
    <3>3. [at[h] EXCEPT !.todo = rest] \in Locals
      BY DEF Locals
    <3>4. Typed
      BY <3>2, <3>3, ClearingTyped
    <3>5. audit' \in [Token -> SUBSET Verdict]
      BY <3>1 DEF TypeOK, Verdict
    <3> QED BY <1>2, <3>1, <3>4, <3>5 DEF Expire, TypeOK, Typed, StoreTypeOK, Pop
  <2>2. CASE Goto(h, "idle", Blank) /\ UNCHANGED <<storeVars, history>>
    <3>1. Typed
      BY <2>2, GotoTyped DEF Label
    <3> QED BY <1>2, <2>2, <3>1, MoveTyped DEF Expire
  <2>3. \A t, rest : rest = at[h].todo \ {t} =>
          /\ rest \in SUBSET Token
          /\ (IF rest = {} THEN at[h].then ELSE "expire") \in Back
    BY DEF Back
  <2> QED BY <1>2, <2>1, <2>2, <2>3 DEF Expire
<1>3. CASE Insert(h)
  <2>1. PICK t \in Fresh : Issue(t, at[h].act) /\ Goto(h, "show", [Blank EXCEPT !.tok = t])
    BY <1>3 DEF Insert
  <2>2. t \in Token
    BY DEF Fresh
  <2>3. [Blank EXCEPT !.tok = t] \in Locals
    BY <2>2 DEF Locals
  <2>4. Typed
    BY <2>1, <2>3, GotoTyped DEF Label
  <2> QED BY <1>3, <2>1, <2>2, <2>4 DEF Insert, Issue, TypeOK, Typed, StoreTypeOK, history
<1>4. CASE Show(h)
  <2> DEFINE copy == [assistant EXCEPT !.card = at[h].tok, !.phase = "confirmation"]
  <2>1. copy \in Assistant
    BY DEF TypeOK, Assistant, Phase
  <2> HIDE DEF copy
  <2>2. [Blank EXCEPT !.copy = copy] \in Locals
    BY <2>1 DEF Locals
  <2>3. Typed
    BY <1>4, <2>2, GotoTyped DEF Show, copy, Label
  <2> QED BY <1>4, <2>3, MoveTyped DEF Show
<1>5. CASE Shown(h)
  <2>1. Typed
    BY <1>0, <1>5, GotoTyped DEF Shown
  <2> QED BY <1>5, <2>1 DEF Shown, TypeOK, Typed, StoreTypeOK, storeVars, history
<1>6. CASE Lookup(h)
  <2>1. CASE /\ at[h].tok \in pending
             /\ Expiring(h, "take", [at[h] EXCEPT !.act = asked[at[h].tok]])
    <3>1. asked[at[h].tok] \in Act \cup {None}
      BY <2>1 DEF TypeOK, StoreTypeOK
    <3>2. [at[h] EXCEPT !.act = asked[at[h].tok]] \in Locals
      BY <3>1 DEF Locals
    <3>3. "take" \in Then
      BY DEF Then
    <3>4. Typed
      BY <2>1, <3>2, <3>3, ExpiringTyped
    <3> QED BY <1>6, <3>4, MoveTyped DEF Lookup
  <2>2. CASE Goto(h, "idle", Blank)
    <3>1. Typed
      BY <2>2, GotoTyped DEF Label
    <3> QED BY <1>6, <3>1, MoveTyped DEF Lookup
  <2> QED BY <1>6, <2>1, <2>2 DEF Lookup
<1>7. CASE Take(h)
  <2> DEFINE t == at[h].tok
  <2>1. CASE Goto(h, "idle", Blank) /\ UNCHANGED <<storeVars, taken, audit>>
    <3>1. Typed
      BY <2>1, GotoTyped DEF Label
    <3> QED BY <1>7, <2>1, <3>1 DEF Take, TypeOK, Typed, StoreTypeOK, storeVars
  <2>2. CASE Pop(t) /\ taken' = taken \cup {t} /\ Goto(h, "settle", at[h]) /\ UNCHANGED audit
    <3>1. Typed
      BY <2>2, GotoTyped DEF Label
    <3> QED BY <1>7, <2>2, <3>1 DEF Take, TypeOK, Typed, StoreTypeOK, Pop
  <2>3. CASE /\ Pop(t) /\ UNCHANGED taken /\ Clearing(h, t, "idle", at[h])
             /\ audit' = [audit EXCEPT ![t] = @ \cup {"argument_mismatch"}]
    <3>1. Typed
      BY <2>3, ClearingTyped DEF Back, Then
    <3>2. audit' \in [Token -> SUBSET Verdict]
      BY <2>3 DEF Pop, TypeOK, Verdict
    <3> QED BY <1>7, <2>3, <3>1, <3>2 DEF Take, TypeOK, Typed, StoreTypeOK, Pop
  <2> QED BY <1>7, <2>1, <2>2, <2>3 DEF Take
<1>8. CASE Settle(h)
  <2>1. AfterVerdict(h) \in Back
    BY DEF AfterVerdict, Answer, Back, Then
  <2>2. Typed
    BY <1>8, <2>1, ClearingTyped DEF Settle
  <2>3. audit' \in [Token -> SUBSET Verdict]
    BY <1>8 DEF Settle, TypeOK, Verdict
  <2> QED BY <1>8, <2>2, <2>3 DEF Settle, TypeOK, Typed, StoreTypeOK, storeVars
<1>9. CASE Run(h)
  <2> DEFINE locals == [at[h] EXCEPT !.off = TRUE]
  <2>0. locals \in Locals
    BY DEF Locals
  <2>1. Typed
    <3> HIDE DEF locals
    <3>1. Goto(h, "record", locals) \/ Goto(h, "status", locals)
      BY <1>9 DEF Run, locals
    <3> QED BY <2>0, <3>1, GotoTyped DEF Label
  <2>2. at[h].act \in Act
    BY <1>9 DEF Run, Threads, InHand, Dest, DestOf
  <2>3. ran' \in [Token -> Seq(Act)]
    BY <1>9, <2>2 DEF Run, TypeOK
  <2>4. sent' \in [External -> 0..2]
    BY <1>9 DEF Run, TypeOK
  <2> QED BY <1>9, <2>1, <2>3, <2>4 DEF Run, TypeOK, Typed, StoreTypeOK, storeVars
<1>10. CASE Record(h)
  <2>1. Typed
    BY <1>10, GotoTyped DEF Record, Label
  <2>2. at[h].act \in External
    BY <1>10 DEF Record, Threads, InHand, Dest, DestOf
  <2> QED BY <1>10, <2>1, <2>2 DEF Record, TypeOK, Typed, StoreTypeOK, storeVars, history
<1>11. CASE Status(h)
  <2>1. Typed
    BY <1>11, ExpiringTyped DEF Status, Then
  <2> QED BY <1>11, <2>1, MoveTyped DEF Status
<1>12. CASE Notify(h)
  <2> DEFINE copy == [assistant EXCEPT !.card = None, !.phase = "ready"]
  <2>1. copy \in Assistant
    BY DEF TypeOK, Assistant, Phase
  <2> HIDE DEF copy
  <2>2. [Blank EXCEPT !.off = at[h].off, !.copy = copy] \in Locals
    BY <2>1 DEF Locals
  <2>3. \/ Goto(h, "collapse", [Blank EXCEPT !.off = at[h].off, !.copy = copy])
        \/ Goto(h, "idle", Blank)
    BY <1>12 DEF Notify, copy
  <2>4. Typed
    BY <2>2, <2>3, GotoTyped DEF Label
  <2> QED BY <1>12, <2>4, MoveTyped DEF Notify
<1>13. CASE Collapse(h)
  <2>1. Typed
    BY <1>13, GotoTyped DEF Collapse, Label
  <2> QED BY <1>13, <2>1 DEF Collapse, TypeOK, Typed, StoreTypeOK, storeVars, history
<1>14. CASE ModeWrite(h)
  <2>1. pending \in SUBSET Token
    BY DEF TypeOK, StoreTypeOK
  <2>2. [Blank EXCEPT !.todo = pending] \in Locals
    BY <2>1 DEF Locals
  <2>3. Typed
    BY <1>14, <2>2, GotoTyped DEF ModeWrite, Label
  <2> QED BY <1>14, <2>3 DEF ModeWrite, TypeOK, Typed, StoreTypeOK, storeVars, history
<1>15. CASE Cancel(h)
  <2>1. Typed
    BY <1>15, GotoTyped DEF Cancel, Label
  <2>2. audit' \in [Token -> SUBSET Verdict]
    BY <1>15 DEF Cancel, TypeOK, Verdict
  <2> QED BY <1>15, <2>1, <2>2 DEF Cancel, TypeOK, Typed, StoreTypeOK, storeVars
<1>16. CASE Drop(h)
  <2>1. \/ Goto(h, "idle", Blank) \/ Goto(h, "status", at[h])
        \/ \E t : Clearing(h, t, "status", at[h])
    BY <1>16 DEF Drop
  <2>2. Typed
    BY <2>1, GotoTyped, ClearingTyped DEF Label, Back, Then
  <2>3. StoreTypeOK'
    BY <1>16 DEF Drop, TypeOK, StoreTypeOK, storeVars
  <2> QED BY <1>16, <2>2, <2>3 DEF Drop, TypeOK, Typed, history
<1> QED BY <1>1, <1>2, <1>3, <1>4, <1>5, <1>6, <1>7, <1>8, <1>9, <1>10, <1>11,
           <1>12, <1>13, <1>14, <1>15, <1>16 DEF Continue
-----------------------------------------------------------------------------
(* Moves.                                                                  *)

Others(h) == \A g \in Thread \ {h} : pc'[g] = pc[g] /\ at'[g] = at[g]

(* A thread arrives with a token and an action in hand, or with nothing to *)
(* do with either.                                                         *)
Arrives(h, dest, locals) ==
  /\ Others(h)
  /\ Dest(h)' = dest
  /\ dest \notin {"idle", "status"} =>
       at'[h].tok = locals.tok /\ at'[h].act = locals.act

LEMMA GotoArrives ==
  ASSUME TypeOK, NEW h \in Thread, NEW label, NEW locals, Goto(h, label, locals)
  PROVE  Arrives(h, IF label \in {"idle", "status"} THEN label
                    ELSE DestOf(label, locals), locals)
<1>1. PICK left : /\ pc' = [pc EXCEPT ![h] = label] /\ at' = [at EXCEPT ![h] = left]
                  /\ label \notin {"idle", "status"} => left = locals
  BY DEF Goto
<1>2. /\ pc'[h] = label
      /\ label \notin {"idle", "status"} => at'[h] = locals
      /\ Others(h)
  BY <1>1 DEF TypeOK, Others
<1>3. Dest(h)' = DestOf(label, at'[h])
  BY <1>2 DEF Dest, DestOf
<1>4. CASE label \in {"idle", "status"}
  <2>1. DestOf(label, at'[h]) = label
    BY <1>4 DEF DestOf
  <2> QED BY <1>2, <1>3, <1>4, <2>1 DEF Arrives
<1>5. CASE label \notin {"idle", "status"}
  BY <1>2, <1>3, <1>5 DEF Arrives
<1> QED BY <1>4, <1>5

(* Expiring first does not change where a thread is going.                 *)
LEMMA ExpiringArrives ==
  ASSUME TypeOK, NEW h \in Thread, NEW then \in Then, NEW locals \in Locals,
         Expiring(h, then, locals)
  PROVE  Arrives(h, then, locals)
<1>1. CASE overdue = {}
  <2>1. DestOf(then, locals) = then /\ then # "status"
    BY DEF DestOf, Then
  <2> QED BY <1>1, <2>1, GotoArrives DEF Expiring
<1>2. CASE overdue # {}
  <2> DEFINE list == [locals EXCEPT !.todo = overdue, !.then = then]
  <2>1. list.then = then /\ list.tok = locals.tok /\ list.act = locals.act
    BY DEF Locals
  <2>2. Goto(h, "expire", list)
    BY <1>2 DEF Expiring
  <2> HIDE DEF list
  <2>3. DestOf("expire", list) = then
    BY <2>1 DEF DestOf
  <2> QED BY <2>1, <2>2, <2>3, GotoArrives DEF Arrives
<1> QED BY <1>1, <1>2

(* Nor does clearing the card.                                             *)
LEMMA ClearingArrives ==
  ASSUME TypeOK, NEW h \in Thread, NEW t, NEW back \in Back, NEW locals \in Locals,
         Clearing(h, t, back, locals)
  PROVE  Arrives(h, DestOf(back, locals), locals)
<1>0. back # "clear"
  BY DEF Back, Then
<1>1. CASE assistant.card \in {None, t}
  <2> DEFINE clear == [locals EXCEPT !.back = back,
               !.copy = [assistant EXCEPT !.card = None, !.phase = "notification"]]
  <2>1. /\ clear.back = back /\ clear.then = locals.then
        /\ clear.tok = locals.tok /\ clear.act = locals.act
    BY DEF Locals
  <2>2. Goto(h, "clear", clear)
    BY <1>1 DEF Clearing
  <2> HIDE DEF clear
  <2>3. DestOf("clear", clear) = DestOf(back, locals)
    BY <1>0, <2>1 DEF DestOf
  <2> QED BY <2>1, <2>2, <2>3, GotoArrives DEF Arrives
<1>2. CASE assistant.card \notin {None, t}
  <2>1. Goto(h, back, locals)
    BY <1>2 DEF Clearing
  <2>2. back \in {"idle", "status"} => DestOf(back, locals) = back
    BY DEF DestOf
  <2> QED BY <2>1, <2>2, GotoArrives
<1> QED BY <1>1, <1>2

-----------------------------------------------------------------------------
(* The other threads.                                                      *)

(* What the other threads hold is not disturbed by a step that leaves the  *)
(* tokens they hold alone, and takes none of them.                         *)
LEMMA ThreadsStep ==
  ASSUME Threads, OneHolder, NEW h \in Thread, Others(h),
         \A g \in Thread \ {h} : Holds(g) =>
           LET t == at[g].tok
           IN  /\ t \in taken' /\ asked'[t] = asked[t]
               /\ ran'[t] = ran[t] /\ audit'[t] = audit[t]
               /\ Holds(h)' => at'[h].tok # t,
         \A a \in External : sent[a] > 0 => sent'[a] > 0,
         InHand(Dest(h), at[h])'
  PROVE  Threads' /\ OneHolder'
<1>1. \A g \in Thread \ {h} :
        at'[g] = at[g] /\ Dest(g)' = Dest(g) /\ (Holds(g)' <=> Holds(g))
  BY DEF Others, Dest, DestOf, Holds, Holding
<1>2. ASSUME NEW g \in Thread \ {h} PROVE InHand(Dest(g), at[g])'
  <2>1. InHand(Dest(g), at[g])
    BY DEF Threads
  <2> DEFINE dest == Dest(g)
             locals == at[g]
  <2>2. dest' = dest /\ locals' = locals
    BY <1>1
  <2>3. Holding(dest, locals) <=> Holds(g)
    BY DEF Holds
  <2>4. dest = "settle" => Holding(dest, locals)
    BY <2>1 DEF InHand, Holding
  <2>5. InHand(dest, locals)
    BY <2>1
  <2> HIDE DEF dest, locals
  <2>6. Holding(dest, locals)' <=> Holding(dest, locals)
    BY <2>2 DEF Holding
  <2>7. Holding(dest, locals) =>
          LET t == locals.tok
          IN  /\ t \in taken' /\ asked'[t] = asked[t]
              /\ ran'[t] = ran[t] /\ audit'[t] = audit[t]
    BY <2>3 DEF locals
  <2>8. InHand(dest, locals)'
    BY <2>2, <2>4, <2>5, <2>6, <2>7 DEF InHand
  <2> QED BY <2>8 DEF dest, locals
<1>3. Threads'
  BY <1>2 DEF Threads
<1>4. OneHolder'
  BY <1>1 DEF OneHolder
<1> QED BY <1>3, <1>4
(* A thread that comes into nothing new.                                   *)
Lands(h) ==
  \/ Dest(h)' \notin {"insert", "run", "record", "settle"}
  \/ /\ Dest(h)' \in {"insert", "run"}
     /\ at'[h].tok = None /\ at'[h].act \in Act
  \/ /\ Dest(h)' = Dest(h)
     /\ at'[h].tok = at[h].tok /\ at'[h].act = at[h].act

(* A step that only moves a thread keeps the invariant.                    *)
LEMMA MoveStep ==
  ASSUME IInv, TypeOK', NEW h \in Thread, Others(h), Lands(h),
         UNCHANGED <<storeVars, writes, history>>
  PROVE  IInv'
<1>1. UNCHANGED <<pending, asked, writes, taken, audit, ran, sent>>
  BY DEF storeVars, history
<1>2. LifeCycle' /\ OneAnswer' /\ Consent' /\ Recorded'
  BY <1>1 DEF IInv, LifeCycle, OneAnswer, Consent, Recorded, Fresh
<1>3. InHand(Dest(h), at[h])
  BY DEF IInv, Threads
<1>4. InHand(Dest(h), at[h])'
  <2>1. CASE Dest(h)' \notin {"insert", "run", "record", "settle"}
    BY <2>1 DEF InHand, Holding
  <2>2. CASE /\ Dest(h)' \in {"insert", "run"}
             /\ at'[h].tok = None /\ at'[h].act \in Act
    BY <2>2 DEF InHand, Holding
  <2>3. CASE /\ Dest(h)' = Dest(h)
             /\ at'[h].tok = at[h].tok /\ at'[h].act = at[h].act
    BY <1>1, <1>3, <2>3 DEF InHand, Holding
  <2> QED BY <2>1, <2>2, <2>3 DEF Lands
<1>5. ASSUME Holds(h)' PROVE Holds(h) /\ at'[h].tok = at[h].tok
  BY <1>5 DEF Lands, Holds, Holding
<1>6. \A g \in Thread \ {h} : Holds(g) =>
           LET t == at[g].tok
           IN  /\ t \in taken' /\ asked'[t] = asked[t]
               /\ ran'[t] = ran[t] /\ audit'[t] = audit[t]
               /\ Holds(h)' => at'[h].tok # t
  BY <1>1, <1>5 DEF IInv, Threads, InHand, OneHolder, Holds
<1>7. \A a \in External : sent[a] > 0 => sent'[a] > 0
  BY <1>1
<1>8. Threads' /\ OneHolder'
  BY <1>4, <1>6, <1>7, ThreadsStep DEF IInv
<1> QED BY <1>2, <1>8 DEF IInv

LEMMA InitInv == Init => IInv
<1> SUFFICES ASSUME Init PROVE IInv
  OBVIOUS
<1>1. TypeOK
  BY TypeInit
<1>2. LifeCycle /\ OneAnswer /\ Consent /\ Recorded
  <2>1. /\ pending = {} /\ taken = {} /\ writes = {}
        /\ \A t \in Token : audit[t] = {} /\ ran[t] = <<>>
    BY DEF Init, StoreInit
  <2>2. Fresh \subseteq Token /\ "expired" \in Answers
    BY DEF Fresh, Answers
  <2>3. LifeCycle
    BY <2>1, <2>2 DEF LifeCycle
  <2>4. OneAnswer
    BY <2>1, <2>2 DEF OneAnswer
  <2> QED BY <2>1, <2>3, <2>4 DEF Consent, Recorded
<1>3. \A h \in Thread : Dest(h) = "idle"
  BY DEF Init, Dest, DestOf
<1>4. Threads /\ OneHolder
  BY <1>3 DEF Threads, InHand, OneHolder, Holds, Holding
<1> QED BY <1>1, <1>2, <1>4 DEF IInv

LEMMA StartInv ==
  ASSUME IInv, NEW h \in Thread, Start(h)
  PROVE  IInv'
<1> USE BlankTyped
<1>0. TypeOK /\ TypeOK'
  BY StartTyped DEF IInv
<1>1. ASSUME NEW a \in Act, Request(h, a) PROVE IInv'
  <2> DEFINE request == [Blank EXCEPT !.act = a]
  <2>1. request \in Locals /\ request.tok = None /\ request.act = a
    BY DEF Locals, Blank
  <2> HIDE DEF request
  <2>2. CASE Goto(h, "run", request)
    <3>1. Arrives(h, "run", request)
      BY <1>0, <2>2, GotoArrives DEF DestOf
    <3> QED BY <1>0, <1>1, <2>1, <3>1, MoveStep DEF Request, Arrives, Lands
  <2>3. CASE Expiring(h, "insert", request)
    <3>1. Arrives(h, "insert", request)
      BY <1>0, <2>1, <2>3, ExpiringArrives DEF Then
    <3> QED BY <1>0, <1>1, <2>1, <3>1, MoveStep DEF Request, Arrives, Lands
  <2> QED BY <1>1, <2>2, <2>3 DEF Request, request
<1>2. ASSUME NEW t \in Token, NEW a \in Act \cup {None}, NEW yes \in BOOLEAN,
             Resolve(h, t, a, yes)
      PROVE  IInv'
  <2> DEFINE answer == [Blank EXCEPT !.tok = t, !.act = a, !.yes = yes]
  <2>1. answer \in Locals
    BY DEF Locals
  <2>2. Arrives(h, "take", answer)
    BY <1>0, <1>2, <2>1, ExpiringArrives DEF Resolve, Then
  <2> QED BY <1>0, <1>2, <2>2, MoveStep DEF Resolve, Arrives, Lands
<1>3. ASSUME NEW t \in Token, NEW yes \in BOOLEAN, Tap(h, t, yes) PROVE IInv'
  <2> DEFINE answer == [Blank EXCEPT !.tok = t, !.yes = yes]
  <2>1. answer \in Locals
    BY DEF Locals
  <2>2. Arrives(h, "lookup", answer)
    BY <1>0, <1>3, <2>1, ExpiringArrives DEF Tap, Then
  <2> QED BY <1>0, <1>3, <2>2, MoveStep DEF Tap, Arrives, Lands
<1>4. CASE Poll(h)
  <2>1. Arrives(h, "status", Blank)
    BY <1>0, <1>4, GotoArrives DEF Poll
  <2> QED BY <1>0, <1>4, <2>1, MoveStep DEF Poll, Arrives, Lands
<1>5. ASSUME NEW yolo \in BOOLEAN, SetMode(h, yolo) PROVE IInv'
  <2>1. PICK locals : Goto(h, "mode", locals)
    BY <1>5 DEF SetMode
  <2>2. Arrives(h, "mode", locals)
    BY <1>0, <2>1, GotoArrives DEF DestOf
  <2> QED BY <1>0, <1>5, <2>2, MoveStep DEF SetMode, Arrives, Lands
<1> QED BY <1>1, <1>2, <1>3, <1>4, <1>5 DEF Start
-----------------------------------------------------------------------------
(* Steps that touch a token.                                               *)

(* The pending token t goes, with a verdict.                               *)
LEMMA ClosedStep ==
  ASSUME IInv, TypeOK', NEW h \in Thread, Others(h), Lands(h),
         NEW t \in pending, Pop(t), NEW v \in {"argument_mismatch", "expired"},
         audit' = [audit EXCEPT ![t] = @ \cup {v}],
         UNCHANGED <<writes, taken, ran, sent>>
  PROVE  IInv'
<1>1. /\ pending' = pending \ {t} /\ asked' = asked /\ Fresh' = Fresh
      /\ t \in Token /\ t \notin taken /\ t \notin Fresh
      /\ audit'[t] = audit[t] \cup {v} /\ audit[t] \subseteq {"cancelled"}
      /\ \A u \in Token \ {t} : audit'[u] = audit[u]
      /\ \A u \in Token : audit[u] \subseteq audit'[u]
  BY DEF IInv, LifeCycle, Pop, Fresh, TypeOK, StoreTypeOK
<1>2. LifeCycle'
  <2>1. \A u \in pending' \cup Fresh' : u \in Token \ {t}
    BY <1>1 DEF Fresh, IInv, TypeOK, StoreTypeOK
  <2> QED BY <1>1, <2>1 DEF IInv, LifeCycle
<1>3. OneAnswer'
  BY <1>1 DEF IInv, OneAnswer, Answers
<1>4. Consent' /\ Recorded'
  BY <1>1 DEF IInv, Consent, Recorded
<1>5. InHand(Dest(h), at[h]) /\ \A g \in Thread : Holds(g) => at[g].tok \in taken
  BY DEF IInv, Threads, InHand, Holds
<1>6. ASSUME Holds(h)' PROVE Holds(h) /\ at'[h].tok = at[h].tok
  BY <1>6 DEF Lands, Holds, Holding
<1>7. \A g \in Thread \ {h} : Holds(g) =>
           LET u == at[g].tok
           IN  /\ u \in taken' /\ asked'[u] = asked[u]
               /\ ran'[u] = ran[u] /\ audit'[u] = audit[u]
               /\ Holds(h)' => at'[h].tok # u
  BY <1>1, <1>5, <1>6 DEF IInv, OneHolder, TypeOK
<1>8. InHand(Dest(h), at[h])'
  <2>1. CASE Dest(h)' \notin {"insert", "run", "record", "settle"}
    BY <2>1 DEF InHand, Holding
  <2>2. CASE /\ Dest(h)' \in {"insert", "run"}
             /\ at'[h].tok = None /\ at'[h].act \in Act
    BY <2>2 DEF InHand, Holding
  <2>3. CASE /\ Dest(h)' = Dest(h)
             /\ at'[h].tok = at[h].tok /\ at'[h].act = at[h].act
    <3>1. Holds(h) => audit'[at[h].tok] = audit[at[h].tok]
      BY <1>1, <1>5 DEF IInv, TypeOK
    <3>2. Dest(h) = "settle" => Holds(h)
      BY <1>5 DEF InHand, Holds, Holding
    <3> QED BY <1>1, <1>5, <2>3, <3>1, <3>2 DEF InHand, Holding, Holds
  <2> QED BY <2>1, <2>2, <2>3 DEF Lands
<1>9. Threads' /\ OneHolder'
  BY <1>7, <1>8, ThreadsStep DEF IInv
<1> QED BY <1>2, <1>3, <1>4, <1>9 DEF IInv

LEMMA ExpireInv ==
  ASSUME IInv, TypeOK', NEW h \in Thread, Expire(h)
  PROVE  IInv'
<1>0. TypeOK /\ pc[h] = "expire" /\ Dest(h) = at[h].then
  BY DEF IInv, Expire, Dest, DestOf
<1>1. CASE Goto(h, "idle", Blank) /\ UNCHANGED <<storeVars, history>>
  <2>1. Arrives(h, "idle", Blank)
    BY <1>0, <1>1, GotoArrives
  <2> QED BY <1>1, <2>1, MoveStep DEF Expire, Arrives, Lands
<1>2. ASSUME NEW t \in at[h].todo \cap pending, NEW rest,
             NEW next, rest = at[h].todo \ {t},
             next = (IF rest = {} THEN at[h].then ELSE "expire"),
             Pop(t), audit' = [audit EXCEPT ![t] = @ \cup {"expired"}],
             Clearing(h, t, next, [at[h] EXCEPT !.todo = rest]),
             UNCHANGED <<taken, ran, sent>>
      PROVE  IInv'
  <2> DEFINE locals == [at[h] EXCEPT !.todo = rest]
  <2>1. /\ locals \in Locals /\ next \in Back /\ locals.then = at[h].then
        /\ locals.tok = at[h].tok /\ locals.act = at[h].act
    BY <1>0, <1>2, LocalsTyped DEF Locals, Back
  <2>2. Clearing(h, t, next, locals)
    BY <1>2
  <2> HIDE DEF locals
  <2>3. DestOf(next, locals) = at[h].then
    BY <1>0, <1>2, <2>1, LocalsTyped DEF DestOf, Then
  <2>4. Arrives(h, at[h].then, locals)
    BY <1>0, <2>1, <2>2, <2>3, ClearingArrives
  <2>5. Others(h) /\ Lands(h)
    BY <1>0, <2>1, <2>4 DEF Arrives, Lands
  <2> QED BY <1>2, <2>5, ClosedStep DEF Expire, Answers
<1> QED BY <1>1, <1>2 DEF Expire

LEMMA InsertInv ==
  ASSUME IInv, TypeOK', NEW h \in Thread, Insert(h)
  PROVE  IInv'
<1>0. TypeOK /\ at[h].act \in Act
  BY DEF IInv, Insert, Threads, InHand, Dest, DestOf
<1>1. PICK t \in Fresh : Issue(t, at[h].act) /\ Goto(h, "show", [Blank EXCEPT !.tok = t])
  BY DEF Insert
<1>2. Others(h) /\ Dest(h)' = "show"
  BY <1>0, <1>1, GotoArrives DEF Arrives, DestOf
<1>3. /\ t \in Token /\ t \notin pending /\ t \notin taken
      /\ pending' = pending \cup {t} /\ asked'[t] # None
      /\ \A u \in Token \ {t} : asked'[u] = asked[u]
  BY <1>0, <1>1, StoreAssumption DEF Issue, Fresh, IInv, LifeCycle, TypeOK, StoreTypeOK
<1>4. Fresh' = Fresh \ {t}
  BY <1>1, <1>3 DEF Fresh
<1>5. UNCHANGED <<writes, taken, audit, ran, sent>>
  BY DEF Insert, history
<1>6. LifeCycle'
  BY <1>1, <1>3, <1>4, <1>5 DEF IInv, LifeCycle
<1>7. OneAnswer' /\ Recorded'
  BY <1>5 DEF IInv, OneAnswer, Recorded
<1>8. Consent'
  BY <1>3, <1>5 DEF IInv, Consent
<1>9. InHand(Dest(h), at[h])' /\ ~ Holds(h)'
  BY <1>2 DEF InHand, Holding, Holds
<1>10. \A g \in Thread : Holds(g) => at[g].tok \in taken
  BY DEF IInv, Threads, InHand, Holds
<1>11. Threads' /\ OneHolder'
  BY <1>2, <1>3, <1>5, <1>9, <1>10, ThreadsStep DEF IInv, TypeOK
<1> QED BY <1>6, <1>7, <1>8, <1>11 DEF IInv

LEMMA TakeInv ==
  ASSUME IInv, TypeOK', NEW h \in Thread, Take(h)
  PROVE  IInv'
<1> DEFINE t == at[h].tok
<1>0. TypeOK /\ at[h] \in Locals /\ UNCHANGED <<writes, ran, sent>>
  BY LocalsTyped DEF IInv, Take
<1>1. CASE Goto(h, "idle", Blank) /\ UNCHANGED <<storeVars, taken, audit>>
  <2>1. Arrives(h, "idle", Blank)
    BY <1>0, <1>1, GotoArrives
  <2> QED BY <1>0, <1>1, <2>1, MoveStep DEF Arrives, Lands, history
<1>2. CASE /\ Pop(t) /\ UNCHANGED taken /\ Clearing(h, t, "idle", at[h])
           /\ audit' = [audit EXCEPT ![t] = @ \cup {"argument_mismatch"}]
  <2>1. Arrives(h, "idle", at[h])
    BY <1>0, <1>2, ClearingArrives DEF Back, Then, DestOf
  <2> QED BY <1>0, <1>2, <2>1, ClosedStep DEF Arrives, Lands, Pop, Answers
<1>3. CASE /\ Pop(t) /\ Matches(h, t) /\ taken' = taken \cup {t}
           /\ Goto(h, "settle", at[h]) /\ UNCHANGED audit
  <2>1. /\ Others(h) /\ Dest(h)' = "settle"
        /\ at'[h].tok = t /\ at'[h].act = at[h].act
    BY <1>0, <1>3, GotoArrives DEF Arrives, DestOf
  <2> HIDE DEF t
  <2>2. /\ t \in Token /\ t \in pending /\ t \notin taken /\ t \notin Fresh
        /\ ran[t] = <<>> /\ audit[t] \subseteq {"cancelled"} /\ t # None
        /\ pending' = pending \ {t} /\ asked' = asked /\ Fresh' = Fresh
    BY <1>3, StoreAssumption DEF Pop, Fresh, IInv, LifeCycle, TypeOK, StoreTypeOK
  <2>3. at[h].act = asked[t]
    BY <1>3 DEF Matches
  <2>4. LifeCycle'
    BY <1>0, <1>3, <2>2 DEF IInv, LifeCycle
  <2>5. OneAnswer' /\ Consent' /\ Recorded'
    BY <1>0, <1>3, <2>2 DEF IInv, OneAnswer, Consent, Recorded
  <2>6. InHand(Dest(h), at[h])'
    BY <1>0, <1>3, <2>1, <2>2, <2>3 DEF InHand, Holding
  <2>7. \A g \in Thread : Holds(g) => at[g].tok \in taken
    BY DEF IInv, Threads, InHand, Holds
  <2>8. Threads' /\ OneHolder'
    BY <1>0, <1>3, <2>1, <2>2, <2>6, <2>7, ThreadsStep DEF IInv
  <2> QED BY <2>4, <2>5, <2>8 DEF IInv
<1> QED BY <1>1, <1>2, <1>3 DEF Take
LEMMA SettleInv ==
  ASSUME IInv, TypeOK', NEW h \in Thread, Settle(h)
  PROVE  IInv'
<1> DEFINE t == at[h].tok
           v == IF at[h].yes THEN "approved" ELSE "denied"
<1>0. TypeOK /\ at[h] \in Locals
  BY LocalsTyped DEF IInv
<1>1. /\ t \in taken /\ t \in Token /\ at[h].act = asked[t] /\ ran[t] = <<>>
      /\ audit[t] \subseteq {"cancelled"} /\ t # None /\ Holds(h)
  BY <1>0 DEF Settle, IInv, Threads, InHand, Dest, DestOf, Holds, Holding, TypeOK
<1>2. /\ audit' = [audit EXCEPT ![t] = @ \cup {v}]
      /\ Clearing(h, t, AfterVerdict(h), at[h])
      /\ UNCHANGED <<pending, asked, writes, taken, ran, sent>>
  BY DEF Settle, storeVars
<1>3. AfterVerdict(h) \in {"run", "status", "idle"} /\ (AfterVerdict(h) = "run" => at[h].yes)
  BY DEF AfterVerdict, Answer
<1>4. Arrives(h, AfterVerdict(h), at[h])
  <2>1. AfterVerdict(h) \in Back /\ DestOf(AfterVerdict(h), at[h]) = AfterVerdict(h)
    BY <1>3 DEF Back, Then, DestOf
  <2> QED BY <1>0, <1>2, <2>1, ClearingArrives
<1>5. /\ Others(h) /\ Dest(h)' \in {"run", "status", "idle"}
      /\ Dest(h)' = "run" => /\ at'[h].tok = t /\ at'[h].act = at[h].act
                             /\ v = "approved"
  BY <1>3, <1>4 DEF Arrives
<1> HIDE DEF t, v
<1>6. /\ audit'[t] = audit[t] \cup {v}
      /\ \A u \in Token \ {t} : audit'[u] = audit[u]
  BY <1>0, <1>1, <1>2 DEF TypeOK
<1>7. Fresh' = Fresh
  BY <1>2 DEF Fresh
<1>8. LifeCycle'
  BY <1>0, <1>1, <1>2, <1>6, <1>7 DEF IInv, LifeCycle, Fresh, TypeOK, StoreTypeOK
<1>9. v \in Answers
  BY DEF v, Answers
<1>10. OneAnswer'
  BY <1>1, <1>6, <1>9 DEF IInv, OneAnswer
<1>11. Consent' /\ Recorded'
  BY <1>2, <1>6 DEF IInv, Consent, Recorded
<1>12. InHand(Dest(h), at[h])'
  <2>1. "approved" = v => "approved" \in audit'[t]
    BY <1>6
  <2>2. at[h].act \in Act \/ at[h].act = None
    BY <1>0, LocalsTyped
  <2>3. at[h].act # None
    BY <1>0, <1>1 DEF IInv, LifeCycle, Fresh
  <2> QED BY <1>1, <1>2, <1>5, <2>1, <2>2, <2>3 DEF InHand, Holding
<1>13. \A g \in Thread \ {h} : Holds(g) => at[g].tok \in taken /\ at[g].tok # t
  BY <1>1 DEF IInv, Threads, InHand, Holds, OneHolder, t
<1>14. Holds(h)' => at'[h].tok = t
  BY <1>5 DEF Holds, Holding
<1>15. Threads' /\ OneHolder'
  BY <1>0, <1>2, <1>5, <1>6, <1>12, <1>13, <1>14, ThreadsStep DEF IInv, TypeOK
<1> QED BY <1>8, <1>10, <1>11, <1>15 DEF IInv

LEMMA RunInv ==
  ASSUME IInv, TypeOK', NEW h \in Thread, Run(h)
  PROVE  IInv'
<1> DEFINE t == at[h].tok
           a == at[h].act
<1>0. TypeOK /\ at[h] \in Locals /\ UNCHANGED <<pending, asked, writes, taken, audit>>
  BY LocalsTyped DEF IInv, Run, storeVars
<1>1. /\ a \in Act
      /\ t # None => /\ t \in taken /\ t \in Token /\ a = asked[t]
                     /\ ran[t] = <<>> /\ "approved" \in audit[t] /\ Holds(h)
  BY <1>0 DEF Run, IInv, Threads, InHand, Dest, DestOf, Holds, Holding, TypeOK
<1>2. /\ t = None => ran' = ran
      /\ t # None => ran' = [ran EXCEPT ![t] = Append(@, a)]
  BY DEF Run
<1>3. PICK ok \in BOOLEAN :
        /\ sent' = IF ok /\ a \in External
                   THEN [sent EXCEPT ![a] = IF @ = 0 THEN 1 ELSE 2] ELSE sent
        /\ Goto(h, IF Completed(a, ok) THEN "record" ELSE "status",
                [at[h] EXCEPT !.off = TRUE])
  BY DEF Run
<1>4. /\ Others(h) /\ Dest(h)' \in {"record", "status"}
      /\ Dest(h)' = "record" => at'[h].act = a /\ ok /\ a \in External
  <2>1. CASE Completed(a, ok)
    <3>1. [at[h] EXCEPT !.off = TRUE].act = a
      BY <1>0 DEF Locals
    <3>2. PICK locals : Goto(h, "record", locals) /\ locals.act = a
      BY <1>3, <2>1, <3>1
    <3>3. Arrives(h, "record", locals)
      BY <1>0, <3>2, GotoArrives DEF DestOf
    <3> QED BY <2>1, <3>2, <3>3 DEF Arrives, Completed
  <2>2. CASE ~ Completed(a, ok)
    <3>1. PICK locals : Goto(h, "status", locals)
      BY <1>3, <2>2
    <3> QED BY <1>0, <3>1, GotoArrives DEF Arrives
  <2> QED BY <2>1, <2>2
<1> HIDE DEF t, a
<1>5. /\ \A b \in External : sent[b] > 0 => sent'[b] > 0
      /\ ok /\ a \in External => sent'[a] > 0
  BY <1>0, <1>3 DEF TypeOK
<1>6. /\ t # None => ran'[t] = <<asked[t]>>
      /\ \A u \in Token : u # t => ran'[u] = ran[u]
  <2>1. CASE t = None
    BY <1>2, <2>1
  <2>2. CASE t # None
    <3>1. ran' = [ran EXCEPT ![t] = Append(ran[t], a)]
      BY <1>2, <2>2
    <3>2. Append(ran[t], a) = <<asked[t]>>
      <4>1. Append(<<>>, a) = <<a>>
        OBVIOUS
      <4> QED BY <1>1, <2>2, <4>1
    <3> QED BY <1>0, <1>1, <2>2, <3>1, <3>2 DEF TypeOK
  <2> QED BY <2>1, <2>2
<1>7. Fresh' = Fresh
  BY <1>0 DEF Fresh
<1>8. LifeCycle'
  BY <1>0, <1>1, <1>6, <1>7, StoreAssumption DEF IInv, LifeCycle, TypeOK
<1>9. OneAnswer' /\ Recorded'
  BY <1>0, <1>5 DEF IInv, OneAnswer, Recorded, TypeOK
<1>10. Consent'
  <2> SUFFICES ASSUME NEW u \in Token, ran'[u] # <<>>
               PROVE  /\ ran'[u] = <<asked[u]>> /\ u \in taken
                      /\ "approved" \in audit[u]
    BY <1>0 DEF Consent
  <2>1. CASE u = t
    BY <1>1, <1>6, <2>1, StoreAssumption
  <2>2. CASE u # t
    BY <1>6, <2>2 DEF IInv, Consent
  <2> QED BY <2>1, <2>2
<1>11. InHand(Dest(h), at[h])' /\ ~ Holds(h)'
  BY <1>4, <1>5 DEF InHand, Holding, Holds
<1>12. \A g \in Thread \ {h} : Holds(g) =>
         at[g].tok \in taken /\ at[g].tok \in Token /\ at[g].tok # t
  BY <1>0, <1>1 DEF IInv, Threads, InHand, Holds, Holding, OneHolder, TypeOK, t
<1>13. Threads' /\ OneHolder'
  BY <1>0, <1>4, <1>5, <1>6, <1>11, <1>12, ThreadsStep DEF IInv
<1> QED BY <1>8, <1>9, <1>10, <1>13 DEF IInv

LEMMA RecordInv ==
  ASSUME IInv, TypeOK', NEW h \in Thread, Record(h)
  PROVE  IInv'
<1>0. TypeOK /\ UNCHANGED <<pending, asked, taken, audit, ran, sent>>
  BY DEF IInv, Record, storeVars, history
<1>1. at[h].act \in External /\ sent[at[h].act] > 0
  BY DEF Record, IInv, Threads, InHand, Dest, DestOf
<1>2. Recorded'
  BY <1>0, <1>1 DEF IInv, Record, Recorded
<1>3. LifeCycle' /\ OneAnswer' /\ Consent'
  BY <1>0 DEF IInv, LifeCycle, OneAnswer, Consent, Fresh
<1>4. Others(h) /\ Dest(h)' = "status"
  BY <1>0, GotoArrives DEF Record, Arrives
<1>5. InHand(Dest(h), at[h])' /\ ~ Holds(h)'
  BY <1>4 DEF InHand, Holding, Holds
<1>6. Threads' /\ OneHolder'
  <2>1. \A g \in Thread : Holds(g) => at[g].tok \in taken
    BY DEF IInv, Threads, InHand, Holds
  <2> QED BY <1>0, <1>4, <1>5, <2>1, ThreadsStep DEF IInv
<1> QED BY <1>2, <1>3, <1>6 DEF IInv

LEMMA CancelInv ==
  ASSUME IInv, TypeOK', NEW h \in Thread, Cancel(h)
  PROVE  IInv'
<1>0. TypeOK /\ UNCHANGED <<pending, asked, writes, taken, ran, sent>>
  BY DEF IInv, Cancel, storeVars
<1>1. \A t \in Token : /\ audit[t] \subseteq audit'[t]
                       /\ audit'[t] \subseteq audit[t] \cup {"cancelled"}
                       /\ t \notin pending => audit'[t] = audit[t]
  BY DEF Cancel
<1>2. Fresh' = Fresh /\ Fresh \subseteq Token
  BY <1>0 DEF Fresh
<1>3. LifeCycle'
  BY <1>0, <1>1, <1>2 DEF IInv, LifeCycle, TypeOK, StoreTypeOK
<1>4. OneAnswer'
  <2> SUFFICES ASSUME NEW t \in Token
               PROVE  \E v \in Answers : audit'[t] \subseteq {v, "cancelled"}
    BY DEF OneAnswer
  <2>1. PICK v \in Answers : audit[t] \subseteq {v, "cancelled"}
    BY DEF IInv, OneAnswer
  <2> QED BY <1>1, <2>1
<1>5. Consent' /\ Recorded'
  BY <1>0, <1>1 DEF IInv, Consent, Recorded
<1>6. Others(h) /\ Dest(h)' = "drop"
  BY <1>0, GotoArrives DEF Cancel, Arrives, DestOf
<1>7. InHand(Dest(h), at[h])' /\ ~ Holds(h)'
  BY <1>6 DEF InHand, Holding, Holds
<1>8. \A g \in Thread : Holds(g) =>
        at[g].tok \in taken /\ at[g].tok \in Token /\ at[g].tok \notin pending
  BY <1>0 DEF IInv, Threads, InHand, Holds, LifeCycle, TypeOK
<1>9. Threads' /\ OneHolder'
  BY <1>0, <1>1, <1>6, <1>7, <1>8, ThreadsStep DEF IInv
<1> QED BY <1>3, <1>4, <1>5, <1>9 DEF IInv

LEMMA DropInv ==
  ASSUME IInv, TypeOK', NEW h \in Thread, Drop(h)
  PROVE  IInv'
<1>0. TypeOK /\ at[h] \in Locals /\ UNCHANGED <<writes, taken, audit, ran, sent>>
  BY LocalsTyped DEF IInv, Drop, history
<1>1. CASE Goto(h, "idle", Blank) /\ UNCHANGED storeVars
  <2>1. Arrives(h, "idle", Blank)
    BY <1>0, <1>1, GotoArrives
  <2> QED BY <1>0, <1>1, <2>1, MoveStep DEF Arrives, Lands, history
<1>2. CASE /\ pending' = {} /\ UNCHANGED asked
           /\ \/ Goto(h, "status", at[h])
              \/ Clearing(h, assistant.card, "status", at[h])
  <2>1. Arrives(h, "status", at[h])
    <3>1. "status" \in Back /\ DestOf("status", at[h]) = "status"
      BY DEF Back, DestOf
    <3> QED BY <1>0, <1>2, <3>1, GotoArrives, ClearingArrives
  <2>2. Others(h) /\ Dest(h)' = "status"
    BY <2>1 DEF Arrives
  <2>3. Fresh' = Fresh
    BY <1>2 DEF Fresh
  <2>4. LifeCycle' /\ OneAnswer' /\ Consent' /\ Recorded'
    BY <1>0, <1>2, <2>3 DEF IInv, LifeCycle, OneAnswer, Consent, Recorded
  <2>5. InHand(Dest(h), at[h])' /\ ~ Holds(h)'
    BY <2>2 DEF InHand, Holding, Holds
  <2>6. \A g \in Thread : Holds(g) => at[g].tok \in taken
    BY DEF IInv, Threads, InHand, Holds
  <2>7. Threads' /\ OneHolder'
    BY <1>0, <1>2, <2>2, <2>5, <2>6, ThreadsStep DEF IInv
  <2> QED BY <2>4, <2>7 DEF IInv
<1> QED BY <1>1, <1>2 DEF Drop
LEMMA ContinueInv ==
  ASSUME IInv, NEW h \in Thread, Continue(h)
  PROVE  IInv'
<1> USE BlankTyped
<1>0. TypeOK /\ TypeOK' /\ at[h] \in Locals
  BY ContinueTyped, LocalsTyped DEF IInv
<1>1. CASE ClearWrite(h)
  <2>1. Goto(h, at[h].back, at[h]) /\ Dest(h) = DestOf(at[h].back, at[h])
    BY <1>0, <1>1, LocalsTyped DEF ClearWrite, Dest, DestOf, Back, Then
  <2>2. \/ Arrives(h, Dest(h), at[h]) /\ Dest(h) \notin {"idle", "status"}
        \/ Others(h) /\ Dest(h)' \in {"idle", "status"}
    BY <1>0, <2>1, GotoArrives DEF Arrives
  <2> QED BY <1>0, <1>1, <2>2, MoveStep DEF ClearWrite, Arrives, Lands
<1>2. CASE Show(h)
  <2>1. PICK locals : Goto(h, "shown", locals)
    BY <1>2 DEF Show
  <2>2. Arrives(h, "shown", locals)
    BY <1>0, <2>1, GotoArrives DEF DestOf
  <2> QED BY <1>0, <1>2, <2>2, MoveStep DEF Show, Arrives, Lands
<1>3. CASE Shown(h)
  <2>1. Others(h) /\ Dest(h)' \in {"idle", "status"}
    BY <1>0, <1>3, GotoArrives DEF Shown, Answer, Arrives
  <2> QED BY <1>0, <1>3, <2>1, MoveStep DEF Shown, Lands
<1>4. CASE Lookup(h)
  <2>1. CASE /\ at[h].tok \in pending
             /\ Expiring(h, "take", [at[h] EXCEPT !.act = asked[at[h].tok]])
    <3>1. asked[at[h].tok] \in Act \cup {None}
      BY <1>0, <2>1 DEF TypeOK, StoreTypeOK
    <3>2. [at[h] EXCEPT !.act = asked[at[h].tok]] \in Locals
      BY <1>0, <3>1 DEF Locals
    <3>3. Others(h) /\ Dest(h)' = "take"
      BY <1>0, <2>1, <3>2, ExpiringArrives DEF Then, Arrives
    <3> QED BY <1>0, <1>4, <3>3, MoveStep DEF Lookup, Lands
  <2>2. CASE Goto(h, "idle", Blank)
    <3>1. Others(h) /\ Dest(h)' = "idle"
      BY <1>0, <2>2, GotoArrives DEF Arrives
    <3> QED BY <1>0, <1>4, <3>1, MoveStep DEF Lookup, Lands
  <2> QED BY <1>4, <2>1, <2>2 DEF Lookup
<1>5. CASE Status(h)
  <2>1. Others(h) /\ Dest(h)' = "notify"
    BY <1>0, <1>5, ExpiringArrives DEF Status, Then, Arrives
  <2> QED BY <1>0, <1>5, <2>1, MoveStep DEF Status, Lands
<1>6. CASE Notify(h)
  <2>1. PICK locals : Goto(h, "collapse", locals) \/ Goto(h, "idle", Blank)
    BY <1>6 DEF Notify
  <2>2. Others(h) /\ Dest(h)' \in {"collapse", "idle"}
    BY <1>0, <2>1, GotoArrives DEF Arrives, DestOf
  <2> QED BY <1>0, <1>6, <2>2, MoveStep DEF Notify, Lands
<1>7. CASE Collapse(h)
  <2>1. Others(h) /\ Dest(h)' = "idle"
    BY <1>0, <1>7, GotoArrives DEF Collapse, Arrives
  <2> QED BY <1>0, <1>7, <2>1, MoveStep DEF Collapse, Lands
<1>8. CASE ModeWrite(h)
  <2>1. PICK locals : Goto(h, "cancel", locals) \/ Goto(h, "status", at[h])
    BY <1>8 DEF ModeWrite
  <2>2. Others(h) /\ Dest(h)' \in {"cancel", "status"}
    BY <1>0, <2>1, GotoArrives DEF Arrives, DestOf
  <2> QED BY <1>0, <1>8, <2>2, MoveStep DEF ModeWrite, Lands
<1> QED BY <1>0, <1>1, <1>2, <1>3, <1>4, <1>5, <1>6, <1>7, <1>8, ExpireInv, InsertInv,
           TakeInv, SettleInv, RunInv, RecordInv, CancelInv, DropInv DEF Continue

LEMMA ForgetInv ==
  ASSUME IInv, NEW a \in External, Forget(a)
  PROVE  IInv'
<1>1. /\ UNCHANGED <<pending, overdue, asked, assistant, notified, pc, at, taken, audit, ran>>
      /\ writes' = writes \ {a} /\ sent' = [sent EXCEPT ![a] = 0]
      /\ \A h \in Thread : ~ (pc[h] = "record" /\ at[h].act = a)
  BY DEF Forget, storeVars, threadVars
<1>2. TypeOK'
  BY <1>1 DEF IInv, TypeOK, StoreTypeOK
<1>3. \A b \in External \ {a} : sent'[b] = sent[b]
  BY <1>1 DEF IInv, TypeOK
<1>4. Recorded'
  BY <1>1, <1>3 DEF IInv, Recorded, TypeOK
<1>5. LifeCycle' /\ OneAnswer' /\ Consent' /\ OneHolder'
  BY <1>1 DEF IInv, LifeCycle, OneAnswer, Consent, Fresh, OneHolder, Holds, Holding,
              Dest, DestOf
<1>6. Threads'
  <2> SUFFICES ASSUME NEW h \in Thread PROVE InHand(Dest(h), at[h])'
    BY DEF Threads
  <2>1. Dest(h)' = Dest(h) /\ at'[h] = at[h]
    BY <1>1 DEF Dest, DestOf
  <2>2. InHand(Dest(h), at[h])
    BY DEF IInv, Threads
  <2>3. Dest(h) = "record" => pc[h] = "record"
    BY LocalsTyped DEF IInv, Dest, DestOf, Back, Then
  <2>4. Dest(h) = "record" => at[h].act # a
    BY <1>1, <2>3
  <2> QED BY <1>1, <1>3, <2>1, <2>2, <2>4 DEF InHand, Holding
<1> QED BY <1>2, <1>4, <1>5, <1>6 DEF IInv

LEMMA QuietInv ==
  ASSUME IInv, UNCHANGED <<pending, asked, assistant, notified, writes, threadVars, history>>,
         overdue' \subseteq pending
  PROVE  IInv'
<1>1. UNCHANGED <<pc, at, taken, audit, ran, sent>>
  BY DEF threadVars, history
<1>2. TypeOK'
  BY <1>1 DEF IInv, TypeOK, StoreTypeOK
<1>3. Threads' /\ OneHolder'
  BY <1>1 DEF IInv, Threads, OneHolder, InHand, Holds, Holding, Dest, DestOf
<1> QED BY <1>1, <1>2, <1>3 DEF IInv, LifeCycle, OneAnswer, Consent, Recorded, Fresh

LEMMA NextInv == IInv /\ [Next]_vars => IInv'
<1> SUFFICES ASSUME IInv, [Next]_vars PROVE IInv'
  OBVIOUS
<1>1. ASSUME NEW h \in Thread, Start(h) \/ Continue(h) PROVE IInv'
  BY <1>1, StartInv, ContinueInv
<1>2. ASSUME NEW a \in External, Forget(a) PROVE IInv'
  BY <1>2, ForgetInv
<1>3. ASSUME NEW t \in Token, Tick(t) PROVE IInv'
  <2>1. overdue' \subseteq pending
    BY <1>3 DEF Tick, Age, IInv, TypeOK, StoreTypeOK
  <2> QED BY <1>3, <2>1, QuietInv DEF Tick, Age
<1>4. CASE UNCHANGED vars
  <2>1. overdue' \subseteq pending
    BY <1>4 DEF vars, storeVars, IInv, TypeOK, StoreTypeOK
  <2> QED BY <1>4, <2>1, QuietInv DEF vars, storeVars
<1> QED BY <1>1, <1>2, <1>3, <1>4 DEF Next

(* The invariant holds of every reachable state.                           *)
THEOREM Invariance == Spec => []IInv
<1> QED BY InitInv, NextInv, PTL DEF Spec

-----------------------------------------------------------------------------
(* What follows.                                                           *)

(* Every state is well typed: no thread stores, appends or records         *)
(* anything but what it was asked to.                                      *)
THEOREM TypeCorrect == Spec => []TypeOK
<1>1. IInv => TypeOK
  BY DEF IInv
<1> QED BY <1>1, Invariance, PTL

(* An action runs at most once under a token, as it was asked for and only *)
(* after the owner's yes has been taken and audited, however many threads  *)
(* ask, answer, expire and change the mode at once.                        *)
THEOREM ConsentHolds == Spec => []Consent
<1>1. IInv => Consent
  BY DEF IInv
<1> QED BY <1>1, Invariance, PTL

(* A retry is never answered from a write that was not executed.           *)
THEOREM RecordedHolds == Spec => []Recorded
<1>1. IInv => Recorded
  BY DEF IInv
<1> QED BY <1>1, Invariance, PTL

(* The audit log never holds two answers to one token.                     *)
THEOREM OneVerdictHolds == Spec => []OneVerdict
<1>1. IInv => OneVerdict
  <2> SUFFICES ASSUME IInv, NEW t \in Token
               PROVE  Cardinality(audit[t] \ {"cancelled"}) <= 1
    BY DEF OneVerdict
  <2>1. PICK v \in Answers : audit[t] \subseteq {v, "cancelled"}
    BY DEF IInv, OneAnswer
  <2> DEFINE said == audit[t] \ {"cancelled"}
  <2>2. said \in SUBSET {v}
    BY <2>1
  <2> HIDE DEF said
  <2>3. IsFiniteSet({v}) /\ Cardinality({v}) = 1
    BY FS_Singleton
  <2>4. Cardinality(said) <= Cardinality({v})
    BY <2>2, <2>3, FS_Subset
  <2> QED BY <2>3, <2>4 DEF said
<1> QED BY <1>1, Invariance, PTL
-----------------------------------------------------------------------------
(* A step of the code is a step of Approval, or none.                      *)

(* Nothing of a token, or one move of one token, or a lapse of several.    *)
Same(t) == StatusOf(t)' = StatusOf(t)
Quiet   == \A t \in Token : Same(t)
Moves(t, from, to) ==
  /\ StatusOf(t) = from /\ StatusOf(t)' = to
  /\ \A u \in Token \ {t} : Same(u)

LEMMA Stutter ==
  ASSUME Quiet, UNCHANGED <<asked, ran>>
  PROVE  [Abstract!ANext]_Abstract!avars
BY DEF Quiet, Same, Abstract!avars

LEMMA AbstractMove ==
  ASSUME NEW t \in Token, NEW from, NEW to, Moves(t, from, to), UNCHANGED <<asked, ran>>
  PROVE  Abstract!Move(t, from, to)
BY DEF Moves, Same, Abstract!Move

LEMMA OneMove ==
  ASSUME NEW t \in Token, UNCHANGED <<asked, ran>>,
         \/ Moves(t, "asked", "answering")
         \/ Moves(t, "answering", "approved")
         \/ Moves(t, "answering", "closed")
  PROVE  Abstract!ANext
BY AbstractMove DEF Abstract!ANext, Abstract!Answer, Abstract!Approve, Abstract!Refuse

LEMMA LapseMove ==
  ASSUME NEW T \in SUBSET Token, UNCHANGED <<asked, ran>>,
         \A t \in T : StatusOf(t) = "asked" /\ StatusOf(t)' = "closed",
         \A t \in Token \ T : Same(t)
  PROVE  Abstract!ANext
<1>1. Abstract!Lapse(T)
  BY DEF Same, Abstract!Lapse
<1> QED BY <1>1 DEF Abstract!ANext

(* Where a token stands in the states the invariant allows.                *)
LEMMA Standing ==
  ASSUME IInv, NEW t \in Token
  PROVE  /\ t \in Fresh => StatusOf(t) = "new"
         /\ t \in pending => StatusOf(t) = "asked"
         /\ t \notin Fresh /\ t \notin pending /\ t \notin taken
              => StatusOf(t) = "closed"
         /\ t \in taken /\ ran[t] = <<>> /\ audit[t] \subseteq {"cancelled"}
              => StatusOf(t) = "answering"
         /\ t \in taken /\ ran[t] = <<>> /\ "approved" \in audit[t]
              => StatusOf(t) = "approved"
         /\ t \in taken /\ ran[t] # <<>> => StatusOf(t) = "ran"
         /\ t \in taken /\ ran[t] = <<>> /\ audit[t] \subseteq {"denied", "cancelled"}
              /\ "denied" \in audit[t] => StatusOf(t) = "closed"
<1>1. t \notin taken => ran[t] = <<>> /\ "approved" \notin audit[t]
  BY DEF IInv, LifeCycle
<1>2. t \in taken => t \notin pending /\ t \notin Fresh
  BY DEF IInv, LifeCycle
<1>3. t \in pending => t \notin Fresh
  BY DEF IInv, LifeCycle
<1>4. CASE t \in Fresh
  BY <1>1, <1>2, <1>3, <1>4 DEF StatusOf
<1>5. CASE t \in pending
  BY <1>2, <1>3, <1>5 DEF StatusOf
<1>6. CASE t \notin Fresh /\ t \notin pending /\ t \notin taken
  BY <1>1, <1>6 DEF StatusOf
<1>7. CASE t \in taken
  <2>1. CASE ran[t] # <<>>
    BY <1>2, <1>7, <2>1 DEF StatusOf
  <2>2. CASE ran[t] = <<>> /\ "approved" \in audit[t]
    BY <1>2, <1>7, <2>2 DEF StatusOf
  <2>3. CASE ran[t] = <<>> /\ audit[t] \subseteq {"cancelled"}
    BY <1>2, <1>7, <2>3 DEF StatusOf
  <2>4. CASE ran[t] = <<>> /\ audit[t] \subseteq {"denied", "cancelled"}
              /\ "denied" \in audit[t]
    BY <1>2, <1>7, <2>4 DEF StatusOf
  <2> QED BY <1>2, <1>7, <2>1, <2>2, <2>3, <2>4
<1> QED BY <1>4, <1>5, <1>6, <1>7
LEMMA SameToken ==
  ASSUME NEW t \in Token, asked'[t] = asked[t], t \in pending' <=> t \in pending,
         t \in taken' <=> t \in taken, audit'[t] = audit[t], ran'[t] = ran[t]
  PROVE  Same(t)
BY DEF Same, StatusOf, Fresh

LEMMA InsertRefines ==
  ASSUME IInv, NEW h \in Thread, Insert(h)
  PROVE  Abstract!ANext
<1>1. PICK t \in Fresh : Issue(t, at[h].act)
  BY DEF Insert
<1>2. at[h].act \in Act /\ TypeOK
  BY DEF IInv, Insert, Threads, InHand, Dest, DestOf
<1>3. UNCHANGED <<taken, audit, ran>>
  BY DEF Insert, history
<1>4. /\ t \in Token /\ asked' = [asked EXCEPT ![t] = at[h].act] /\ t \in pending'
      /\ asked'[t] = at[h].act
      /\ \A u \in Token \ {t} : asked'[u] = asked[u] /\ (u \in pending' <=> u \in pending)
  BY <1>1, <1>2 DEF Issue, Fresh, TypeOK, StoreTypeOK
<1>5. StatusOf(t) = "new" /\ StatusOf(t)' = "asked"
  BY <1>1, <1>2, <1>4, StoreAssumption DEF StatusOf, Fresh
<1>6. \A u \in Token \ {t} : Same(u)
  BY <1>3, <1>4, SameToken
<1>7. Abstract!Ask(t, at[h].act)
  BY <1>3, <1>4, <1>5, <1>6 DEF Same, Abstract!Ask
<1> QED BY <1>2, <1>4, <1>7 DEF Abstract!ANext

(* A pending token that goes with a verdict that is not the owner's.       *)
LEMMA ClosedRefines ==
  ASSUME IInv, NEW t \in pending, Pop(t), NEW v \in {"argument_mismatch", "expired"},
         audit' = [audit EXCEPT ![t] = @ \cup {v}], UNCHANGED <<taken, ran>>
  PROVE  Abstract!ANext
<1>1. t \in Token /\ t \notin Fresh /\ t \notin taken /\ ran[t] = <<>> /\ TypeOK
  BY DEF IInv, LifeCycle, TypeOK, StoreTypeOK
<1>2. pending' = pending \ {t} /\ asked' = asked
  BY DEF Pop
<1>3. audit'[t] = audit[t] \cup {v} /\ \A u \in Token \ {t} : audit'[u] = audit[u]
  BY <1>1 DEF TypeOK
<1>4. "approved" \notin audit'[t]
  BY <1>1, <1>3 DEF IInv, LifeCycle
<1>5. StatusOf(t) = "asked" /\ StatusOf(t)' = "closed"
  BY <1>1, <1>2, <1>4 DEF StatusOf, Fresh
<1>6. \A u \in Token \ {t} : Same(u)
  BY <1>2, <1>3, SameToken
<1> DEFINE T == {t}
<1>7. T \in SUBSET Token /\ \A u \in T : u = t
  BY <1>1
<1>8. \A u \in Token \ T : Same(u)
  BY <1>6
<1> HIDE DEF T
<1> QED BY <1>2, <1>5, <1>7, <1>8, LapseMove

LEMMA TakeRefines ==
  ASSUME IInv, NEW h \in Thread, Take(h)
  PROVE  [Abstract!ANext]_Abstract!avars
<1> PICK t : t = at[h].tok
  OBVIOUS
<1>0. UNCHANGED ran
  BY DEF Take
<1>1. CASE UNCHANGED <<storeVars, taken, audit>>
  <2>1. Quiet
    BY <1>0, <1>1, SameToken DEF Quiet, storeVars
  <2> QED BY <1>0, <1>1, <2>1, Stutter DEF storeVars
<1>2. CASE /\ Pop(t) /\ UNCHANGED taken
           /\ audit' = [audit EXCEPT ![t] = @ \cup {"argument_mismatch"}]
  BY <1>0, <1>2, ClosedRefines DEF Pop
<1>3. CASE Pop(t) /\ taken' = taken \cup {t} /\ UNCHANGED audit
  <2>1. /\ t \in Token /\ t \in pending /\ t \notin Fresh /\ ran[t] = <<>>
        /\ audit[t] \subseteq {"cancelled"}
        /\ pending' = pending \ {t} /\ asked' = asked
    BY <1>3 DEF Pop, IInv, LifeCycle, TypeOK, StoreTypeOK
  <2>2. /\ t \notin Fresh' /\ t \notin pending' /\ ran'[t] = <<>> /\ t \in taken'
        /\ "approved" \notin audit'[t] /\ "denied" \notin audit'[t]
    BY <1>0, <1>3, <2>1 DEF Fresh
  <2>5. StatusOf(t) = "asked" /\ StatusOf(t)' = "answering"
    BY <2>1, <2>2 DEF StatusOf
  <2>3. \A u \in Token \ {t} : Same(u)
    BY <1>0, <1>3, <2>1, SameToken
  <2>4. Moves(t, "asked", "answering")
    BY <2>3, <2>5 DEF Moves
  <2> QED BY <1>0, <2>1, <2>4, OneMove
<1> QED BY <1>1, <1>2, <1>3 DEF Take

LEMMA SettleRefines ==
  ASSUME IInv, NEW h \in Thread, Settle(h)
  PROVE  Abstract!ANext
<1> PICK t : t = at[h].tok
  OBVIOUS
<1> DEFINE v == IF at[h].yes THEN "approved" ELSE "denied"
<1>1. /\ t \in taken /\ t \in Token /\ ran[t] = <<>> /\ audit[t] \subseteq {"cancelled"}
      /\ t \notin pending /\ t \notin Fresh /\ TypeOK
  BY DEF Settle, IInv, Threads, InHand, Dest, DestOf, Holds, Holding, TypeOK, LifeCycle
<1>2. /\ audit' = [audit EXCEPT ![t] = @ \cup {v}]
      /\ UNCHANGED <<pending, asked, taken, ran>>
  BY DEF Settle, storeVars
<1> HIDE DEF v
<1>3. /\ audit'[t] = audit[t] \cup {v}
      /\ \A u \in Token \ {t} : audit'[u] = audit[u]
  BY <1>1, <1>2 DEF TypeOK
<1>4. \A u \in Token \ {t} : Same(u)
  BY <1>2, <1>3, SameToken
<1>5. StatusOf(t) = "answering"
  BY <1>1 DEF StatusOf
<1>6. /\ t \notin Fresh' /\ t \notin pending' /\ ran'[t] = <<>>
      /\ "approved" \in audit'[t] \/ "denied" \in audit'[t]
  BY <1>1, <1>2, <1>3 DEF Fresh, v
<1>7. StatusOf(t)' = "approved" \/ StatusOf(t)' = "closed"
  BY <1>6 DEF StatusOf
<1>8. Moves(t, "answering", "approved") \/ Moves(t, "answering", "closed")
  BY <1>4, <1>5, <1>7 DEF Moves
<1> QED BY <1>1, <1>2, <1>8, OneMove

LEMMA RunRefines ==
  ASSUME IInv, NEW h \in Thread, Run(h)
  PROVE  [Abstract!ANext]_Abstract!avars
<1> PICK t, a : t = at[h].tok /\ a = at[h].act
  OBVIOUS
<1>0. UNCHANGED <<pending, asked, taken, audit>>
  BY DEF Run, storeVars
<1>1. CASE t = None
  <2>1. UNCHANGED ran
    BY <1>1 DEF Run
  <2>2. Quiet
    BY <1>0, <2>1, SameToken DEF Quiet
  <2> QED BY <1>0, <2>1, <2>2, Stutter
<1>2. CASE t # None
  <2>1. /\ t \in taken /\ t \in Token /\ a = asked[t] /\ ran[t] = <<>>
        /\ "approved" \in audit[t] /\ t \notin pending /\ t \notin Fresh /\ TypeOK
    BY <1>2 DEF Run, IInv, Threads, InHand, Dest, DestOf, Holds, Holding, TypeOK, LifeCycle
  <2>2. ran' = [ran EXCEPT ![t] = Append(ran[t], a)]
    BY <1>2 DEF Run
  <2>3. Append(<<>>, a) = <<a>> /\ <<a>> # <<>>
    OBVIOUS
  <2>4. ran'[t] # <<>> /\ \A u \in Token \ {t} : ran'[u] = ran[u]
    BY <2>1, <2>2, <2>3 DEF TypeOK
  <2>5. StatusOf(t) = "approved"
    BY <2>1 DEF StatusOf
  <2>6. StatusOf(t)' = "ran"
    <3>1. t \notin Fresh' /\ t \notin pending'
      BY <1>0, <2>1 DEF Fresh
    <3> QED BY <2>4, <3>1 DEF StatusOf
  <2>7. \A u \in Token \ {t} : Same(u)
    BY <1>0, <2>4, SameToken
  <2>8. ran' = [ran EXCEPT ![t] = Append(@, asked[t])]
    BY <2>1, <2>2
  <2>9. Abstract!Run(t)
    BY <1>0, <2>1, <2>5, <2>6, <2>7, <2>8 DEF Same, Abstract!Run
  <2> QED BY <2>1, <2>9 DEF Abstract!ANext
<1> QED BY <1>1, <1>2

LEMMA CancelRefines ==
  ASSUME IInv, NEW h \in Thread, Cancel(h)
  PROVE  [Abstract!ANext]_Abstract!avars
<1>1. UNCHANGED <<pending, asked, taken, ran>> /\ TypeOK
  BY DEF Cancel, storeVars, IInv
<1>2. \A t \in Token : t \notin pending => audit'[t] = audit[t]
  BY DEF Cancel
<1>3. \A t \in Token : t \in pending => Same(t)
  BY <1>1 DEF Same, StatusOf, Fresh
<1>4. Quiet
  BY <1>1, <1>2, <1>3, SameToken DEF Quiet
<1> QED BY <1>1, <1>4, Stutter

LEMMA DropRefines ==
  ASSUME IInv, NEW h \in Thread, Drop(h)
  PROVE  [Abstract!ANext]_Abstract!avars
<1>0. UNCHANGED <<asked, taken, audit, ran>>
  BY DEF Drop, history, storeVars
<1>1. CASE UNCHANGED storeVars
  <2>1. Quiet
    BY <1>0, <1>1, SameToken DEF Quiet, storeVars
  <2> QED BY <1>0, <2>1, Stutter
<1>2. CASE pending' = {}
  <2>1. pending \in SUBSET Token
    BY DEF IInv, TypeOK, StoreTypeOK
  <2>2. ASSUME NEW t \in pending PROVE StatusOf(t) = "asked" /\ StatusOf(t)' = "closed"
    <3>1. /\ t \in Token /\ t \notin Fresh /\ t \notin taken /\ ran[t] = <<>>
          /\ "approved" \notin audit[t]
      BY <2>1 DEF IInv, LifeCycle
    <3> QED BY <1>0, <1>2, <3>1 DEF StatusOf, Fresh
  <2>3. \A t \in Token \ pending : Same(t)
    BY <1>0, <1>2, SameToken
  <2> QED BY <1>0, <2>1, <2>2, <2>3, LapseMove
<1> QED BY <1>1, <1>2 DEF Drop
LEMMA NextRefines == IInv /\ [Next]_vars => [Abstract!ANext]_Abstract!avars
<1> SUFFICES ASSUME IInv, [Next]_vars PROVE [Abstract!ANext]_Abstract!avars
  OBVIOUS
<1>1. ASSUME UNCHANGED <<pending, asked, taken, audit, ran>>
      PROVE  [Abstract!ANext]_Abstract!avars
  <2>1. Quiet
    BY <1>1, SameToken DEF Quiet
  <2> QED BY <1>1, <2>1, Stutter
<1>2. ASSUME NEW h \in Thread, Start(h) PROVE [Abstract!ANext]_Abstract!avars
  BY <1>1, <1>2 DEF Start, Request, Resolve, Tap, Poll, SetMode, storeVars, history
<1>3. ASSUME NEW h \in Thread, Continue(h) PROVE [Abstract!ANext]_Abstract!avars
  <2>1. CASE \/ ClearWrite(h) \/ Show(h) \/ Shown(h) \/ Lookup(h) \/ Record(h)
             \/ Status(h) \/ Notify(h) \/ Collapse(h) \/ ModeWrite(h)
    BY <1>1, <2>1 DEF ClearWrite, Show, Shown, Lookup, Record, Status, Notify,
                      Collapse, ModeWrite, storeVars, history
  <2>2. CASE Expire(h)
    <3>1. CASE UNCHANGED <<storeVars, history>>
      BY <1>1, <3>1 DEF storeVars, history
    <3>2. CASE \E t \in pending :
                 /\ Pop(t) /\ audit' = [audit EXCEPT ![t] = @ \cup {"expired"}]
                 /\ UNCHANGED <<taken, ran>>
      BY <3>2, ClosedRefines
    <3> QED BY <2>2, <3>1, <3>2 DEF Expire
  <2> QED BY <1>3, <2>1, <2>2, InsertRefines, TakeRefines, SettleRefines, RunRefines,
             CancelRefines, DropRefines DEF Continue
<1>4. ASSUME NEW a \in External, Forget(a) PROVE [Abstract!ANext]_Abstract!avars
  BY <1>1, <1>4 DEF Forget, storeVars
<1>5. ASSUME NEW t \in Token, Tick(t) PROVE [Abstract!ANext]_Abstract!avars
  BY <1>1, <1>5 DEF Tick, Age, history
<1>6. CASE UNCHANGED vars
  BY <1>1, <1>6 DEF vars, storeVars, history
<1> QED BY <1>2, <1>3, <1>4, <1>5, <1>6 DEF Next

LEMMA InitRefines == Init => Abstract!AInit
<1> SUFFICES ASSUME Init PROVE Abstract!AInit
  OBVIOUS
<1>1. asked = [t \in Token |-> None] /\ ran = [t \in Token |-> <<>>]
  BY DEF Init, StoreInit
<1>2. \A t \in Token : StatusOf(t) = "new"
  BY <1>1 DEF StatusOf, Fresh
<1> QED BY <1>1, <1>2 DEF Abstract!AInit

(* The store and its handlers implement the abstract approval: for every   *)
(* number of threads and tokens, each step is one of Approval's or changes *)
(* nothing it can see.                                                     *)
THEOREM Refinement == Spec => Implements
<1> QED BY InitRefines, Invariance, NextRefines, PTL
        DEF Spec, Implements, Abstract!ASpec

(* A token that left without being handed out is gone for good: nothing    *)
(* takes it, runs it or asks with it again.                                *)
THEOREM WithdrawnHolds == Spec => Withdrawn
<1> DEFINE Gone == \A t \in Token : t \notin Fresh /\ t \notin pending =>
                     /\ t \notin pending'
                     /\ (t \notin taken => t \notin taken' /\ ran'[t] = ran[t])
<1>1. ASSUME UNCHANGED <<pending, taken, ran>> PROVE Gone
  BY <1>1
<1>2. ASSUME IInv, NEW h \in Thread, Start(h) PROVE Gone
  BY <1>1, <1>2 DEF Start, Request, Resolve, Tap, Poll, SetMode, storeVars, history
<1>3. ASSUME IInv, NEW h \in Thread, Continue(h) PROVE Gone
  <2>1. CASE \/ ClearWrite(h) \/ Show(h) \/ Shown(h) \/ Lookup(h) \/ Record(h)
             \/ Status(h) \/ Notify(h) \/ Collapse(h) \/ ModeWrite(h)
             \/ Settle(h) \/ Cancel(h)
    BY <1>1, <2>1 DEF ClearWrite, Show, Shown, Lookup, Record, Status, Notify,
                      Collapse, ModeWrite, Settle, Cancel, storeVars, history
  <2>2. CASE Expire(h) \/ Drop(h)
    BY <2>2 DEF Expire, Drop, Pop, storeVars, history
  <2>3. CASE Insert(h)
    <3>1. PICK t \in Fresh : pending' = pending \cup {t}
      BY <2>3 DEF Insert, Issue
    <3> QED BY <2>3, <3>1 DEF Insert, history
  <2>4. CASE Take(h)
    BY <2>4 DEF Take, Pop, storeVars
  <2>5. CASE Run(h)
    <3>1. UNCHANGED <<pending, taken>>
      BY <2>5 DEF Run, storeVars
    <3>2. at[h].tok # None => at[h].tok \in taken
      BY <1>3, <2>5 DEF Run, IInv, Threads, InHand, Holding, Dest, DestOf
    <3>3. \A t \in Token \ taken : ran'[t] = ran[t]
      BY <1>3, <2>5, <3>2 DEF Run, IInv, TypeOK
    <3> QED BY <3>1, <3>3
  <2> QED BY <1>3, <2>1, <2>2, <2>3, <2>4, <2>5 DEF Continue
<1>4. ASSUME NEW a \in External, Forget(a) PROVE Gone
  BY <1>1, <1>4 DEF Forget, storeVars
<1>5. ASSUME NEW t \in Token, Tick(t) PROVE Gone
  BY <1>1, <1>5 DEF Tick, Age, history
<1>6. IInv /\ [Next]_vars => [Gone]_vars
  BY <1>2, <1>3, <1>4, <1>5 DEF Next
<1> QED BY <1>6, Invariance, PTL DEF Spec, Withdrawn
=============================================================================
