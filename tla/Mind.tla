-------------------------------- MODULE Mind --------------------------------
(***************************************************************************)
(* Speaking unasked: the turn of the mind (mind.py) over the journal of    *)
(* events (journal.py), the waiting room of what could not be said yet     *)
(* (pending.py), and the one voice both speak with (announce.py).          *)
(*                                                                         *)
(* The timer takes a turn every couple of minutes.  The loop of the        *)
(* Gateway says a held item when the person asks for it, and takes a turn  *)
(* too when POST /mind/tick asks for one.  Between two steps of a thread   *)
(* the world moves, events arrive, sources are switched off, and the       *)
(* Gateway may die; the journal and the file of the room survive.          *)
(***************************************************************************)
EXTENDS Policy, Sequences, SequencesExt

CONSTANTS
  Timer, Loop,    \* the two threads
  None,           \* nobody is on the air
  Events,         \* what happens, in order: the attributes policy looks at
  Changing,       \* the hindrances that come and go in an instance
  MAX_EVENTS_PER_TURN, MOST_HELD,
  Budget,         \* deliberations the daily budget pays for
  MaxCuts,        \* bound on crashes and on sources switched off
  RequestTicks    \* whether POST /mind/tick is used

Thread == {Timer, Loop}
Event == DOMAIN Events

\* What may happen: nothing may be louder than its kind.
Happening ==
  {event \in [wanted : SURFACES, ceiling : SURFACES, trusted : BOOLEAN,
              insistent : BOOLEAN, mail : BOOLEAN, must : BOOLEAN] :
     Loudness(event.ceiling) <= Loudness(event.wanted)}

ASSUME MindAssumption ==
  /\ Timer # Loop /\ None \notin Thread
  /\ Events \in Seq(Happening)
  /\ Changing \subseteq HINDRANCES \ {"daily-budget"}
  /\ {MAX_EVENTS_PER_TURN, MOST_HELD} \subseteq Nat \ {0}
  /\ {Budget, MaxCuts} \subseteq Nat /\ RequestTicks \in BOOLEAN

VARIABLES
  arrived, pending,     \* the journal: how many events, which not processed
  tokens,               \* the journal: what today's decisions cost
  room, file,           \* what is held, oldest first, and what is on disk
  old,                  \* held for longer than EXPIRES_AFTER
  world, off,           \* what hinders now; events of a source switched off
  pc, hands,            \* where a thread stands; the events it has to judge
  args, base,           \* the world its turn was given; the one it judges in
  surface, rule, cost,  \* of the event it is at
  air,                  \* whose line is the newest
  told, paid, offered,  \* history: tellings of an event, calls paid today,
                        \* the world in which an item was released
  cuts                  \* crashes, and sources switched off

journal == <<arrived, pending, tokens>>
held    == <<room, file, old>>
outside == <<world, off>>
turn    == <<args, base, surface, rule, cost>>
history == <<told, paid, offered, cuts>>
vars    == <<journal, held, outside, pc, hands, turn, air, history>>

InHand == [e : Event, released : BOOLEAN, read : BOOLEAN]
Item == [e : Event, read : BOOLEAN]

TypeOK ==
  /\ arrived \in 0..Len(Events) /\ pending \subseteq 1..arrived
  /\ tokens \in 0..(Budget + MaxCuts) /\ paid \in 0..(Budget + MaxCuts)
  /\ room \in Seq(Item) /\ file \in Seq(Item) /\ Len(room) <= MOST_HELD
  /\ old \subseteq {room[i].e : i \in DOMAIN room}
  /\ world \subseteq Changing /\ off \subseteq Event
  /\ pc \in [Thread -> {"idle", "offer", "take", "judge", "think", "say",
                        "voice", "text", "note", "asked"}]
  /\ hands \in [Thread -> Seq(InHand)]
  /\ \A t \in Thread : Len(hands[t]) <= MAX_EVENTS_PER_TURN + 1
  /\ args \in [Thread -> SUBSET Changing]
  /\ base \in [Thread -> [on : SUBSET Changing, tokens : 0..(Budget + MaxCuts)]]
  /\ surface \in [Thread -> SURFACES]
  /\ rule \in [Thread -> {RULES[i] : i \in DOMAIN RULES}]
  /\ cost \in [Thread -> 0..1]
  /\ air \in Thread \cup {None}
  /\ told \in [Event -> Nat] /\ cuts \in 0..MaxCuts

Nowhere == [on |-> {}, tokens |-> 0]

Init ==
  /\ arrived = 0 /\ pending = {} /\ tokens = 0
  /\ room = <<>> /\ file = <<>> /\ old = {}
  /\ world = {} /\ off = {}
  /\ pc = [t \in Thread |-> "idle"] /\ hands = [t \in Thread |-> <<>>]
  /\ args = [t \in Thread |-> {}] /\ base = [t \in Thread |-> Nowhere]
  /\ surface = [t \in Thread |-> "silent"]
  /\ rule = [t \in Thread |-> "allowed"] /\ cost = [t \in Thread |-> 0]
  /\ air = None
  /\ told = [e \in Event |-> 0] /\ paid = 0
  /\ offered = [t \in Thread |-> {}] /\ cuts = 0

----------------------------------------------------------------------------
(* The waiting room.                                                       *)

Newest(s, n) == SubSeq(s, Len(s) - n + 1, Len(s))

Fresh == {h \in Item : h.e \notin old}

\* The members of S in s, in the order they have there.
Among(s, S) ==
  LET upTo[i \in 0..Len(s)] ==
        IF i = 0 THEN <<>>
        ELSE IF s[i] \in S THEN Append(upTo[i - 1], s[i]) ELSE upTo[i - 1]
  IN  upTo[Len(s)]

\* fault: what is held is not saved.
holdUnsaved(h, why) ==
  IF why \in WAITING_FOR /\ \A i \in DOMAIN room : room[i].e # h.e
  THEN LET all == Append(Among(room, Fresh), [e |-> h.e, read |-> h.read])
       IN  /\ room' = IF Len(all) > MOST_HELD THEN Newest(all, MOST_HELD)
                                              ELSE all
           /\ old' = {}
           /\ UNCHANGED file
  ELSE UNCHANGED held

\* fault: the room has no limit.
holdAll(h, why) ==
  IF why \in WAITING_FOR /\ \A i \in DOMAIN room : room[i].e # h.e
  THEN /\ room' = Append(Among(room, Fresh), [e |-> h.e, read |-> h.read])
       /\ file' = room'
       /\ old' = {}
  ELSE UNCHANGED held

\* hold: declined for a reason that does not pass, or if it waits already.
\* _save is taken to succeed and not to be cut in two: in the code it swallows
\* its errors, and a Gateway that dies while it writes leaves a file that _load
\* reads as an empty room.
hold(h, why) ==
  IF why \in WAITING_FOR /\ \A i \in DOMAIN room : room[i].e # h.e
  THEN LET all == Append(Among(room, Fresh), [e |-> h.e, read |-> h.read])
       IN  /\ room' = IF Len(all) > MOST_HELD THEN Newest(all, MOST_HELD)
                                              ELSE all
           /\ file' = room'
           /\ old' = {}
  ELSE UNCHANGED held

\* release: at most one item goes to t, the first that may be spoken; the
\* stale ones go for good.  now is the room with what was just read in it.
release(t, now, sayable) ==
  LET fits  == {i \in DOMAIN now : now[i] \in Fresh \cap sayable}
      first == CHOOSE i \in fits : \A j \in fits : i <= j
      freed == IF fits = {} THEN <<>> ELSE <<now[first]>>
      keeps == Among(now, Fresh \ Range(freed))
  IN  /\ hands' = [hands EXCEPT ![t] =
                     [i \in DOMAIN freed |->
                        [e |-> freed[i].e, released |-> TRUE,
                         read |-> freed[i].read]]]
      /\ room' = keeps
      /\ file' = IF Len(keeps) # Len(room) THEN keeps ELSE file
      /\ old' = {}

----------------------------------------------------------------------------
(* A turn of the mind.                                                     *)

\* What run_mind is told once for the whole turn.  Whether a fullscreen app
\* is up is looked at every time a world is built.
GIVEN == {"conversation-active", "asleep", "quiet-hours", "nobody-present"}
BUSY == {"windows-busy"}
PAUSED == {"initiative-paused"}

run_mind(t) ==
  /\ pc[t] = "idle" /\ (t = Timer \/ RequestTicks)
  /\ pc' = [pc EXCEPT ![t] = "offer"]
  /\ args' = [args EXCEPT ![t] = world \cap GIVEN]
  /\ UNCHANGED <<journal, held, outside, hands, base, surface, rule, cost,
                 air, history>>

\* The world an event is judged in: paused is a setting, read as it is now.
Hindering(on, spent) ==
  on \cup (world \cap PAUSED) \cup IF spent >= Budget THEN {"daily-budget"} ELSE {}

\* The world around t, should an event be judged now.
Around(t) == Hindering(args[t] \cup (world \cap BUSY), tokens)

\* fault: the waiting room is not told that nobody is home.
WorldOfOfferHome(t) == Around(t) \ {"nobody-present"}

\* The world the held items are offered to.
WorldOfOffer(t) == Around(t)

\* The room with the mail in it that was just read.
AfterReading(answers) ==
  [i \in DOMAIN room |-> [room[i] EXCEPT !.read = @ \/ room[i].e \in answers]]

\* resting: a model is cooling down, and nothing held is read or said.
MaySpeak(t, h, resting) ==
  /\ h.e \notin off /\ ~resting
  /\ Spoken(evaluate(Events[h.e], WorldOfOffer(t), h.read, "speak").surface)

\* The items are gone through until one may be spoken.
OfferHeld(t, answers, resting) ==
  LET now == AfterReading(answers)
      reached == {i \in DOMAIN now :
                    \A j \in 1..(i - 1) :
                      ~(now[j] \in Fresh /\ MaySpeak(t, now[j], resting))}
  IN  /\ answers \subseteq {room[i].e : i \in reached} \ (old \cup off)
      /\ resting => answers = {}
      /\ release(t, now, {h \in Range(now) : MaySpeak(t, h, resting)})

\* _waited_for: mail no model would read is read now, if one answers.
_waited_for(t) ==
  /\ pc[t] = "offer"
  /\ \E answers \in SUBSET {room[i].e : i \in {j \in DOMAIN room :
                              Events[room[j].e].mail /\ ~room[j].read}},
        resting \in BOOLEAN : OfferHeld(t, answers, resting)
  /\ pc' = [pc EXCEPT ![t] = "take"]
  /\ offered' = [offered EXCEPT ![t] =
                   IF hands'[t] = <<>> THEN {} ELSE Around(t)]
  /\ UNCHANGED <<journal, outside, turn, air, told, paid, cuts>>

\* The oldest events nobody has decided on.
Oldest(n) ==
  LET ids == Among([i \in Event |-> i], pending)
  IN  SubSeq(ids, 1, IF Len(ids) < n THEN Len(ids) ELSE n)

Take(t) ==
  LET listed == Oldest(MAX_EVENTS_PER_TURN)
      all    == hands[t] \o [i \in DOMAIN listed |->
                  [e |-> listed[i], released |-> FALSE, read |-> FALSE]]
  IN  /\ pc[t] = "take"
      /\ hands' = [hands EXCEPT ![t] = all]
      /\ IF all = <<>>
         THEN /\ pc' = [pc EXCEPT ![t] = "idle"]
              /\ args' = [args EXCEPT ![t] = {}]
              /\ offered' = [offered EXCEPT ![t] = {}]
              /\ UNCHANGED base
         ELSE /\ pc' = [pc EXCEPT ![t] = "judge"]
              /\ base' = [base EXCEPT ![t] =
                    [on |-> args[t] \cup (world \cap BUSY), tokens |-> tokens]]
              /\ UNCHANGED <<args, offered>>
      /\ UNCHANGED <<journal, held, outside, surface, rule, cost, air, told,
                     paid, cuts>>

\* fault: the turn does not count what it has spent.
NextUncounted(t, counted) ==
  LET last == Len(hands[t]) = 1
  IN  /\ hands' = [hands EXCEPT ![t] = Tail(@)]
      /\ pc' = [pc EXCEPT ![t] = IF last THEN "idle" ELSE "judge"]
      /\ args' = [args EXCEPT ![t] = IF last THEN {} ELSE @]
      /\ base' = [base EXCEPT ![t] = IF last THEN Nowhere ELSE @]
      /\ surface' = [surface EXCEPT ![t] = "silent"]
      /\ rule' = [rule EXCEPT ![t] = "allowed"]
      /\ cost' = [cost EXCEPT ![t] = 0]
      /\ offered' = [offered EXCEPT ![t] = {}]

\* The turn goes on to the next event it has in hand.
NextEvent(t, counted) ==
  LET last == Len(hands[t]) = 1
  IN  /\ hands' = [hands EXCEPT ![t] = Tail(@)]
      /\ pc' = [pc EXCEPT ![t] = IF last THEN "idle" ELSE "judge"]
      /\ args' = [args EXCEPT ![t] = IF last THEN {} ELSE @]
      /\ base' = [base EXCEPT ![t] =
                    IF last THEN Nowhere
                    ELSE [on |-> @.on, tokens |-> @.tokens + counted]]
      /\ surface' = [surface EXCEPT ![t] = "silent"]
      /\ rule' = [rule EXCEPT ![t] = "allowed"]
      /\ cost' = [cost EXCEPT ![t] = 0]
      /\ offered' = [offered EXCEPT ![t] = {}]

\* An event of a source switched off is passed over, and stays pending.
PassOver(t) ==
  /\ pc[t] \in {"judge", "say"} /\ Head(hands[t]).e \in off
  /\ NextEvent(t, 0)
  /\ UNCHANGED <<journal, held, outside, air, told, paid, cuts>>

Verdict(t) ==
  LET h == Head(hands[t])
  IN  evaluate(Events[h.e], Hindering(base[t].on, base[t].tokens), h.read,
               Events[h.e].wanted)

\* Somebody who is out is written to instead, if the messenger can.
Textable(why) == why = "nobody-present"

\* fault: what is texted instead is held all the same.
PostponedAnyway(h, v) ==
  Spoken(Events[h.e].wanted) /\ ~Spoken(v.surface) /\ ~h.released

\* Worth saying and not sayable now, and not let out of the room already.
Postponed(h, v) ==
  /\ Spoken(Events[h.e].wanted) /\ ~Spoken(v.surface) /\ ~h.released
  /\ ~Textable(v.rule)

Judge(t) ==
  LET h == Head(hands[t])
      v == Verdict(t)
  IN  /\ pc[t] = "judge" /\ h.e \notin off
      /\ IF Postponed(h, v) THEN hold(h, v.rule) ELSE UNCHANGED held
      /\ surface' = [surface EXCEPT ![t] = v.surface]
      /\ rule' = [rule EXCEPT ![t] = v.rule]
      /\ pc' = [pc EXCEPT ![t] = "think"]
      /\ UNCHANGED <<journal, outside, hands, args, base, cost, air, history>>

\* What is repeated too often is not thought about, and not announced.  A
\* model is asked about the rest, and can only make it quieter; what must be
\* said it cannot silence.  A deliberation costs one unit.  The error of a
\* provider is one more way to have no proposal; any other error, which ends
\* the turn, is left out.
Think(t) ==
  LET event == Events[Head(hands[t]).e]
      s     == surface[t]
      worth == Loudness(s) > Loudness("activity")
               /\ rule[t] \notin {"initiative-paused", "daily-budget"}
      Silenced(p) == p = "silent" /\ event.must
  IN  /\ pc[t] = "think"
      /\ \/ /\ ~Spoken(event.wanted)
            /\ surface' = [surface EXCEPT ![t] =
                             IF event.must THEN s ELSE Cap(s, "activity")]
            /\ UNCHANGED <<cost, paid>>
         \/ /\ worth
            /\ \E p \in SURFACES :
                 surface' = [surface EXCEPT ![t] =
                               IF Silenced(p) THEN s ELSE Cap(p, s)]
            /\ cost' = [cost EXCEPT ![t] = 1] /\ paid' = paid + 1
         \/ ~worth /\ UNCHANGED <<surface, cost, paid>>
      /\ pc' = [pc EXCEPT ![t] = "say"]
      /\ UNCHANGED <<journal, held, outside, hands, args, base, rule, air, told,
                     offered, cuts>>

\* A voice not loaded yet is not loaded while a game has the machine.
StandAside(t) ==
  /\ pc[t] = "say" /\ Head(hands[t]).e \notin off /\ surface[t] = "speak"
  /\ hold(Head(hands[t]), "resources")
  /\ surface' = [surface EXCEPT ![t] = "island"]
  /\ pc' = [pc EXCEPT ![t] = "note"]
  /\ UNCHANGED <<journal, outside, hands, args, base, rule, cost, air, history>>

Say(t) ==
  /\ pc[t] = "say" /\ Head(hands[t]).e \notin off
  /\ IF surface[t] = "speak"
     THEN pc' = [pc EXCEPT ![t] = "voice"] /\ air' = t
     ELSE /\ pc' = [pc EXCEPT ![t] = IF Textable(rule[t]) THEN "text"
                                    ELSE "note"]
          /\ UNCHANGED air
  /\ UNCHANGED <<journal, held, outside, hands, turn, history>>

\* A newer line cancels an older one; a line may also fail.
Played(t, fails) == air = t /\ ~fails

LeaveAir(t) == air' = IF air = t THEN None ELSE air

\* Losing the voice is not losing the decision: it is shown.
Voice(t) ==
  /\ pc[t] = "voice"
  /\ \E fails \in BOOLEAN :
       IF Played(t, fails)
       THEN /\ told' = [told EXCEPT ![Head(hands[t]).e] = @ + 1]
            /\ UNCHANGED surface
       ELSE /\ surface' = [surface EXCEPT ![t] = "island"]
            /\ UNCHANGED told
  /\ LeaveAir(t)
  /\ pc' = [pc EXCEPT ![t] = "note"]
  /\ UNCHANGED <<journal, held, outside, hands, args, base, rule, cost, paid,
                 offered, cuts>>

\* Sent to the phone, or held if that fails.
Text(t) ==
  LET h == Head(hands[t])
  IN  /\ pc[t] = "text"
      /\ \/ /\ surface[t] = "island"
            /\ told' = [told EXCEPT ![h.e] = @ + 1]
            /\ UNCHANGED held
         \/ /\ IF h.released THEN UNCHANGED held ELSE hold(h, rule[t])
            /\ UNCHANGED told
      /\ pc' = [pc EXCEPT ![t] = "note"]
      /\ UNCHANGED <<journal, outside, hands, turn, air, paid, offered, cuts>>

\* fault: what stays silent is not marked as processed.
NoteSurfaced(t) ==
  /\ pc[t] = "note"
  /\ tokens' = tokens + cost[t]
  /\ pending' = IF surface[t] = "silent" THEN pending
                ELSE pending \ {Head(hands[t]).e}
  /\ NextEvent(t, cost[t])
  /\ UNCHANGED <<arrived, held, outside, air, told, paid, cuts>>

\* The decision and its cost go to the journal, and the event is processed.
Note(t) ==
  /\ pc[t] = "note"
  /\ tokens' = tokens + cost[t]
  /\ pending' = pending \ {Head(hands[t]).e}
  /\ NextEvent(t, cost[t])
  /\ UNCHANGED <<arrived, held, outside, air, told, paid, cuts>>

----------------------------------------------------------------------------
(* The person asks for what is held: say_waiting.                          *)

say_waiting(t) ==
  /\ t = Loop /\ pc[t] = "idle" /\ world \cap PAUSED = {}
  /\ \E wanted \in SUBSET Event :
       release(t, room, {h \in Range(room) : h.e \in wanted \ off})
  /\ IF hands'[t] = <<>> THEN UNCHANGED <<pc, air>>
     ELSE pc' = [pc EXCEPT ![t] = "asked"] /\ air' = t
  /\ UNCHANGED <<journal, outside, turn, history>>

Asked(t) ==
  /\ pc[t] = "asked"
  /\ \E fails \in BOOLEAN :
       told' = IF Played(t, fails)
               THEN [told EXCEPT ![Head(hands[t]).e] = @ + 1] ELSE told
  /\ LeaveAir(t)
  /\ hands' = [hands EXCEPT ![t] = <<>>]
  /\ pc' = [pc EXCEPT ![t] = "idle"]
  /\ UNCHANGED <<journal, held, outside, turn, paid, offered, cuts>>

----------------------------------------------------------------------------
(* Everything else.                                                        *)

\* An event of a source that is switched off is not journaled.  A
\* mail event stands for one no model would read when it came: mail that was
\* read is an event like any other.
append ==
  /\ arrived < Len(Events) /\ arrived + 1 \notin off
  /\ arrived' = arrived + 1
  /\ pending' = pending \cup {arrived + 1}
  /\ UNCHANGED <<tokens, held, outside, pc, hands, turn, air, history>>

WorldMoves ==
  /\ \E h \in Changing :
       world' = IF h \in world THEN world \ {h} ELSE world \cup {h}
  /\ UNCHANGED <<journal, held, off, pc, hands, turn, air, history>>

SwitchOff ==
  /\ cuts < MaxCuts
  /\ \E e \in Event \ off : off' = off \cup {e}
  /\ cuts' = cuts + 1
  /\ UNCHANGED <<journal, held, world, pc, hands, turn, air, told, paid, offered>>

SwitchOn ==
  /\ \E e \in off : off' = off \ {e}
  /\ UNCHANGED <<journal, held, world, pc, hands, turn, air, history>>

\* Twelve hours pass for one of the held.
Ages ==
  /\ \E i \in DOMAIN room : room[i].e \notin old /\ old' = old \cup {room[i].e}
  /\ UNCHANGED <<journal, room, file, outside, pc, hands, turn, air, history>>

\* day_start: the budget is counted from midnight, and a turn on the day it
\* began.
NewDay ==
  /\ paid > 0 /\ \A t \in Thread : pc[t] \in {"idle", "asked"}
  /\ tokens' = 0 /\ paid' = 0
  /\ UNCHANGED <<arrived, pending, held, outside, pc, hands, turn, air, told,
                 offered, cuts>>

Crash ==
  /\ cuts < MaxCuts
  /\ cuts' = cuts + 1
  /\ pc' = [t \in Thread |-> "idle"] /\ hands' = [t \in Thread |-> <<>>]
  /\ args' = [t \in Thread |-> {}] /\ base' = [t \in Thread |-> Nowhere]
  /\ surface' = [t \in Thread |-> "silent"]
  /\ rule' = [t \in Thread |-> "allowed"] /\ cost' = [t \in Thread |-> 0]
  /\ air' = None
  /\ room' = file
  /\ offered' = [t \in Thread |-> {}]
  /\ UNCHANGED <<journal, file, old, outside, told, paid>>

Turn(t) ==
  \/ run_mind(t) \/ _waited_for(t) \/ Take(t) \/ PassOver(t) \/ Judge(t)
  \/ Think(t) \/ StandAside(t) \/ Say(t) \/ Voice(t) \/ Text(t) \/ Note(t)

Next ==
  \/ \E t \in Thread : Turn(t) \/ say_waiting(t) \/ Asked(t)
  \/ append \/ WorldMoves \/ SwitchOff \/ SwitchOn \/ Ages \/ NewDay \/ Crash

\* Turn(Timer) can always be taken, and each of its steps moves the timer to
\* another place or another event: that it always moves again is its weak
\* fairness, in a form TLC evaluates fast.
Fairness == []<><<TRUE>>_<<pc[Timer], hands[Timer]>>

Spec == Init /\ [][Next]_vars /\ Fairness

----------------------------------------------------------------------------
(* Properties.                                                             *)

\* What is released is spoken: the waiting room and the turn ask policy the
\* same question, so an item let out of the room is not refused by the turn
\* it was let out for, and lost, unless the world changed in between.
Agrees ==
  \A t \in Thread :
    pc[t] = "judge" /\ Head(hands[t]).released /\ Head(hands[t]).e \notin off
    /\ offered[t] = Hindering(base[t].on, base[t].tokens)
      => Spoken(Verdict(t).surface)

\* An event is told once, whether it was told at once, after a wait, because
\* the person asked or on the phone.  Each crash, and each source switched
\* off in the middle of a turn, repeats at most one telling.
SaidOnce == \A e \in Event : told[e] <= 1 + cuts

\* A day's deliberations stay within its budget: a turn counts what its own
\* earlier events have cost.  A crash or a switch in the middle of an event
\* leaves at most one call out of the books.
WithinBudget == paid <= Budget + cuts

\* What waits leaves the room to be said, because it is stale, or because
\* newer things fill the room; a restart loses none of it.
Kept ==
  [][\A i \in DOMAIN room :
       \/ \E j \in DOMAIN room' : room'[j].e = room[i].e
       \/ room[i].e \in old
       \/ \E t \in Thread : \E j \in DOMAIN hands'[t] :
            hands'[t][j].e = room[i].e /\ hands'[t][j].released
       \/ Len(room') = MOST_HELD]_vars

\* Every journaled event is decided, unless a source is switched off: the
\* turns work through the journal, oldest first, MAX_EVENTS_PER_TURN a turn.
Considered ==
  \A e \in Event : (e \in pending) ~> (e \notin pending \/ off # {})
=============================================================================
