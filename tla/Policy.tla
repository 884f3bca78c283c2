------------------------------- MODULE Policy -------------------------------
(***************************************************************************)
(* policy.evaluate: the loudest surface an event may reach in a world.     *)
(* The rules are an ordered list, and the first that applies decides.      *)
(*                                                                         *)
(* An event is [wanted, ceiling, trusted, insistent, mail, must]: how loud  *)
(* its kind may be, and how loud this one may be, which is less for some   *)
(* arrivals in the room (ENTRY_CEILING).  A world is the set of hindrances *)
(* that hold in it.  The cooldown is left out: it is off unless            *)
(* MARVI_SURFACE_COOLDOWN sets one.                                        *)
(***************************************************************************)
EXTENDS Naturals

SURFACES == {"silent", "remember", "activity", "island", "speak", "propose"}

Loudness(s) ==
  CASE s = "silent" -> 0 [] s = "remember" -> 1 [] s = "activity" -> 2
    [] s = "island" -> 3 [] s = "speak" -> 4    [] s = "propose" -> 5

Spoken(s) == Loudness(s) >= Loudness("speak")
Visible(s) == Loudness(s) >= Loudness("island")

Cap(s, ceiling) == IF Loudness(s) <= Loudness(ceiling) THEN s ELSE ceiling

RULES == << "initiative-paused", "daily-budget", "conversation-active",
            "asleep", "quiet-hours", "windows-busy", "nobody-present",
            "unread", "allowed" >>

HINDRANCES == {RULES[i] : i \in 1..7}

\* pending.WAITING_FOR: what passes on its own
WAITING_FOR ==
  {"quiet-hours", "asleep", "nobody-present", "conversation-active",
   "daily-budget", "unread", "resources", "windows-busy"}

\* What a stranger wrote is never acted on, and mail nobody read is not read
\* out.
Ceiling(event, read) ==
  LET c == IF event.trusted THEN event.ceiling ELSE Cap(event.ceiling, "speak")
  IN  IF event.mail /\ ~read THEN Cap(c, "island") ELSE c

Unread(event, read) ==
  event.mail /\ ~read /\ Loudness(event.ceiling) > Loudness("island")

Applies(rule, event, world, read, surface) ==
  CASE rule \in {"initiative-paused", "daily-budget"} -> rule \in world
    [] rule = "conversation-active" -> rule \in world /\ Visible(surface)
    [] rule = "windows-busy" ->
         rule \in world /\ ~event.insistent /\ Visible(surface)
    [] rule \in {"asleep", "quiet-hours", "nobody-present"} ->
         rule \in world /\ ~event.insistent /\ Spoken(surface)
    [] rule = "unread" -> Unread(event, read)
    [] rule = "allowed" -> TRUE

Deciding(event, world, read, surface) ==
  RULES[CHOOSE i \in DOMAIN RULES :
          /\ Applies(RULES[i], event, world, read, surface)
          /\ \A j \in 1..(i - 1) :
               ~Applies(RULES[j], event, world, read, surface)]

\* How loud the rule lets it be.
Quieted(rule, surface, ceiling) ==
  CASE rule \in {"initiative-paused", "daily-budget"} -> "silent"
    [] rule \in {"conversation-active", "windows-busy"} ->
         Cap("activity", ceiling)
    [] rule \in {"asleep", "quiet-hours", "nobody-present"} ->
         Cap("island", ceiling)
    [] OTHER -> surface

\* The verdict on an event that would like the surface wanted.
evaluate(event, world, read, wanted) ==
  LET ceiling == Ceiling(event, read)
      surface == Cap(wanted, ceiling)
      rule    == Deciding(event, world, read, surface)
  IN  [rule |-> rule, surface |-> Quieted(rule, surface, ceiling)]
=============================================================================
