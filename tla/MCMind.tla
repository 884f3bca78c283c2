------------------------------- MODULE MCMind -------------------------------
(* Small instances of Mind: a mail nobody has read yet, a reminder, and    *)
(* something only to show; in the larger one also somebody coming home,    *)
(* who is shown although arrivals may be announced.                        *)
EXTENDS Mind

Happens(wanted, ceiling, trusted, mail, must) ==
  [wanted |-> wanted, ceiling |-> ceiling, trusted |-> trusted,
   insistent |-> FALSE, mail |-> mail, must |-> must]

AMail     == Happens("speak", "speak", FALSE, TRUE, FALSE)
AReminder == Happens("speak", "speak", TRUE, FALSE, TRUE)
AnArrival == Happens("speak", "island", TRUE, FALSE, TRUE)
AGlance   == Happens("island", "island", TRUE, FALSE, TRUE)

MailReminderGlance == <<AMail, AReminder, AGlance>>
MailReminderArrivalGlance == <<AMail, AReminder, AnArrival, AGlance>>
=============================================================================
