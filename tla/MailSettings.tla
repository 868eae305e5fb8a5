---------------------------- MODULE MailSettings ----------------------------
(* The mailbox settings of an account (signature, whether the introduction    *)
(* tour was completed) and the tour itself: the copy of the page              *)
(* (useEmails.mailSettings), the form of ProfilePane.jsx, the effect of       *)
(* App.jsx that decides whether FirstRunOnboarding.jsx is shown, and the row  *)
(* of the node.  Locale, theme and keyboard mode travel with the signature    *)
(* and are left out.  Requests are sent, served and answered in separate      *)
(* steps, and their answers are applied whoever is signed in by then.         *)
EXTENDS Naturals

CONSTANTS Accounts,   \* accounts that sign in on this device, one at a time
          Loads,      \* slots for settings loads in flight
          Saves,      \* slots for settings saves in flight
          None

NoneAssumption == None \notin Accounts

\* A signature is named by the account whose user wrote it.
Signatures == {None} \cup Accounts
Settings == [sig: Signatures, done: BOOLEAN]

\* The state useEmails starts with, and what the node answers without a row.
Default == [sig |-> None, done |-> FALSE]

\* The steps of the tour: profile, security, backup, launch.
Steps == 0..3
Backup == 2

VARIABLES
    node,       \* account -> its row of mail_settings
    who,        \* the account in session, or None
    locked,     \* the session is locked
    settings,   \* mailSettings of the page
    form,       \* the settings section of the profile pane
    loads,      \* fetchMailboxMetadata calls in flight
    saves,      \* saveSettings calls in flight
    doneHere,   \* account -> localStorage says that its tour is done
    tour        \* the effect's ref and timer, and the tour on the screen

vars == <<node, who, locked, settings, form, loads, saves, doneHere, tour>>

Idle == [st |-> "idle", for |-> None, val |-> Default]
NoSave == [st |-> "idle", for |-> None, val |-> Default, byForm |-> FALSE]
TourOff == [seen |-> None, timer |-> FALSE, show |-> FALSE, step |-> 0, confirmed |-> FALSE]
Closed == [open |-> FALSE, sig |-> None]

TypeOK ==
    /\ node \in [Accounts -> Settings]
    /\ who \in Accounts \cup {None}
    /\ locked \in BOOLEAN
    /\ settings \in Settings
    /\ form \in [open: BOOLEAN, sig: Signatures]
    /\ loads \in [Loads -> [st: {"idle", "sent", "served"}, for: Accounts \cup {None},
                            val: Settings]]
    /\ saves \in [Saves -> [st: {"idle", "sent", "served"}, for: Accounts \cup {None},
                            val: Settings, byForm: BOOLEAN]]
    /\ doneHere \in [Accounts -> BOOLEAN]
    /\ tour \in [seen: Accounts \cup {None}, timer: BOOLEAN, show: BOOLEAN,
                 step: Steps, confirmed: BOOLEAN]

Init ==
    /\ node \in [Accounts -> Settings]
    /\ \A a \in Accounts : node[a].sig \in {None, a}
    /\ who = None
    /\ locked = FALSE
    /\ settings = Default
    /\ form = Closed
    /\ loads = [l \in Loads |-> Idle]
    /\ saves = [s \in Saves |-> NoSave]
    /\ doneHere = [a \in Accounts |-> FALSE]
    /\ tour = TourOff

Active == who # None /\ ~locked

-----------------------------------------------------------------------------
(* Effects that follow a render. *)

\* The effect on user, identity, keys, lock and mailSettings: its clean-up
\* clears the timer of the former run, its ref keeps it from deciding twice.
OnboardingEffect(w, s) ==
    IF w = None
      THEN tour' = TourOff /\ UNCHANGED doneHere
    ELSE IF tour.seen = w
      THEN tour' = [tour EXCEPT !.timer = FALSE] /\ UNCHANGED doneHere
    ELSE IF doneHere[w] \/ s.done
      THEN tour' = [TourOff EXCEPT !.seen = w] /\ doneHere' = [doneHere EXCEPT ![w] = TRUE]
    ELSE tour' = [tour EXCEPT !.seen = w, !.timer = TRUE] /\ UNCHANGED doneHere

\* ProfilePane takes every new mailSettings object into its inputs.
TakeInputs(s) == form' = IF form.open THEN [form EXCEPT !.sig = s.sig] ELSE form

\* setMailSettings of a load or a save, and the effects it runs.
SetMailSettings(s) ==
    /\ settings' = s
    /\ TakeInputs(s)
    /\ OnboardingEffect(IF locked THEN None ELSE who, s)

-----------------------------------------------------------------------------
(* The session. *)

\* The identity is known: its effect loads the mailbox metadata, and the
\* onboarding effect runs with whatever settings the page holds.
SignIn(a, l) ==
    /\ who = None
    /\ loads[l].st = "idle"
    /\ who' = a
    /\ loads' = [loads EXCEPT ![l] = [Idle EXCEPT !.st = "sent", !.for = a]]
    /\ OnboardingEffect(a, settings)
    /\ UNCHANGED <<node, locked, settings, form, saves>>

\* handleLogout with clearAllData: the settings of the page stay.
SignOut ==
    /\ who # None
    /\ who' = None
    /\ locked' = FALSE
    /\ form' = Closed
    /\ OnboardingEffect(None, settings)
    /\ UNCHANGED <<node, settings, loads, saves>>

HandleLock ==
    /\ Active
    /\ locked' = TRUE
    /\ form' = Closed
    /\ OnboardingEffect(None, settings)
    /\ UNCHANGED <<node, who, settings, loads, saves>>

HandleUnlock ==
    /\ locked
    /\ locked' = FALSE
    /\ OnboardingEffect(who, settings)
    /\ UNCHANGED <<node, who, settings, form, loads, saves>>

-----------------------------------------------------------------------------
(* Loading and saving. *)

\* Called again after a label, a rule, a draft, a planned mail or an identity.
FetchMailboxMetadata(l) ==
    /\ Active
    /\ loads[l].st = "idle"
    /\ loads' = [loads EXCEPT ![l] = [Idle EXCEPT !.st = "sent", !.for = who]]
    /\ UNCHANGED <<node, who, locked, settings, form, saves, doneHere, tour>>

GetMailSettings(l) ==
    /\ loads[l].st = "sent"
    /\ loads' = [loads EXCEPT ![l].st = "served", ![l].val = node[loads[l].for]]
    /\ UNCHANGED <<node, who, locked, settings, form, saves, doneHere, tour>>

LoadReturns(l) ==
    /\ loads[l].st = "served"
    /\ SetMailSettings(loads[l].val)
    /\ loads' = [loads EXCEPT ![l] = Idle]
    /\ UNCHANGED <<node, who, locked, saves>>

\* A failed load is null and leaves the settings as they are.
LoadFails(l) ==
    /\ loads[l].st # "idle"
    /\ loads' = [loads EXCEPT ![l] = Idle]
    /\ UNCHANGED <<node, who, locked, settings, form, saves, doneHere, tour>>

SaveSettings(s, val, byForm) ==
    /\ saves[s].st = "idle"
    /\ saves' = [saves EXCEPT ![s] =
                   [st |-> "sent", for |-> who, val |-> val, byForm |-> byForm]]

\* The node replaces the whole row.
SaveMailSettings(s) ==
    /\ saves[s].st = "sent"
    /\ node' = [node EXCEPT ![saves[s].for] = saves[s].val]
    /\ saves' = [saves EXCEPT ![s].st = "served"]
    /\ UNCHANGED <<who, locked, settings, form, loads, doneHere, tour>>

SaveReturns(s) ==
    /\ saves[s].st = "served"
    /\ SetMailSettings(saves[s].val)
    /\ saves' = [saves EXCEPT ![s] = NoSave]
    /\ UNCHANGED <<node, who, locked, loads>>

SaveFails(s) ==
    /\ saves[s].st # "idle"
    /\ saves' = [saves EXCEPT ![s] = NoSave]
    /\ UNCHANGED <<node, who, locked, settings, form, loads, doneHere, tour>>

-----------------------------------------------------------------------------
(* The form, and the composer. *)

OpenSection ==
    /\ Active /\ ~tour.show /\ ~form.open
    /\ form' = [open |-> TRUE, sig |-> settings.sig]
    /\ UNCHANGED <<node, who, locked, settings, loads, saves, doneHere, tour>>

LeaveSection ==
    /\ Active /\ ~tour.show /\ form.open
    /\ form' = Closed
    /\ UNCHANGED <<node, who, locked, settings, loads, saves, doneHere, tour>>

TypeSignature ==
    /\ Active /\ ~tour.show /\ form.open
    /\ \E sig \in {None, who} : form' = [form EXCEPT !.sig = sig]
    /\ UNCHANGED <<node, who, locked, settings, loads, saves, doneHere, tour>>

HandleSaveMailboxSettings(s) ==
    /\ Active /\ ~tour.show /\ form.open
    /\ SaveSettings(s, [settings EXCEPT !.sig = form.sig], TRUE)
    /\ UNCHANGED <<node, who, locked, settings, form, loads, doneHere, tour>>

\* What a composer that opens now puts into a text without a signature.
InjectSignature == IF Active /\ ~tour.show THEN settings.sig ELSE None

-----------------------------------------------------------------------------
(* The tour. *)

\* 900 ms have passed.
TimerFires ==
    /\ tour.timer
    /\ tour' = [tour EXCEPT !.timer = FALSE, !.show = TRUE, !.step = 0, !.confirmed = FALSE]
    /\ UNCHANGED <<node, who, locked, settings, form, loads, saves, doneHere>>

InTour(t) ==
    /\ tour.show
    /\ tour' = t
    /\ UNCHANGED <<node, who, locked, settings, form, loads, saves, doneHere>>

ConfirmBackup ==
    /\ tour.step = Backup
    /\ \E c \in BOOLEAN : InTour([tour EXCEPT !.confirmed = c])

\* Weiter: disabled in the backup step until its box is checked.
GoNext ==
    /\ tour.step < 3
    /\ tour.step # Backup \/ tour.confirmed
    /\ InTour([tour EXCEPT !.step = @ + 1])

GoBack ==
    /\ tour.step > 0
    /\ InTour([tour EXCEPT !.step = @ - 1])

\* A button of the progress bar, for the steps already reached.
PickStep(i) ==
    /\ i <= tour.step
    /\ InTour([tour EXCEPT !.step = i])

\* Completing, skipping and every destination of the last step close the tour.
CloseFirstRunOnboarding(s) ==
    /\ tour.show
    /\ doneHere' = [doneHere EXCEPT ![who] = TRUE]
    /\ SaveSettings(s, [settings EXCEPT !.done = TRUE], FALSE)
    /\ tour' = [TourOff EXCEPT !.seen = tour.seen]
    /\ UNCHANGED <<node, who, locked, settings, form, loads>>

-----------------------------------------------------------------------------
Session ==
    \/ \E a \in Accounts, l \in Loads : SignIn(a, l)
    \/ SignOut
    \/ HandleLock
    \/ HandleUnlock

Requests ==
    \/ \E l \in Loads :
          \/ FetchMailboxMetadata(l)
          \/ GetMailSettings(l)
          \/ LoadReturns(l)
          \/ LoadFails(l)
    \/ \E s \in Saves : SaveMailSettings(s) \/ SaveReturns(s) \/ SaveFails(s)

Screen ==
    \/ OpenSection
    \/ LeaveSection
    \/ TypeSignature
    \/ TimerFires
    \/ ConfirmBackup
    \/ GoNext
    \/ GoBack
    \/ \E i \in Steps : PickStep(i)
    \/ \E s \in Saves : HandleSaveMailboxSettings(s) \/ CloseFirstRunOnboarding(s)

Next == Session \/ Requests \/ Screen

Spec == Init /\ [][Next]_vars

-----------------------------------------------------------------------------
(* Properties. *)

\* Once an account closed its tour on this device, the tour is neither on the
\* screen nor about to come for it, whatever the node answers about the
\* settings and however often the session is locked, ended and begun again.
TourOnce == tour.show \/ tour.timer => who # None /\ ~doneHere[who]

\* The last step of the tour is reached only with the backup confirmed, by
\* whatever way through Weiter, Zurueck and the progress bar.
LaunchConfirmed == tour.show /\ tour.step = 3 => tour.confirmed

\* The stored signature of an account changes only by its settings form.
SignatureKept ==
    [][\A a \in Accounts : node'[a].sig # node[a].sig =>
          \E s \in Saves : saves[s].st = "sent" /\ saves'[s].st = "served" /\ saves[s].byForm]_vars

\* A composer attaches the signature of the account it writes for.
SignatureOwn == InjectSignature \in {None, who}
=============================================================================
