----------------------------- MODULE Profile -----------------------------
(***************************************************************************)
(* The profile pane: the profile of the signed-in user, and the switches   *)
(* for anonymous statistics and the display.  The two have no state in     *)
(* common.                                                                 *)
(***************************************************************************)
EXTENDS Integers, FiniteSets, Naturals

-----------------------------------------------------------------------------
(***************************************************************************)
(* The profile of one identity: the node's copy, the page's form, the copy *)
(* in localStorage and the name of the user that is signed in              *)
(* (utils/useProfileActions.js, ProfilePane.jsx, FirstRunOnboarding.jsx).  *)
(* An effect loads the node's profile whenever the user's name changes,    *)
(* and a loaded profile changes the name; saving changes the name before   *)
(* the node has the profile.  Real name, website, biography and avatar are *)
(* one text.                                                               *)
(***************************************************************************)
CONSTANTS Names, Texts,
          Name0, Text0,        \* what the node has at first
          MaxLoads, MaxSaves,  \* requests under way at once
          MaxVer,              \* profiles the node is given
          MaxEdits

Profile == [name : Names, text : Texts]

ProfileAssumption == Name0 \in Names /\ Text0 \in Texts

VARIABLES
  node,    \* the node's profile and how many it has been given
  form,    \* the fields of the page
  stored,  \* profile_<user> in localStorage
  user,    \* the username of the signed-in user
  loads,   \* requests of the load effect
  saves,   \* updates under way
  upload,  \* a picture is being encrypted and uploaded
  edits,
  ghost

profileVars == <<node, form, stored, user, loads, saves, upload, edits, ghost>>

Profile0 == [name |-> Name0, text |-> Text0]
NoLoad == [st |-> "none", live |-> FALSE, p |-> Profile0, ver |-> 0]
NoSave == [st |-> "none", p |-> Profile0]
Asked  == [NoLoad EXCEPT !.st = "asked", !.live = TRUE]

ProfileInit ==
  /\ node   = [p |-> Profile0, ver |-> 0]
  /\ form   = Profile0 /\ stored = Profile0 /\ user = Name0
  /\ loads  = [l \in 1..MaxLoads |-> IF l = 1 THEN Asked ELSE NoLoad]
  /\ saves  = [s \in 1..MaxSaves |-> NoSave]
  /\ upload = FALSE /\ edits = 0
  /\ ghost  = [told |-> "none", clean |-> FALSE, p |-> Profile0, seen |-> 0]

-----------------------------------------------------------------------------
Free(ls) == {l \in 1..MaxLoads : ls[l].st = "none"}

\* Deviant: the load of the former name is not cancelled.
CancelNone(ls) == ls

\* The cleanup of the effect.
Cancel(ls) == [l \in 1..MaxLoads |-> [ls[l] EXCEPT !.live = FALSE]]

\* setUser with a name: another name runs the effect again.
SetUser(name, ls) ==
  /\ user' = name
  /\ IF name = user THEN loads' = ls
     ELSE \E l \in Free(ls) :
            /\ \A k \in Free(ls) : l <= k
            /\ loads' = [Cancel(ls) EXCEPT ![l] = Asked]

\* The profile section's form.
Edit(p) ==
  /\ edits < MaxEdits /\ edits' = edits + 1
  /\ p # form /\ form' = p
  /\ ghost' = [ghost EXCEPT !.told = "none", !.clean = FALSE]
  /\ UNCHANGED <<node, stored, user, loads, saves, upload>>

\* handleAvatarFileChange sets the avatar when its upload ends.
UploadStarts ==
  /\ edits < MaxEdits /\ edits' = edits + 1
  /\ ~upload /\ upload' = TRUE
  /\ ghost' = [ghost EXCEPT !.told = "none", !.clean = FALSE]
  /\ UNCHANGED <<node, form, stored, user, loads, saves>>

UploadEnds ==
  /\ upload /\ upload' = FALSE
  /\ \E t \in Texts : form' \in {form, [form EXCEPT !.text = t]}
  /\ ghost' = [ghost EXCEPT !.told = "none", !.clean = FALSE]
  /\ UNCHANGED <<node, stored, user, loads, saves, edits>>

\* saveProfile: stored and renamed at once, then sent.
SaveProfile ==
  /\ node.ver + Cardinality({s \in 1..MaxSaves : saves[s].st = "sent"}) < MaxVer
  /\ \E s \in 1..MaxSaves :
       /\ saves[s].st = "none" /\ \A r \in 1..(s - 1) : saves[r].st # "none"
       /\ saves' = [saves EXCEPT ![s] = [st |-> "sent", p |-> form]]
  /\ stored' = form /\ SetUser(form.name, loads)
  /\ ghost' = [ghost EXCEPT !.told = "none", !.clean = TRUE]
  /\ UNCHANGED <<node, form, upload, edits>>

UpdateServed(s) ==
  /\ saves[s].st = "sent"
  /\ node' = [p |-> saves[s].p, ver |-> node.ver + 1]
  /\ saves' = [saves EXCEPT ![s].st = "served"]
  /\ UNCHANGED <<form, stored, user, loads, upload, edits, ghost>>

\* The notice, if nothing was edited or saved after it.
UpdateAnswered(s) ==
  /\ saves[s].st = "served"
  /\ saves' = [saves EXCEPT ![s] = NoSave]
  /\ ghost' = IF ghost.clean /\ \A r \in 1..MaxSaves \ {s} : saves[r].st = "none"
              THEN [ghost EXCEPT !.told = "saved", !.p = saves[s].p] ELSE ghost
  /\ UNCHANGED <<node, form, stored, user, loads, upload, edits>>

UpdateFails(s) ==
  /\ saves[s].st \in {"sent", "served"}
  /\ saves' = [saves EXCEPT ![s] = NoSave]
  /\ UNCHANGED <<node, form, stored, user, loads, upload, edits, ghost>>

\* saveProfileData, from the first step of the onboarding: nothing is sent.
SaveProfileData(name) ==
  /\ edits < MaxEdits /\ edits' = edits + 1
  /\ form' = [form EXCEPT !.name = name] /\ stored' = form'
  /\ SetUser(name, loads)
  /\ ghost' = [ghost EXCEPT !.told = "onboarded", !.clean = FALSE, !.p = form']
  /\ UNCHANGED <<node, saves, upload>>

\* Any other change of the user (App.jsx) takes the fields from localStorage.
UserChanges ==
  /\ form # stored /\ form' = stored
  /\ UNCHANGED <<node, stored, user, loads, saves, upload, edits, ghost>>

-----------------------------------------------------------------------------
LoadServed(l) ==
  /\ loads[l].st = "asked"
  /\ loads' = [loads EXCEPT ![l].st = "served", ![l].p = node.p, ![l].ver = node.ver]
  /\ UNCHANGED <<node, form, stored, user, saves, upload, edits, ghost>>

\* The profile that was loaded is shown, stored, and names the user.
Loaded(l) ==
  /\ loads[l].st = "served" /\ loads[l].live
  /\ form' = loads[l].p /\ stored' = loads[l].p
  /\ SetUser(loads[l].p.name, [loads EXCEPT ![l] = NoLoad])
  /\ ghost' = [ghost EXCEPT !.seen = loads[l].ver]
  /\ UNCHANGED <<node, saves, upload, edits>>

LoadDropped(l) ==
  /\ loads[l].st # "none"
  /\ ~loads[l].live \/ loads[l].st = "asked"   \* cancelled, or it failed
  /\ loads' = [loads EXCEPT ![l] = NoLoad]
  /\ UNCHANGED <<node, form, stored, user, saves, upload, edits, ghost>>

ProfileNext ==
  \/ \E p \in Profile : Edit(p)
  \/ \E name \in Names : SaveProfileData(name)
  \/ UploadStarts \/ UploadEnds \/ SaveProfile \/ UserChanges
  \/ \E s \in 1..MaxSaves : UpdateServed(s) \/ UpdateAnswered(s) \/ UpdateFails(s)
  \/ \E l \in 1..MaxLoads : LoadServed(l) \/ Loaded(l) \/ LoadDropped(l)

-----------------------------------------------------------------------------
Quiet ==
  /\ \A l \in 1..MaxLoads : ~loads[l].live
  /\ \A s \in 1..MaxSaves : saves[s].st = "none"

(* The type invariant: the user is named as the stored profile is, and at  *)
(* most one load is live.                                                  *)
ProfileTypeOK ==
  /\ node \in [p : Profile, ver : 0..MaxVer]
  /\ form \in Profile /\ stored \in Profile /\ user = stored.name
  /\ loads \in [1..MaxLoads -> [st : {"none", "asked", "served"}, live : BOOLEAN,
                                p : Profile, ver : 0..MaxVer]]
  /\ Cardinality({l \in 1..MaxLoads : loads[l].live}) <= 1
  /\ saves \in [1..MaxSaves -> [st : {"none", "sent", "served"}, p : Profile]]
  /\ upload \in BOOLEAN /\ edits \in 0..MaxEdits
  /\ ghost \in [told : {"none", "saved", "onboarded"}, clean : BOOLEAN, p : Profile, seen : 0..MaxVer]

(* Loads never show an older profile of the node after a newer one: the    *)
(* effect's cancelled flag orders their answers.                           *)
LoadsForward == ghost'.seen >= ghost.seen

(* The effect that loads the profile has a run whose answer still counts.  *)
Loading == \E l \in 1..MaxLoads : loads[l].live

(* "Dein GaiaCOM Profil wurde lokal und im Trust-Profil aktualisiert." -   *)
(* when nothing is under way any more the local profile is the one saved.  *)
SavedShown == Quiet /\ ghost.told = "saved" => stored = ghost.p

(* "Dein Anzeigename und Avatar bleiben lokal steuerbar." - the name       *)
(* chosen in the onboarding is kept.                                       *)
OnboardedKept == Quiet /\ ghost.told = "onboarded" => stored.name = ghost.p.name

-----------------------------------------------------------------------------
(* Two sections of the profile pane.  Privacy: the switch for anonymous       *)
(* statistics, stored by the node and shown from the user of the page         *)
(* (useProfileActions.handleUpdatePrivacySettings); its busy flag belongs to  *)
(* the pane and is lost when the pane is left.  Accessibility: display        *)
(* options kept in localStorage and applied to the document by an effect of   *)
(* the pane; text size, contrast and motion are one option here.              *)
CONSTANTS Requests,   \* slots for updates of the privacy setting in flight
          Displays,   \* values of the display options
          Standard,   \* the value of a fresh document
          MayLeave    \* whether the pane is left while an update is in flight

StandardAssumption == Standard \in Displays

VARIABLES
    allow,     \* the node's allow_anonymous_stats of the account
    shown,     \* allowAnonymousStats of the page's user
    pane,      \* the profile pane: open, its busy flag, its display options
    reqs,      \* updates in flight
    storedDisplay,    \* gaiacom_accessibility_preferences in localStorage
    applied,   \* the options in force in the document
    unsure     \* an answer was lost since the page was loaded

privacyVars == <<allow, shown, pane, reqs, storedDisplay, applied, unsure>>

NoReq == [st |-> "idle", val |-> FALSE, mine |-> FALSE]

PrivacyTypeOK ==
    /\ allow \in BOOLEAN
    /\ shown \in BOOLEAN
    /\ pane \in [open: BOOLEAN, busy: BOOLEAN, display: Displays]
    /\ reqs \in [Requests -> [st: {"idle", "sent", "updated", "served"}, val: BOOLEAN, mine: BOOLEAN]]
    /\ storedDisplay \in Displays
    /\ applied \in Displays
    /\ unsure \in BOOLEAN

PrivacyQuiet == \A r \in Requests : reqs[r].st = "idle"

\* Every request still in flight was sent by a pane that is gone.
Orphaned == [r \in Requests |-> [reqs[r] EXCEPT !.mine = FALSE]]

PrivacyInit ==
    /\ allow \in BOOLEAN
    /\ shown = allow
    /\ pane = [open |-> FALSE, busy |-> FALSE, display |-> Standard]
    /\ reqs = [r \in Requests |-> NoReq]
    /\ storedDisplay = Standard
    /\ applied = Standard
    /\ unsure = FALSE

-----------------------------------------------------------------------------
\* The pane reads the stored options, and its effect applies them.
OpenProfile ==
    /\ ~pane.open
    /\ pane' = [open |-> TRUE, busy |-> FALSE, display |-> storedDisplay]
    /\ applied' = storedDisplay
    /\ UNCHANGED <<allow, shown, reqs, storedDisplay, unsure>>

LeaveProfile ==
    /\ pane.open
    /\ MayLeave \/ PrivacyQuiet
    /\ pane' = [open |-> FALSE, busy |-> FALSE, display |-> Standard]
    /\ reqs' = Orphaned
    /\ UNCHANGED <<allow, shown, storedDisplay, applied, unsure>>

\* The page is loaded again: the user comes from the node's status answer.
Reload ==
    /\ MayLeave \/ PrivacyQuiet
    /\ pane' = [open |-> FALSE, busy |-> FALSE, display |-> Standard]
    /\ shown' = allow
    /\ applied' = Standard
    /\ unsure' = FALSE
    /\ reqs' = [r \in Requests |-> NoReq]
    /\ UNCHANGED <<allow, storedDisplay>>

\* The select and the switches of the section report changes.
Offered(d) == pane.open /\ d # pane.display

\* The effect applies the options, and stores them unless storage is full.
UpdateAccessibilityPreference(d) ==
    /\ Offered(d)
    /\ pane' = [pane EXCEPT !.display = d]
    /\ applied' = d
    /\ storedDisplay' \in {storedDisplay, d}
    /\ UNCHANGED <<allow, shown, reqs, unsure>>

\* What a click on the switch asks for.
Switched == ~shown

SubmitAnonymousStatsPreference(r) ==
    /\ pane.open /\ ~pane.busy
    /\ reqs[r].st = "idle"
    /\ pane' = [pane EXCEPT !.busy = TRUE]
    /\ reqs' = [reqs EXCEPT ![r] = [st |-> "sent", val |-> Switched, mine |-> TRUE]]
    /\ UNCHANGED <<allow, shown, storedDisplay, applied, unsure>>

UpdateAnonymousStats(r) ==
    /\ reqs[r].st = "sent"
    /\ allow' = reqs[r].val
    /\ reqs' = [reqs EXCEPT ![r].st = "updated"]
    /\ UNCHANGED <<shown, pane, storedDisplay, applied, unsure>>

\* The node answers with the user it reads after the update.
FindUser(r) ==
    /\ reqs[r].st = "updated"
    /\ reqs' = [reqs EXCEPT ![r].st = "served", ![r].val = allow]
    /\ UNCHANGED <<allow, shown, pane, storedDisplay, applied, unsure>>

\* The end of an update frees the pane that sent it.
Freed(r) == IF reqs[r].mine THEN [pane EXCEPT !.busy = FALSE] ELSE pane

HandleUpdatePrivacySettings(r) ==
    /\ reqs[r].st = "served"
    /\ shown' = reqs[r].val
    /\ pane' = Freed(r)
    /\ reqs' = [reqs EXCEPT ![r] = NoReq]
    /\ UNCHANGED <<allow, storedDisplay, applied, unsure>>

PrivacyUpdateFails(r) ==
    /\ reqs[r].st # "idle"
    /\ pane' = Freed(r)
    /\ unsure' = (unsure \/ reqs[r].st # "sent")
    /\ reqs' = [reqs EXCEPT ![r] = NoReq]
    /\ UNCHANGED <<allow, shown, storedDisplay, applied>>

PrivacyNext ==
    \/ OpenProfile
    \/ LeaveProfile
    \/ Reload
    \/ \E d \in Displays : UpdateAccessibilityPreference(d)
    \/ \E r \in Requests :
          \/ SubmitAnonymousStatsPreference(r)
          \/ UpdateAnonymousStats(r)
          \/ FindUser(r)
          \/ HandleUpdatePrivacySettings(r)
          \/ PrivacyUpdateFails(r)

-----------------------------------------------------------------------------
(* Properties. *)

\* An account shown as opted out of the statistics is opted out, once every
\* change has been answered.
OptOutTrue == PrivacyQuiet /\ ~unsure /\ ~shown => ~allow

\* Display options stored on this device that differ from the standard are in
\* force in GaiaCom, whether the profile is open or not.
OptionsInForce == storedDisplay # Standard => applied # Standard \/ pane.open

-----------------------------------------------------------------------------
vars == <<profileVars, privacyVars>>

Init == ProfileInit /\ PrivacyInit

Next ==
  \/ ProfileNext /\ UNCHANGED privacyVars
  \/ PrivacyNext /\ UNCHANGED profileVars

Spec == Init /\ [][Next]_vars
=============================================================================
