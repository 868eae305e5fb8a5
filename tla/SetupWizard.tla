----------------------------- MODULE SetupWizard -----------------------------
(* The assistant that makes the first identity of an account: the steps of    *)
(* SetupWizard.jsx (terms, recovery words, address, two closing pages), the   *)
(* registration of the address (useGaiaAuth.handleWizardRegisterIdentity),    *)
(* the list of identities that decides whether it is shown                    *)
(* (App.jsx fetchIdentities), and the node's CreateIdentity.  The wizard's    *)
(* step and answers live in the page and outlast a sign-out; only the boxes   *)
(* of the terms are lost with the component.  The language, the domain, the   *)
(* fallback nodes and the keys are left out.                                  *)
EXTENDS Naturals, FiniteSets

CONSTANTS Accounts, Names, Fetches, Creates, None,
          MayFail    \* whether a load of the identities may fail

NoneAssumption == None \notin Accounts \cup Names

\* The node allows an account that many identities.
Limit == 2

VARIABLES
    owner,       \* address -> the account it is registered to, or None
    known,       \* accounts that exist
    who,         \* the account in session, or None
    wiz,         \* the wizard
    identities,  \* the list on the page
    fetches,     \* loads of the identities in flight
    creates,     \* registrations in flight
    agreed       \* accounts whose user has checked every box of the terms

vars == <<owner, known, who, wiz, identities, fetches, creates, agreed>>

NoFetch == [st |-> "idle", for |-> None, val |-> {}]
NoCreate == [st |-> "idle", for |-> None, name |-> None]

OwnedBy(a) == {n \in Names : owner[n] = a}

TypeOK ==
    /\ owner \in [Names -> Accounts \cup {None}]
    /\ known \subseteq Accounts
    /\ who \in known \cup {None}
    /\ wiz \in [show: BOOLEAN, step: 1..5, boxes: BOOLEAN, copied: BOOLEAN, name: Names]
    /\ identities \subseteq Names
    /\ fetches \in [Fetches -> [st: {"idle", "sent", "served"}, for: known \cup {None},
                                val: SUBSET Names]]
    /\ creates \in [Creates -> [st: {"idle", "sent", "checked", "stored"},
                                for: known \cup {None}, name: Names \cup {None}]]
    /\ agreed \subseteq known

Init ==
    /\ known \in SUBSET Accounts
    /\ owner \in [Names -> known \cup {None}]
    /\ \A a \in known : Cardinality(OwnedBy(a)) <= 1
    /\ who = None
    /\ wiz \in [show: {FALSE}, step: {1}, boxes: {FALSE}, copied: {FALSE}, name: Names]
    /\ identities = {}
    /\ fetches = [f \in Fetches |-> NoFetch]
    /\ creates = [c \in Creates |-> NoCreate]
    /\ agreed = {a \in known : OwnedBy(a) # {}}

-----------------------------------------------------------------------------
(* The session, and the list of identities. *)

FetchIdentities(f, w) ==
    /\ fetches[f].st = "idle"
    /\ fetches' = [fetches EXCEPT ![f] = [NoFetch EXCEPT !.st = "sent", !.for = w]]

\* handleAuthSubmit of a new account: the wizard begins anew and is shown.
Register(a, f) ==
    /\ who = None /\ a \notin known
    /\ known' = known \cup {a}
    /\ who' = a
    /\ \E n \in Names : wiz' = [show |-> TRUE, step |-> 1, boxes |-> FALSE, copied |-> FALSE,
                                name |-> n]
    /\ FetchIdentities(f, a)
    /\ UNCHANGED <<owner, identities, creates, agreed>>

LogIn(a, f) ==
    /\ who = None /\ a \in known
    /\ who' = a
    /\ FetchIdentities(f, a)
    /\ UNCHANGED <<owner, known, wiz, identities, creates, agreed>>

\* From the main view, or from the lock screen that may cover the wizard.
SignOut ==
    /\ who # None
    /\ who' = None
    /\ identities' = {}
    /\ wiz' = [wiz EXCEPT !.boxes = FALSE]
    /\ UNCHANGED <<owner, known, fetches, creates, agreed>>

\* Locked and unlocked: the components are made anew, the user is set again.
LockUnlock(f) ==
    /\ who # None
    /\ FetchIdentities(f, who)
    /\ wiz' = [wiz EXCEPT !.boxes = FALSE]
    /\ UNCHANGED <<owner, known, who, identities, creates, agreed>>

GetMyIdentities(f) ==
    /\ fetches[f].st = "sent"
    /\ fetches' = [fetches EXCEPT ![f].st = "served", ![f].val = OwnedBy(fetches[f].for)]
    /\ UNCHANGED <<owner, known, who, wiz, identities, creates, agreed>>

\* An empty list shows the wizard, at the step it was left.
IdentitiesListed(f) ==
    /\ fetches[f].st = "served"
    /\ identities' = fetches[f].val
    /\ wiz' = IF fetches[f].val = {} THEN [wiz EXCEPT !.show = TRUE] ELSE wiz
    /\ fetches' = [fetches EXCEPT ![f] = NoFetch]
    /\ UNCHANGED <<owner, known, who, creates, agreed>>

FetchFails(f) ==
    /\ MayFail
    /\ fetches[f].st # "idle"
    /\ fetches' = [fetches EXCEPT ![f] = NoFetch]
    /\ UNCHANGED <<owner, known, who, wiz, identities, creates, agreed>>

-----------------------------------------------------------------------------
(* The wizard. *)

InWizard == who # None /\ wiz.show

CheckBoxes ==
    /\ InWizard /\ wiz.step = 1
    /\ \E all \in BOOLEAN :
          /\ wiz' = [wiz EXCEPT !.boxes = all]
          /\ agreed' = IF all THEN agreed \cup {who} ELSE agreed
    /\ UNCHANGED <<owner, known, who, identities, fetches, creates>>

\* Deviant: Weiter is not disabled while boxes are unchecked.
StepUnread(from, to) ==
    \/ from = 1 /\ to = 2
    \/ from = 2 /\ to = 3 /\ wiz.copied
    \/ from = 4 /\ to = 5
    \/ from > 1 /\ to = from - 1

\* The buttons of each step: Weiter where it is enabled, and Zurueck.
Offered(from, to) ==
    \/ from = 1 /\ to = 2 /\ wiz.boxes
    \/ from = 2 /\ to = 3 /\ wiz.copied
    \/ from = 4 /\ to = 5
    \/ from > 1 /\ to = from - 1

OnStepChange(to) ==
    /\ InWizard
    /\ Offered(wiz.step, to) = TRUE
    /\ wiz' = [wiz EXCEPT !.step = to]
    /\ UNCHANGED <<owner, known, who, identities, fetches, creates, agreed>>

OnCopied ==
    /\ InWizard /\ wiz.step = 2
    /\ wiz' = [wiz EXCEPT !.copied = ~@]
    /\ UNCHANGED <<owner, known, who, identities, fetches, creates, agreed>>

OnGaiaUsername(n) ==
    /\ InWizard /\ wiz.step = 3 /\ n # wiz.name
    /\ wiz' = [wiz EXCEPT !.name = n]
    /\ UNCHANGED <<owner, known, who, identities, fetches, creates, agreed>>

\* The button is not disabled while a registration is in flight.
HandleWizardRegisterIdentity(c) ==
    /\ InWizard /\ wiz.step = 3
    /\ creates[c].st = "idle"
    /\ creates' = [creates EXCEPT ![c] = [st |-> "sent", for |-> who, name |-> wiz.name]]
    /\ UNCHANGED <<owner, known, who, wiz, identities, fetches, agreed>>

\* The address is registered: the wizard goes on, and the list is read again
\* for whoever is signed in.
IdentityRegistered(c) ==
    /\ creates[c].st = "stored"
    /\ creates' = [creates EXCEPT ![c] = NoCreate]
    /\ wiz' = [wiz EXCEPT !.step = 4]
    /\ IF who = None THEN UNCHANGED fetches ELSE \E f \in Fetches : FetchIdentities(f, who)
    /\ UNCHANGED <<owner, known, who, identities, agreed>>

\* Refused by the node or lost: the wizard shows the error.
RegistrationFails(c) ==
    /\ creates[c].st # "idle"
    /\ creates' = [creates EXCEPT ![c] = NoCreate]
    /\ UNCHANGED <<owner, known, who, wiz, identities, fetches, agreed>>

OnFinish ==
    /\ InWizard /\ wiz.step = 5
    /\ wiz' = [wiz EXCEPT !.show = FALSE]
    /\ UNCHANGED <<owner, known, who, identities, fetches, creates, agreed>>

\* The button of the sidebar, offered while no identity is listed.
OpenAssistant ==
    /\ who # None /\ ~wiz.show /\ identities = {}
    /\ wiz' = [wiz EXCEPT !.show = TRUE]
    /\ UNCHANGED <<owner, known, who, identities, fetches, creates, agreed>>

-----------------------------------------------------------------------------
(* The node's CreateIdentity: two reads, then the insertion. *)

CheckIdentity(c) ==
    /\ creates[c].st = "sent"
    /\ Cardinality(OwnedBy(creates[c].for)) < Limit
    /\ owner[creates[c].name] = None
    /\ creates' = [creates EXCEPT ![c].st = "checked"]
    /\ UNCHANGED <<owner, known, who, wiz, identities, fetches, agreed>>

\* Deviant: the column gaia_id is not UNIQUE.
InsertChecked(c) ==
    /\ creates[c].st = "checked"
    /\ owner' = [owner EXCEPT ![creates[c].name] = creates[c].for]
    /\ creates' = [creates EXCEPT ![c].st = "stored"]
    /\ UNCHANGED <<known, who, wiz, identities, fetches, agreed>>

\* gaia_id is UNIQUE.
InsertIdentity(c) ==
    /\ creates[c].st = "checked"
    /\ owner[creates[c].name] = None
    /\ owner' = [owner EXCEPT ![creates[c].name] = creates[c].for]
    /\ creates' = [creates EXCEPT ![c].st = "stored"]
    /\ UNCHANGED <<known, who, wiz, identities, fetches, agreed>>

-----------------------------------------------------------------------------
Next ==
    \/ \E a \in Accounts, f \in Fetches : Register(a, f) \/ LogIn(a, f)
    \/ SignOut
    \/ \E f \in Fetches :
          LockUnlock(f) \/ GetMyIdentities(f) \/ IdentitiesListed(f) \/ FetchFails(f)
    \/ CheckBoxes
    \/ \E to \in 1..5 : OnStepChange(to)
    \/ OnCopied
    \/ \E n \in Names : OnGaiaUsername(n)
    \/ \E c \in Creates :
          \/ HandleWizardRegisterIdentity(c)
          \/ CheckIdentity(c)
          \/ InsertIdentity(c)
          \/ IdentityRegistered(c)
          \/ RegistrationFails(c)
    \/ OnFinish
    \/ OpenAssistant

Spec == Init /\ [][Next]_vars

-----------------------------------------------------------------------------
(* Properties. *)

\* An address is registered only for an account whose user has checked every
\* box of the terms, whatever step the wizard was left at, locked at or
\* opened again at.
TermsFirst == \A n \in Names : owner[n] # None => owner[n] \in agreed

\* An account without an identity is signed in and is not offered the wizard.
Unoffered == who # None /\ OwnedBy(who) = {} /\ ~wiz.show

\* A registered address never changes hands, although the node looks for it
\* and inserts it in separate statements and registrations overlap.
NameKept == \A n \in Names : owner[n] # None => owner'[n] = owner[n]

\* An account has at most two identities.
IdentityLimit == \A a \in Accounts : Cardinality(OwnedBy(a)) <= Limit
=============================================================================
