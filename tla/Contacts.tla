------------------------------ MODULE Contacts ------------------------------
(***************************************************************************)
(* The contacts of one account and the keys pinned for them: the list in   *)
(* the page, its copy in localStorage, the rows the node keeps, the open   *)
(* chat's own copy of its contact, and the warning that asks the person    *)
(* before a changed key is accepted (utils/useContactActions.js,           *)
(* utils/contacts.js, utils/keyHistory.js, hooks/useKeyChangeDetection.js, *)
(* App.jsx verifyRecipientsAndRun, hooks/useEmails.js, ListPane.jsx).      *)
(*                                                                         *)
(* The key of a peer in the directory changes when the peer starts over;   *)
(* keys are numbered.  Requests under way are tasks.  The check of the     *)
(* open chat's key is restarted by every change of what it depends on, so  *)
(* only its answer is a step.                                              *)
(***************************************************************************)
EXTENDS Naturals, Sequences, FiniteSets, TLC

CONSTANTS Peers, NoPeer,
          PqCapable,     \* the peers that publish an ML-DSA-87 key
          Recipients,    \* the lists of recipients messages are sent to
          Others,        \* other accounts of the node save contacts too
          MaxKey, MaxTasks, MaxReloads, MaxOps

ContactsAssumption ==
  /\ NoPeer \notin Peers /\ PqCapable \subseteq Peers /\ Recipients \subseteq Seq(Peers)
  /\ Others \in BOOLEAN /\ {MaxKey, MaxTasks, MaxReloads, MaxOps} \subseteq Nat

VARIABLES dir, server, contacts, cache, active, profile, checked, looked, warning, tasks, ops, ghost

vars == <<dir, server, contacts, cache, active, profile, checked, looked, warning, tasks, ops, ghost>>

Keys == 1..MaxKey
\* publicKey, the keys of keyHistory, blocked, and whether mldsa87Public is known.
Contact == [key : Keys, hist : SUBSET Keys, blocked : BOOLEAN, pq : BOOLEAN]
Blank == [key |-> 1, hist |-> {1}, blocked |-> FALSE, pq |-> FALSE]
Empty == [p \in {} |-> Blank]
NoRow == [owner |-> "none", key |-> 1, blocked |-> FALSE]
NoChat == [p |-> NoPeer, rec |-> Blank]
NoWarning == [kind |-> "none", p |-> NoPeer, old |-> 1, new |-> 1, rec |-> Blank, base |-> Empty]
Idle == [k |-> "idle", p |-> NoPeer, rec |-> Blank, base |-> Empty, rs |-> <<>>]
Kinds == {"idle", "load", "lookup", "ask", "add", "search", "send", "block", "profileblock"}

\* The one type invariant: the history of a contact has the key that is pinned.
TypeOK ==
  /\ dir \in [Peers -> Keys]
  /\ \A p \in Peers : server[p].owner \in {"none", "me", "other"} /\ server[p].key \in Keys
  /\ \A l \in {contacts, cache} : \A p \in DOMAIN l : l[p] \in Contact /\ l[p].key \in l[p].hist
  /\ \A c \in {active, profile} : c.p \in Peers \union {NoPeer} /\ c.rec \in Contact
  /\ looked \subseteq Peers /\ warning.kind \in {"none", "chat", "send"}
  /\ \A t \in 1..MaxTasks : tasks[t].k \in Kinds
  /\ ops \in 0..MaxOps

Init ==
  /\ dir = [p \in Peers |-> 1] /\ server = [p \in Peers |-> NoRow]
  /\ contacts = Empty /\ cache = Empty /\ active = NoChat /\ profile = NoChat
  /\ checked = <<NoPeer, 0>> /\ looked = {} /\ warning = NoWarning
  /\ tasks = [t \in 1..MaxTasks |-> IF t = 1 THEN [Idle EXCEPT !.k = "load"] ELSE Idle]
  /\ ops = 0
  /\ ghost = [accepted |-> [p \in Peers |-> {}], swapped |-> FALSE, overlap |-> FALSE,
              dropped |-> FALSE, replaced |-> FALSE,
              wish |-> [p \in {} |-> FALSE], wrong |-> FALSE, reloads |-> 0]

\* The warning covers the page, and so does the profile of a contact.
KeyChangeWarningModal == warning # NoWarning
ContactProfileModal == profile # NoChat
\* The profile offers to block only the contact of the open chat.
ShowActiveChatActions == ContactProfileModal /\ profile.p = active.p
MainPage == ~KeyChangeWarningModal /\ ~ContactProfileModal

Busy == {t \in 1..MaxTasks : tasks[t].k # "idle"}

\* A request starts with the contacts of the render it was started from.
Start(k, p, rec, rs) ==
  /\ Cardinality(Busy) < MaxTasks /\ ops < MaxOps
  /\ ops' = ops + 1
  /\ LET t == CHOOSE s \in 1..MaxTasks : s \notin Busy IN
     tasks' = [tasks EXCEPT ![t] = [k |-> k, p |-> p, rec |-> rec, base |-> contacts, rs |-> rs]]
Ends(t) == tasks' = [tasks EXCEPT ![t] = Idle]
Overlapping == [ghost EXCEPT !.overlap = @ \/ Busy # {} \/ warning # NoWarning]

\* The list is set and written to localStorage.
SetContacts(l) == contacts' = l /\ cache' = l
With(l, p, rec) == [q \in DOMAIN l \union {p} |-> IF q = p THEN rec ELSE l[q]]
Mapped(l, p, rec) == IF p \in DOMAIN l THEN [l EXCEPT ![p] = rec] ELSE l

\* A contact made from the public identity of p.
Discovered(p) == [key |-> dir[p], hist |-> {dir[p]}, blocked |-> FALSE, pq |-> FALSE]

\* buildInitialKeyHistory, appendKeyHistory: the key is added to the history.
AppendKeyHistory(rec, key) == [rec EXCEPT !.key = key, !.hist = @ \union {key}]

\* SaveMailContact: the row of a peer is inserted, or updated whoever owns it.
Saved(p, who, key, blocked) ==
  [server EXCEPT ![p] = [owner |-> IF @.owner = "none" THEN who ELSE @.owner,
                         key |-> key, blocked |-> blocked]]

\* The keys the person has accepted: the first key of a new contact, and confirmed
\* ones.  A list l that pins another key is noted.
Accepts(g, p, key) == [g EXCEPT !.accepted[p] = @ \union {key}]
Noted(g, l) ==
  [g EXCEPT !.swapped = @ \/ \E p \in DOMAIN l : l[p].key \notin g.accepted[p],
            !.dropped = @ \/ \E p \in DOMAIN l \cap DOMAIN g.wish : l[p].blocked # g.wish[p]]

-----------------------------------------------------------------------------
(* Loading the contacts of the account.                                     *)

\* mergeContactRecords: the node's row wins, and its key is added to the history.
MergeContactRecords(cached) ==
  LET mine == {p \in Peers : server[p].owner = "me"} IN
  [p \in DOMAIN cached \union mine |->
     IF p \notin mine THEN cached[p]
     ELSE LET c == IF p \in DOMAIN cached THEN cached[p] ELSE [Blank EXCEPT !.hist = {}] IN
          [AppendKeyHistory(c, server[p].key) EXCEPT !.blocked = server[p].blocked]]

LoadReturns(t) ==
  /\ tasks[t].k = "load"
  /\ LET l == MergeContactRecords(tasks[t].base) IN
     SetContacts(l) /\ ghost' = Noted(ghost, l)
  /\ Ends(t) /\ UNCHANGED <<dir, profile, server, active, checked, looked, warning, ops>>

\* The page is loaded again: the contacts of localStorage until the node answers.
Reload ==
  /\ ghost.reloads < MaxReloads
  /\ contacts' = cache /\ active' = NoChat /\ profile' = NoChat /\ checked' = <<NoPeer, 0>> /\ looked' = {}
  /\ warning' = NoWarning
  /\ tasks' = [t \in 1..MaxTasks |-> IF t = 1 THEN [Idle EXCEPT !.k = "load", !.base = cache] ELSE Idle]
  /\ ghost' = [ghost EXCEPT !.reloads = @ + 1]
  /\ UNCHANGED <<dir, server, cache, ops>>

-----------------------------------------------------------------------------
(* New contacts.                                                            *)

\* fetchOrGetSenderPubKeys, when a message of p is decrypted: nothing is asked for if
\* the contact has both keys, or if p was asked for before in this session.
FetchSenderPubKeys(p) ==
  /\ ~(p \in DOMAIN contacts /\ contacts[p].pq) /\ p \notin looked
  /\ Start("lookup", p, Blank, <<>>) /\ looked' = looked \union {p}
  /\ ghost' = Overlapping
  /\ UNCHANGED <<dir, profile, server, contacts, cache, active, checked, warning>>

\* The answer: the contact is replaced by one made from the public identity, in the
\* list and (unless that request fails) at the node.
LookupReturns(t) ==
  /\ tasks[t].k = "lookup"
  /\ LET p == tasks[t].p
         rec == [Discovered(p) EXCEPT !.pq = p \in PqCapable]
         l == With(contacts, p, rec)
         g == IF p \in DOMAIN contacts THEN [ghost EXCEPT !.replaced = TRUE]
              ELSE Accepts(ghost, p, rec.key)
     IN /\ SetContacts(l) /\ ghost' = Noted(g, l)
        /\ server' \in {server, Saved(p, "me", rec.key, FALSE)}
  /\ Ends(t) /\ UNCHANGED <<dir, profile, active, checked, looked, warning, ops>>

\* handleDiscoverSubmit finds the peer and addDiscoveredContact is pressed: a key other
\* than the pinned one is asked about first.
AddDiscoveredContact(p) ==
  /\ MainPage
  /\ LET other == p \in DOMAIN contacts /\ contacts[p].key # dir[p] IN
     /\ Start(IF other THEN "ask" ELSE "add", p,
              IF other THEN [AppendKeyHistory(contacts[p], dir[p]) EXCEPT !.blocked = FALSE, !.pq = FALSE]
                       ELSE Discovered(p), <<>>)
     /\ ghost' = IF p \in DOMAIN contacts THEN Overlapping ELSE Accepts(Overlapping, p, dir[p])
  /\ UNCHANGED <<dir, profile, server, contacts, cache, active, checked, looked, warning>>

\* The question is answered.
AcceptDiscovered(t) ==
  /\ tasks[t].k = "ask"
  /\ tasks' = [tasks EXCEPT ![t].k = "add"]
  /\ ghost' = Accepts(ghost, tasks[t].p, tasks[t].rec.key)
  /\ UNCHANGED <<dir, profile, server, contacts, cache, active, checked, looked, warning, ops>>

\* saveContact: the node has the row; the list is the one of the click with the contact.
AddReturns(t) ==
  /\ tasks[t].k = "add"
  /\ LET l == With(tasks[t].base, tasks[t].p, tasks[t].rec) IN
     /\ SetContacts(l)
     /\ ghost' = Noted([ghost EXCEPT !.wish = (tasks[t].p :> FALSE) @@ @], l)
     /\ server' = Saved(tasks[t].p, "me", tasks[t].rec.key, FALSE)
  /\ Ends(t) /\ UNCHANGED <<dir, profile, active, checked, looked, warning, ops>>

\* The form above the chats: an unknown peer becomes a contact, a known one is opened
\* with the record just fetched.
SearchChat(p) ==
  /\ MainPage /\ Start("search", p, Blank, <<>>) /\ ghost' = Overlapping
  /\ UNCHANGED <<dir, profile, server, contacts, cache, active, checked, looked, warning>>

SearchReturns(t) ==
  /\ tasks[t].k = "search"
  /\ LET p == tasks[t].p
         new == Discovered(p)
     IN /\ active' = [p |-> p, rec |-> new]
        /\ IF p \in DOMAIN tasks[t].base
           THEN UNCHANGED <<contacts, cache, server, ghost>>
           ELSE LET l == With(tasks[t].base, p, new) IN
                /\ SetContacts(l)
                /\ ghost' = Noted(IF p \in DOMAIN contacts THEN ghost ELSE Accepts(ghost, p, new.key), l)
                /\ server' = Saved(p, "me", new.key, FALSE)
  /\ Ends(t) /\ UNCHANGED <<dir, profile, checked, looked, warning, ops>>

-----------------------------------------------------------------------------
(* The open chat and the check of its key.                                  *)

OpenChat(p) ==
  /\ p \in DOMAIN contacts /\ MainPage /\ ops < MaxOps /\ ops' = ops + 1
  /\ active' = [p |-> p, rec |-> contacts[p]] /\ checked' = <<NoPeer, 0>>
  /\ UNCHANGED <<dir, profile, server, contacts, cache, looked, warning, tasks, ghost>>

\* useKeyChangeDetection: the directory answers for the open chat.  The known key is
\* the one of the contact in the list, or else of the chat's copy.
VerifyActiveChatKey ==
  /\ active # NoChat
  /\ LET p == active.p
         base == IF p \in DOMAIN contacts THEN contacts[p] ELSE active.rec
     IN /\ checked # <<p, base.key>> /\ warning.p # p
        /\ IF dir[p] = base.key
           THEN LET rec == AppendKeyHistory(base, base.key) IN
                /\ SetContacts(Mapped(contacts, p, rec)) /\ active' = [p |-> p, rec |-> rec]
                /\ checked' = <<p, base.key>> /\ UNCHANGED <<warning, ghost>>
           ELSE /\ warning' = [kind |-> "chat", p |-> p, old |-> base.key, new |-> dir[p],
                               rec |-> base, base |-> contacts]
                /\ ghost' = Overlapping /\ UNCHANGED <<contacts, cache, active, checked>>
  /\ UNCHANGED <<dir, profile, server, looked, tasks, ops>>

\* The request fails: the key counts as checked.
VerifyFails ==
  /\ active # NoChat /\ warning.p # active.p
  /\ checked' = <<active.p, IF active.p \in DOMAIN contacts THEN contacts[active.p].key ELSE active.rec.key>>
  /\ checked' # checked
  /\ UNCHANGED <<dir, profile, server, contacts, cache, active, looked, warning, tasks, ops, ghost>>

-----------------------------------------------------------------------------
(* Sending.                                                                 *)

\* A message is sent: the public identities of its recipients are fetched.
Send(rs) ==
  /\ MainPage /\ Start("send", NoPeer, Blank, rs) /\ ghost' = Overlapping
  /\ UNCHANGED <<dir, profile, server, contacts, cache, active, checked, looked, warning>>

Changed(base, rs) == {i \in DOMAIN rs : rs[i] \in DOMAIN base /\ base[rs[i]].key # dir[rs[i]]}

\* Whether the message went to a contact under a key that was not accepted.
Unaccepted(base, rs) == \E i \in DOMAIN rs : rs[i] \in DOMAIN base /\ dir[rs[i]] \notin ghost.accepted[rs[i]]

\* Deviant: only the first recipient is checked.
VerifyFirst(t) ==
  /\ tasks[t].k = "send" /\ 1 \notin Changed(tasks[t].base, tasks[t].rs)
  /\ ghost' = [ghost EXCEPT !.wrong = @ \/ Unaccepted(tasks[t].base, tasks[t].rs)]
  /\ Ends(t) /\ UNCHANGED <<dir, profile, server, contacts, cache, active, checked, looked, warning, ops>>

\* verifyRecipientsAndRun, with the contacts of the render the message was sent from:
\* the first recipient whose key is not the pinned one raises the warning, and
\* otherwise the message is encrypted and goes out.
VerifyRecipientsAndRun(t) ==
  /\ tasks[t].k = "send"
  /\ LET base == tasks[t].base
         rs == tasks[t].rs
         bad == Changed(base, rs)
     IN IF bad = {}
        THEN /\ ghost' = [ghost EXCEPT !.wrong = @ \/ Unaccepted(base, rs)]
             /\ UNCHANGED warning
        ELSE /\ LET i == CHOOSE j \in bad : \A k \in bad : j <= k IN
                warning' = [kind |-> "send", p |-> rs[i], old |-> base[rs[i]].key, new |-> dir[rs[i]],
                            rec |-> base[rs[i]], base |-> base]
             /\ ghost' = [ghost EXCEPT !.overlap = @ \/ Busy # {t} \/ warning # NoWarning]
  /\ Ends(t) /\ UNCHANGED <<dir, profile, server, contacts, cache, active, checked, looked, ops>>

\* resumeFn, offered once the last six characters of the new key are typed: the list of
\* the warning's render with the new key replaces the contacts.  A send is verified
\* again with that same list, which still has the old key.
ConfirmWarning ==
  /\ KeyChangeWarningModal
  /\ LET w == warning
         rec == AppendKeyHistory(w.rec, w.new)
         l == Mapped(w.base, w.p, rec)
     IN /\ SetContacts(l) /\ ghost' = Noted(Accepts(ghost, w.p, w.new), l)
        /\ IF w.kind = "chat"
           THEN active' = [p |-> w.p, rec |-> rec] /\ checked' = <<w.p, w.new>> /\ warning' = NoWarning
           ELSE UNCHANGED <<active, checked, warning>>
  /\ UNCHANGED <<dir, profile, server, looked, tasks, ops>>

\* cancelFn: the message is not sent; the chat is closed.
CancelWarning ==
  /\ KeyChangeWarningModal /\ warning' = NoWarning
  /\ active' = IF warning.kind = "chat" THEN NoChat ELSE active
  /\ UNCHANGED <<dir, profile, server, contacts, cache, checked, looked, tasks, ops, ghost>>

-----------------------------------------------------------------------------
(* Blocking.                                                                *)

\* toggleBlockContact, in the menu of the chat, with the chat's copy of the contact.
ToggleBlockContact ==
  /\ active # NoChat /\ MainPage
  /\ Start("block", active.p, [active.rec EXCEPT !.blocked = ~@], <<>>) /\ ghost' = Overlapping
  /\ UNCHANGED <<dir, profile, server, contacts, cache, active, checked, looked, warning>>

\* openContactProfile: a copy of the contact, or the public identity of the peer.
OpenContactProfile(p) ==
  /\ MainPage
  /\ profile' = [p |-> p, rec |-> IF p \in DOMAIN contacts THEN contacts[p] ELSE Discovered(p)]
  /\ UNCHANGED <<dir, server, contacts, cache, active, checked, looked, warning, tasks, ops, ghost>>

CloseContactProfile ==
  /\ ContactProfileModal /\ profile' = NoChat
  /\ UNCHANGED <<dir, server, contacts, cache, active, checked, looked, warning, tasks, ops, ghost>>

\* handleToggleContactBlock, with the contact in the list or else the profile.
HandleToggleContactBlock ==
  /\ ShowActiveChatActions /\ ~KeyChangeWarningModal
  /\ LET p == profile.p
         rec == IF p \in DOMAIN contacts THEN contacts[p] ELSE profile.rec
     IN Start("profileblock", p, [rec EXCEPT !.blocked = ~@], <<>>)
  /\ ghost' = Overlapping
  /\ UNCHANGED <<dir, server, profile, contacts, cache, active, checked, looked, warning>>

\* The node has stored the row.  The first function puts its copy in the list, the
\* second sets the field.
BlockReturns(t) ==
  /\ tasks[t].k \in {"block", "profileblock"}
  /\ LET p == tasks[t].p
         rec == tasks[t].rec
         l == IF p \notin DOMAIN contacts THEN contacts
              ELSE IF tasks[t].k = "block" THEN [contacts EXCEPT ![p] = rec]
              ELSE [contacts EXCEPT ![p].blocked = rec.blocked]
         g == [ghost EXCEPT !.wish = (p :> rec.blocked) @@ @]
     IN /\ SetContacts(l) /\ ghost' = Noted(g, l)
        /\ server' = Saved(p, "me", rec.key, rec.blocked)
        /\ active' = IF tasks[t].k = "block" THEN [p |-> p, rec |-> rec]
                     ELSE IF active.p = p THEN [active EXCEPT !.rec.blocked = rec.blocked] ELSE active
        /\ profile' = IF tasks[t].k = "profileblock" /\ profile.p = p THEN [profile EXCEPT !.rec = rec] ELSE profile
  /\ Ends(t) /\ UNCHANGED <<dir, checked, looked, warning, ops>>

-----------------------------------------------------------------------------
\* A request fails, or the question is answered with no: nothing changes.
Fails(t) ==
  /\ tasks[t].k # "idle" /\ Ends(t)
  /\ UNCHANGED <<dir, profile, server, contacts, cache, active, checked, looked, warning, ops, ghost>>

\* A peer publishes a new key.
PeerChangesKey(p) ==
  /\ dir[p] < MaxKey /\ dir' = [dir EXCEPT ![p] = @ + 1]
  /\ UNCHANGED <<server, profile, contacts, cache, active, checked, looked, warning, tasks, ops, ghost>>

\* Another account of the node saves p as a contact.
OtherAccountSaves(p, blocked) ==
  /\ Others /\ server[p].owner # "other" /\ server' = Saved(p, "other", dir[p], blocked)
  /\ UNCHANGED <<dir, profile, contacts, cache, active, checked, looked, warning, tasks, ops, ghost>>

Next ==
  \/ Reload \/ VerifyActiveChatKey \/ VerifyFails \/ ConfirmWarning \/ CancelWarning
  \/ ToggleBlockContact \/ HandleToggleContactBlock \/ CloseContactProfile
  \/ \E rs \in Recipients : Send(rs)
  \/ \E p \in Peers : \/ FetchSenderPubKeys(p) \/ AddDiscoveredContact(p) \/ SearchChat(p)
                      \/ OpenChat(p) \/ OpenContactProfile(p) \/ PeerChangesKey(p)
                      \/ \E b \in BOOLEAN : OtherAccountSaves(p, b)
  \/ \E t \in 1..MaxTasks :
       \/ LoadReturns(t) \/ LookupReturns(t) \/ AcceptDiscovered(t) \/ AddReturns(t)
       \/ SearchReturns(t) \/ VerifyRecipientsAndRun(t) \/ BlockReturns(t) \/ Fails(t)

Spec == Init /\ [][Next]_vars

-----------------------------------------------------------------------------
(* Properties.                                                              *)

\* However checks, warnings, reloads and requests are ordered: as long as every pinned
\* key was accepted (see KeyChangeAsked), no message goes to a contact under a key the
\* person has not accepted (verifyRecipientsAndRun looks at every recipient).
SentAccepted == ~ghost.swapped => ~ghost.wrong

\* Without overlapping requests, other accounts of the node and the answer of a lookup of
\* a known sender: what the person was told of a contact being blocked stays true in the
\* list, after checks, confirmed keys and reloads too (handleToggleContactBlock,
\* toggleBlockContact, mergeContactRecords).
BlockStored == ~ghost.overlap /\ ~Others /\ ~ghost.replaced => ~ghost.dropped

\* Claim: a changed key of a contact is accepted only after a warning.
KeyChangeAsked == ~ghost.overlap => ~ghost.swapped

\* Claim: the warning is shown for a key that has changed.
WarningTrue ==
  ~ghost.overlap /\ warning.kind = "send" /\ warning.p \in DOMAIN contacts
    => contacts[warning.p].key # warning.new

\* Claim: a contact stays blocked for this account.
BlockKept == ~ghost.overlap => ~ghost.dropped
\* Claim: whether a contact is blocked is this account's own setting.
BlockOfAccount == ~ghost.overlap /\ ~ghost.replaced => ~ghost.dropped
=============================================================================
