----------------------------- MODULE Mailbox -----------------------------
(***************************************************************************)
(* The mails of a mailbox, and how a list of mails is grouped into threads. *)
(* The two have no state in common.                                        *)
(***************************************************************************)
EXTENDS Naturals, FiniteSets, Functions, TLC, Sequences, SequencesExt

-----------------------------------------------------------------------------
(***************************************************************************)
(* The state of the mails of one identity: the node's mailbox_states, the  *)
(* client's decrypted mails with the state each was last polled with       *)
(* (decryptedMailsCacheRef, whose objects the lists and the open thread    *)
(* share), the polls and the updates under way between them, and the       *)
(* filter rules, which the client runs (hooks/useEmails.js, App.jsx,       *)
(* ListPane.jsx, ReaderPane.jsx, Backend/repository/sql_store_mailbox.go). *)
(*                                                                         *)
(* Every update carries ALL fields of a mail, built from the client's copy *)
(* and a patch, and the node overwrites the row with it.  isImportant is   *)
(* handled as isStarred in every place and left out.                       *)
(***************************************************************************)
CONSTANTS Threads,     \* the threads of the list: disjoint sets of mails
          Latest,      \* the latest mail of each thread
          Labels,
          RuleMails,   \* the mails a filter rule (action "star") is made for
          MaxPolls, MaxWrites, \* requests under way at once
          MaxOps       \* changes the person makes

Mails == UNION Threads

ThreadsAssumption ==
  /\ {} \notin Threads
  /\ \A s, t \in Threads : s = t \/ s \cap t = {}
  /\ Latest \in [Threads -> Mails] /\ \A t \in Threads : Latest[t] \in t
  /\ RuleMails \subseteq Mails

VARIABLES rows, cache, polls, writes, rule, processed, sel, ops, ghost

boxVars == <<rows, cache, polls, writes, rule, processed, sel, ops, ghost>>

Folders == {"inbox", "archive", "trash", "spam", "snoozed"}
Row == [folder : Folders, read : BOOLEAN, star : BOOLEAN, spam : BOOLEAN,
        arch : BOOLEAN, snoozed : BOOLEAN, labels : SUBSET Labels]
NoRow == [folder |-> "none"]
Fresh == [folder |-> "inbox", read |-> FALSE, star |-> FALSE, spam |-> FALSE,
          arch |-> FALSE, snoozed |-> FALSE, labels |-> {}]
Nothing == [m \in {} |-> NoRow]
IdlePoll == [st |-> "idle", snap |-> Nothing]
IdleWrite == [st |-> "idle", by |-> "user", upd |-> Nothing]

\* The one type invariant: a copy is a whole row of a mail the node has, and an
\* update holds whole rows of mails the client has.
BoxTypeOK ==
  /\ rows \in [Mails -> Row \union {NoRow}] /\ cache \in [Mails -> Row \union {NoRow}]
  /\ \A m \in Mails : rows[m] = NoRow => cache[m] = NoRow
  /\ \A p \in 1..MaxPolls :
       /\ polls[p].st \in {"idle", "sent"}
       /\ \A m \in DOMAIN polls[p].snap : polls[p].snap[m] \in Row
  /\ \A w \in 1..MaxWrites :
       /\ writes[w].st \in {"idle", "sent", "stored"}
       /\ writes[w].by \in {"user", "filter", "read"}
       /\ writes[w].st = "sent" => writes[w].upd # Nothing
       /\ \A m \in DOMAIN writes[w].upd : writes[w].upd[m] \in Row /\ rows[m] # NoRow
  /\ rule \in BOOLEAN
  /\ processed \subseteq Mails /\ sel \in Threads \union {{}} /\ ops \in 0..MaxOps

BoxInit ==
  /\ rows = [m \in Mails |-> NoRow] /\ cache = [m \in Mails |-> NoRow]
  /\ polls = [p \in 1..MaxPolls |-> IdlePoll] /\ writes = [w \in 1..MaxWrites |-> IdleWrite]
  /\ rule = FALSE
  /\ processed = {} /\ sel = {} /\ ops = 0
  /\ ghost = [raced |-> FALSE, reset |-> FALSE, reloaded |-> FALSE, wish |-> Nothing,
              asked |-> FALSE, unseen |-> FALSE, due |-> {}, wiped |-> FALSE, pressed |-> {}, snoozed |-> {}]

-----------------------------------------------------------------------------
(* Updates.                                                                 *)

\* The client's own copy of a mail with some of its fields replaced.
Patched(m, patch) == [f \in DOMAIN cache[m] |-> IF f \in DOMAIN patch THEN patch[f] ELSE cache[m][f]]

\* UpsertMailboxStates: a mail in the archive is archived, whatever it says.
Normalized(row) == [row EXCEPT !.arch = @ \/ row.folder = "archive"]

\* An update of m is built while the client's copy is not what the node has, or
\* will have once the updates under way have arrived.
Outdated(m) == \/ cache[m] # rows[m]
               \/ \E w \in 1..MaxWrites : writes[w].st = "sent" /\ m \in DOMAIN writes[w].upd

\* api.updateMailboxStates in the first free slot.
Send(by, upd) ==
  \E w \in 1..MaxWrites :
    /\ writes[w].st = "idle" /\ \A v \in 1..w - 1 : writes[v].st # "idle"
    /\ writes' = [writes EXCEPT ![w] = [st |-> "sent", by |-> by, upd |-> upd]]

Known(t) == {m \in t : cache[m] # NoRow}

\* The person's last wish for each field of each mail, and what got in its way.
Wished(ms, patch) ==
  [ghost EXCEPT !.raced = @ \/ \E m \in ms : Outdated(m),
                !.wish = [m \in ms |-> patch @@ IF m \in DOMAIN @ THEN @[m] ELSE << >>] @@ @,
                !.pressed = IF "star" \in DOMAIN patch THEN @ \ ms ELSE @,
                !.snoozed = IF "snoozed" \in DOMAIN patch THEN @ \union ms ELSE @]

\* Deviant: only the patch is sent.
UpdatePatchOnly(ms, patch) ==
  /\ ops < MaxOps /\ ops' = ops + 1 /\ ms # {}
  /\ Send("user", [m \in ms |-> patch])
  /\ ghost' = Wished(ms, patch)

\* updateMailboxState and handleBulkAction: one request for all mails of the
\* thread.
UpdateMailboxState(ms, patch) ==
  /\ ops < MaxOps /\ ops' = ops + 1 /\ ms # {}
  /\ Send("user", [m \in ms |-> Patched(m, patch)])
  /\ ghost' = Wished(ms, patch)

OnlyUpdate == UNCHANGED <<rows, cache, polls, rule, processed>>

\* The reader's toolbar and the keyboard, on the open thread, which is left.
ArchivePatch == [folder |-> "archive", arch |-> TRUE]
TrashPatch == [folder |-> "trash"]
SpamPatch == [folder |-> "spam", spam |-> TRUE]
SnoozePatch == [folder |-> "snoozed", snoozed |-> TRUE]

Toolbar ==
  /\ sel # {} /\ sel' = {} /\ OnlyUpdate
  /\ \E patch \in {ArchivePatch, TrashPatch, SpamPatch, SnoozePatch} :
       UpdateMailboxState(Known(sel), patch)

\* The label menu reads selectedMail.mailbox, which a thread does not have: the
\* labels of all its mails are replaced by the one picked.
PickLabel(l) ==
  /\ sel # {} /\ UNCHANGED sel /\ OnlyUpdate
  /\ UpdateMailboxState(Known(sel), [labels |-> {l}])

\* The key "s" reads it too, and always adds a star.
StarKey ==
  /\ sel # {} /\ UNCHANGED <<rows, cache, polls, rule, processed, sel>>
  /\ ops < MaxOps /\ ops' = ops + 1 /\ Known(sel) # {}
  /\ Send("user", [m \in Known(sel) |-> Patched(m, [star |-> TRUE])])
  /\ ghost' = [Wished(Known(sel), [star |-> TRUE]) EXCEPT
       !.pressed = IF \A m \in Known(sel) : cache[m].star /\ ~Outdated(m)
                   THEN @ \union Known(sel) ELSE @]

\* A thread is starred when one of its mails is; the card's star is set on, or
\* taken from, its latest mail alone.
Starred(t) == \E m \in Known(t) : cache[m].star

StarCard(t) ==
  /\ cache[Latest[t]] # NoRow /\ UNCHANGED sel /\ OnlyUpdate
  /\ UpdateMailboxState({Latest[t]}, [star |-> ~Starred(t)])

\* The bulk bar; "archive" sets the folder alone and "spam" the flag alone.
BulkPatches == {[read |-> TRUE], [read |-> FALSE], [folder |-> "archive"],
                [folder |-> "trash"], [spam |-> TRUE], [star |-> TRUE], [star |-> FALSE]}

HandleBulkAction(t) ==
  /\ UNCHANGED sel /\ OnlyUpdate
  /\ \E patch \in BulkPatches : UpdateMailboxState(Known(t), patch)

\* Opening a thread marks its unread mails: a state of two fields, which the node
\* completes with its defaults.
ReadMark == [Fresh EXCEPT !.read = TRUE]

Unread(t) == {m \in Known(t) : ~cache[m].read}

OpenThread(t) ==
  /\ sel # t /\ Known(t) # {} /\ sel' = t
  /\ ops < MaxOps /\ ops' = ops + 1
  /\ IF Unread(t) = {} THEN UNCHANGED <<writes, ghost>>
     ELSE /\ Send("read", [m \in Unread(t) |-> ReadMark])
          /\ ghost' = [ghost EXCEPT !.reset = TRUE]
  /\ OnlyUpdate

\* The node takes an update ...
UpsertMailboxStates(w) ==
  /\ writes[w].st = "sent"
  /\ rows' = [m \in Mails |-> IF m \in DOMAIN writes[w].upd THEN Normalized(writes[w].upd[m])
                              ELSE rows[m]]
  /\ writes' = [writes EXCEPT ![w].st = "stored"]
  /\ ghost' = [ghost EXCEPT
       !.raced = @ \/ (writes[w].by = "filter" /\ \E m \in DOMAIN writes[w].upd :
                         \E v \in 1..MaxWrites \ {w} : writes[v].st = "sent" /\ m \in DOMAIN writes[v].upd),
       !.wiped = @ \/ (writes[w].by = "read" /\ \E m \in DOMAIN writes[w].upd :
                         rows[m] # [ReadMark EXCEPT !.read = rows[m].read])]
  /\ UNCHANGED <<cache, polls, rule, processed, sel, ops>>

\* ... and a poll follows the answer, unless it was a read mark.
Answered(w) ==
  /\ writes[w].st = "stored"
  /\ writes' = [writes EXCEPT ![w] = IdleWrite]
  /\ IF writes[w].by = "read" THEN UNCHANGED polls
     ELSE \E p \in 1..MaxPolls :
            /\ polls[p].st = "idle"
            /\ polls' = [polls EXCEPT ![p] =
                 [st |-> "sent", snap |-> Restrict(rows, {m \in Mails : rows[m] # NoRow})]]
  /\ UNCHANGED <<rows, cache, rule, processed, sel, ops, ghost>>

\* The request is lost: an alert for the person's own, silence for the others.
\* The optimistic copy in allMails only feeds the counters of unread mails.
WriteFails(w) ==
  /\ writes[w].st = "sent"
  /\ writes' = [writes EXCEPT ![w] = IdleWrite]
  /\ ghost' = [ghost EXCEPT !.wish = Restrict(@, DOMAIN @ \ DOMAIN writes[w].upd),
                            !.pressed = @ \ DOMAIN writes[w].upd]
  /\ UNCHANGED <<rows, cache, polls, rule, processed, sel, ops>>

-----------------------------------------------------------------------------
(* Polls and the filter rules.                                              *)

\* The fields of a rule the page sends, and those the node knows: the others are
\* not decoded, and the node refuses a rule without a condition or an action.
PageFields == {"triggerSender", "triggerSubject", "action", "actionLabel"}
NodeFields == {"senderContains", "subjectContains", "assignLabel", "targetFolder", "markImportant"}

Accepted(fields) ==
  /\ fields \cap NodeFields \cap {"senderContains", "subjectContains"} # {}
  /\ fields \cap NodeFields \cap {"assignLabel", "targetFolder", "markImportant"} # {}

SaveFilterRule ==
  /\ ~ghost.asked /\ ghost' = [ghost EXCEPT !.asked = TRUE]
  /\ rule' = (rule \/ Accepted(PageFields))
  /\ UNCHANGED <<rows, cache, polls, writes, processed, sel, ops>>

\* Another client of the node's API stores a rule.
ForeignRule ==
  /\ ~rule /\ rule' = Accepted(NodeFields)
  /\ UNCHANGED <<rows, cache, polls, writes, processed, sel, ops, ghost>>

\* The loop of App.jsx, every four seconds: the node's rows are read.
PollEmails(p) ==
  /\ polls[p].st = "idle"
  /\ polls' = [polls EXCEPT ![p] =
       [st |-> "sent", snap |-> Restrict(rows, {m \in Mails : rows[m] # NoRow})]]
  /\ ghost' = [ghost EXCEPT !.due = IF ghost.asked THEN @ \union {p} ELSE @ \ {p}]
  /\ UNCHANGED <<rows, cache, writes, rule, processed, sel, ops>>

\* Mails seen for the first time are run through the rules, and are not again.
Incoming(p) == DOMAIN polls[p].snap \ processed

\* A rule the node lists has the fields the node knows; one without triggers
\* matches every mail, and one without an action does nothing.
Matched(p) == {m \in Incoming(p) : rule /\ "action" \in NodeFields /\ ~polls[p].snap[m].star}

\* Deviant: a mail the client has keeps the state it was first polled with.
PollReturnsCached(p) ==
  LET seen == [m \in Mails |-> IF m \in DOMAIN polls[p].snap /\ cache[m] = NoRow
                               THEN polls[p].snap[m] ELSE cache[m]] IN
  /\ polls[p].st = "sent"
  /\ processed' = processed \union Incoming(p)
  /\ cache' = seen /\ polls' = [polls EXCEPT ![p] = IdlePoll]
  /\ UNCHANGED <<rows, writes, rule, sel, ops, ghost>>

\* The answer: every mail's state is replaced, the rules run, and what they
\* changed is sent, with all the other fields as they were when it was polled.
PollReturns(p) ==
  LET seen == [m \in Mails |-> IF m \in DOMAIN polls[p].snap THEN polls[p].snap[m] ELSE cache[m]] IN
  /\ polls[p].st = "sent"
  /\ processed' = processed \union Incoming(p)
  /\ cache' = [m \in Mails |-> IF m \in Matched(p) THEN [seen[m] EXCEPT !.star = TRUE] ELSE seen[m]]
  /\ IF Matched(p) = {} THEN UNCHANGED writes
     ELSE Send("filter", [m \in Matched(p) |-> [seen[m] EXCEPT !.star = TRUE]])
  /\ polls' = [polls EXCEPT ![p] = IdlePoll]
  /\ ghost' = [ghost EXCEPT
       !.raced = @ \/ \E m \in Matched(p) : polls[p].snap[m] # rows[m]
                         \/ \E w \in 1..MaxWrites : writes[w].st = "sent" /\ m \in DOMAIN writes[w].upd,
       !.due = @ \ {p},
       !.unseen = @ \/ (p \in ghost.due /\ \E m \in (Incoming(p) \cap RuleMails) \ Matched(p) :
                                              ~polls[p].snap[m].star)]
  /\ UNCHANGED <<rows, rule, sel, ops>>

PollFails(p) ==
  /\ polls[p].st = "sent"
  /\ polls' = [polls EXCEPT ![p] = IdlePoll]
  /\ UNCHANGED <<rows, cache, writes, rule, processed, sel, ops, ghost>>

\* The page is loaded again: nothing is kept but what the node has, and the
\* requests under way are given up.
Reload ==
  /\ ~ghost.reloaded   \* bound: once
  /\ ghost' = [ghost EXCEPT !.reloaded = TRUE, !.due = {}, !.pressed = {},
       !.wish = Restrict(@, {m \in DOMAIN @ : \A w \in 1..MaxWrites : m \notin DOMAIN writes[w].upd})]
  /\ cache' = [m \in Mails |-> NoRow] /\ processed' = {} /\ sel' = {}
  /\ polls' = [p \in 1..MaxPolls |-> IdlePoll] /\ writes' = [w \in 1..MaxWrites |-> IdleWrite]
  /\ UNCHANGED <<rows, rule, ops>>

\* A mail arrives at the node.
Arrives(m) ==
  /\ rows[m] = NoRow /\ rows' = [rows EXCEPT ![m] = Fresh]
  /\ UNCHANGED <<cache, polls, writes, rule, processed, sel, ops, ghost>>

-----------------------------------------------------------------------------
Requests ==
  \/ \E w \in 1..MaxWrites : UpsertMailboxStates(w) \/ Answered(w) \/ WriteFails(w)
  \/ \E p \in 1..MaxPolls : PollReturns(p) \/ PollFails(p)

BoxNext ==
  \/ Requests \/ Toolbar \/ StarKey \/ SaveFilterRule \/ ForeignRule \/ Reload
  \/ \E p \in 1..MaxPolls : PollEmails(p)
  \/ \E l \in Labels : PickLabel(l)
  \/ \E t \in Threads : StarCard(t) \/ HandleBulkAction(t) \/ OpenThread(t)
  \/ \E m \in Mails : Arrives(m)

-----------------------------------------------------------------------------
(* The lists: which threads a folder of the menu shows.                     *)

\* The node sends the zero time for a mail that is not snoozed, a non-empty
\* string to the client: m.mailbox.snoozedUntil is always true.
HasSnoozedUntil(m) == cache[m] # NoRow

InFolder(menu, t) ==
  LET latest == cache[Latest[t]] IN
  /\ latest # NoRow
  /\ CASE menu = "inbox"   -> latest.folder = "inbox" /\ ~latest.spam
       [] menu = "starred" -> Starred(t) /\ latest.folder # "trash" /\ ~latest.spam
       [] menu = "archive" -> latest.folder = "archive" \/ latest.arch
       [] menu = "spam"    -> latest.folder = "spam" \/ latest.spam
       [] menu = "trash"   -> latest.folder = "trash"
       [] menu = "snoozed" -> latest.folder = "snoozed" \/ \E m \in t : HasSnoozedUntil(m)

-----------------------------------------------------------------------------
(* Properties.                                                              *)

Quiet == \A w \in 1..MaxWrites : writes[w].st = "idle"

\* What the person last set on a mail is what the node has once all updates have
\* arrived: no later change of another field or of the thread takes it back.
\* Excepted are the updates built from a copy that other updates were about to
\* change (raced), the marks of read mails (reset, see ReadMarkOnly) and a
\* request that failed with an alert.
ChangeKept ==
  Quiet /\ ~ghost.raced /\ ~ghost.reset =>
    \A m \in DOMAIN ghost.wish : \A f \in DOMAIN ghost.wish[m] : rows[m][f] = ghost.wish[m][f]

\* The client's copies are what the node has.
InStep == cache = rows

\* Marking mails as read changes nothing else about them (useEmails.js:119).
ReadMarkOnly == ~ghost.wiped

\* A rule somebody makes with the page's form is run on every mail it is for that
\* the client then sees for the first time (ProfilePane.jsx:595).
RulesRun == ~ghost.unseen

\* The key "s" takes the star from a thread whose mails have one (App.jsx:1071).
StarTaken == Quiet => \A m \in ghost.pressed : ~rows[m].star

\* The folder of snoozed mails shows mails somebody snoozed (ARCHITECTURE.md:879).
SnoozedShown == \A t \in Threads : InFolder("snoozed", t) => t \cap ghost.snoozed # {}

-----------------------------------------------------------------------------
(***************************************************************************)
(* groupMessagesIntoThreads of hooks/useEmails.js as a fold over the mails *)
(* in the order of their creation.  A mail is [id, subj, reply, read]:     *)
(* subj is its normalised subject ("" for none), reply the id of the mail  *)
(* it answers (0 for none; the answered mail need not be in the list).     *)
(* Mails are added one by one, so that TLC visits every list up to a       *)
(* length.                                                                 *)
(***************************************************************************)
CONSTANTS Subjects,   \* normalised subjects, "" among them
          MaxMails

SubjectsAssumption == "" \in Subjects /\ MaxMails \in Nat

VARIABLE mails
threadsVars == mails

Key(kind, v) == <<kind, v>>     \* a key is a subject or the id of a mail
NoKey == <<"none", 0>>

Ids(t) == {t.msgs[i].id : i \in 1..Len(t.msgs)}

\* The id of the first thread that holds the answered mail, else the subject.
ThreadKey(threads, msg) ==
  LET holds == {i \in 1..Len(threads) : msg.reply \in Ids(threads[i])} IN
  CASE msg.reply # 0 /\ holds # {} -> Key("id", threads[Min(holds)].id)
    [] msg.subj # "" -> Key("subj", msg.subj)
    [] OTHER -> NoKey

\* threadMap.get: the last thread that was entered under a key.
Under(threads, key) == {i \in 1..Len(threads) : threads[i].key = key}

NewThread(msg) ==
  [id |-> msg.id, msgs |-> <<msg>>, read |-> msg.read,
   key |-> CASE msg.reply # 0 -> Key("id", msg.reply)
             [] msg.subj # "" -> Key("subj", msg.subj)
             [] OTHER -> Key("id", msg.id)]

\* thread.messages.push(msg), and the thread's read state from all its mails.
Joined(t, msg) ==
  LET msgs == Append(t.msgs, msg) IN
  [t EXCEPT !.msgs = msgs, !.read = \A i \in 1..Len(msgs) : msgs[i].read]

\* One turn of the loop.
Added(threads, msg) ==
  LET key == ThreadKey(threads, msg)
      under == Under(threads, key) IN
  IF under = {} THEN Append(threads, NewThread(msg))
  ELSE [threads EXCEPT ![Max(under)] = Joined(@, msg)]

GroupMessagesIntoThreads(s) == FoldLeft(Added, << >>, s)

-----------------------------------------------------------------------------
ThreadsInit == mails = << >>

Receive(subj, reply, read) ==
  /\ Len(mails) < MaxMails
  /\ mails' = Append(mails, [id |-> Len(mails) + 1, subj |-> subj, reply |-> reply, read |-> read])

\* A reply may answer an earlier mail, or one that is not in the list.
ThreadsNext == \E subj \in Subjects, reply \in 0..Len(mails) \union {MaxMails + 1}, read \in BOOLEAN :
          Receive(subj, reply, read)

-----------------------------------------------------------------------------
(* Properties.                                                              *)

threads == GroupMessagesIntoThreads(mails)

\* Every mail is in exactly one thread, and the threads keep the mails' order:
\* the grouping neither drops a mail nor shows it twice.
Partition ==
  \A i \in 1..Len(mails) :
    Cardinality({<<t, k>> \in (1..Len(threads)) \X (1..Len(mails)) :
      k <= Len(threads[t].msgs) /\ threads[t].msgs[k] = mails[i]}) = 1

\* A thread counts as read when all its mails are, as a reference over the
\* whole list says; a thread with one unread mail is never shown as read.
ReadIffAll ==
  \A t \in 1..Len(threads) :
    threads[t].read = \A i \in 1..Len(mails) : mails[i].id \in Ids(threads[t]) => mails[i].read

\* Mails that are not replies and have the same subject share a thread, whatever
\* replies came between them and whichever threads those opened.
SubjectTogether ==
  \A i, j \in 1..Len(mails) :
    mails[i].reply = 0 /\ mails[j].reply = 0 /\ mails[i].subj = mails[j].subj /\ mails[i].subj # "" =>
      \E t \in 1..Len(threads) : {mails[i].id, mails[j].id} \subseteq Ids(threads[t])

-----------------------------------------------------------------------------
vars == <<boxVars, threadsVars>>

Init == BoxInit /\ ThreadsInit

Next ==
  \/ BoxNext /\ UNCHANGED threadsVars
  \/ ThreadsNext /\ UNCHANGED boxVars

Spec == Init /\ [][Next]_vars
=============================================================================
