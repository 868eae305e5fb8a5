---------------------------- MODULE ChatMessages ----------------------------
(***************************************************************************)
(* The messages of one direct chat: the envelopes the node stores for its  *)
(* two sides, and the pages of both people, which send, edit, delete and   *)
(* clear, list what the node has on every poll and report what was read    *)
(* (hooks/useChat.js, hooks/useEmails.js pollEmails,                       *)
(* hooks/useUnreadMarkers.js, ChatPane.jsx, ListPane.jsx; the node's part  *)
(* in Backend/repository).                                                 *)
(*                                                                         *)
(* A message is its client message id c; every message is stored twice, in *)
(* an envelope only its recipient can open and in one only its sender can. *)
(* Envelopes are numbered in the order the node stores them.  The people   *)
(* have no device keys: with them editing is refused.  A request of one    *)
(* statement is executed and answered in one step; sending and editing     *)
(* take several.                                                           *)
(***************************************************************************)
EXTENDS Naturals, FiniteSets

CONSTANTS Users, MaxSends, MaxEnvelopes, MaxTasks, MaxEdits, MaxDeletes, MaxPolls

ChatMessagesAssumption ==
  /\ Cardinality(Users) = 2
  /\ {MaxSends, MaxEnvelopes, MaxTasks, MaxEdits, MaxDeletes, MaxPolls} \subseteq Nat

VARIABLES envs,     \* the envelopes of the node, by number
          shown,    \* chatMessages of each page
          open,     \* whose page shows this chat
          hidden,   \* whose list of chats hides it
          polls,    \* the answers on their way to each page
          tasks,    \* the sends and edits under way
          count, ghost

vars == <<envs, shown, open, hidden, polls, tasks, count, ghost>>

Cids == 1..MaxSends
Ids == 1..MaxEnvelopes
Peer(u) == CHOOSE v \in Users : v # u

\* for: who can open it; src: the envelope whose receipts count; box: the inboxes it
\* is in; read: the recipient's receipt.
Envelope == [from : Users, for : Users, c : Cids, v : Nat, repl : BOOLEAN, src : 0..MaxEnvelopes,
             box : SUBSET Users, read : BOOLEAN]
Idle == [k |-> "idle", u |-> CHOOSE u \in Users : TRUE, c |-> 0, id |-> 0, v |-> 0, src |-> 0]

\* What is known of message c: its sender, the newest version that was announced as
\* stored, the versions the other side has had on screen, who removed it (and who did
\* so alone, not with the whole chat), whether it was removed for everyone, and whether
\* requests about it overlapped (or it was edited after a removal, or removed in an
\* outdated version) or broke off.
Known == [by |-> "nobody", self |-> FALSE, v |-> 1, seen |-> {}, mine |-> {}, picked |-> {}, all |-> FALSE,
          over |-> FALSE, broke |-> FALSE]

\* The one type invariant: an envelope's receipts are looked up at an older envelope
\* of the same message.
TypeOK ==
  /\ DOMAIN envs \subseteq Ids
  /\ \A i \in DOMAIN envs : envs[i] \in Envelope /\ envs[i].src < i
  /\ \A i \in DOMAIN envs : envs[i].src \in DOMAIN envs => envs[envs[i].src].c = envs[i].c
  /\ open \in [Users -> BOOLEAN] /\ hidden \in [Users -> BOOLEAN]
  /\ \A t \in 1..MaxTasks : tasks[t].k \in {"idle", "send", "copy", "edit", "editpeer", "editself", "replace"}
  /\ count.sends \in 0..MaxSends /\ count.edits \in 0..MaxEdits /\ count.deletes \in 0..MaxDeletes

Init ==
  /\ envs = [i \in {} |-> 0] /\ shown = [u \in Users |-> {}] /\ polls = [u \in Users |-> {}]
  /\ open = [u \in Users |-> FALSE] /\ hidden = [u \in Users |-> FALSE]
  /\ tasks = [t \in 1..MaxTasks |-> Idle]
  /\ count = [next |-> 1, sends |-> 0, edits |-> 0, deletes |-> 0, polls |-> 0]
  /\ ghost = [c \in Cids |-> Known]

-----------------------------------------------------------------------------
(* What the node lists, and what a page makes of it.                        *)

\* FindMailboxMessages: an envelope that was not replaced is listed to whom has it in
\* the inbox, and always to its sender.
Listed(u) == {i \in DOMAIN envs : ~envs[i].repl /\ (u \in envs[i].box \/ envs[i].from = u)}

\* The read mark: the recipient's receipt of the envelope src for a sent message (read
\* at once if there is none to look at), the own receipt for a received one.
IsRead(u, i) ==
  IF envs[i].from # u THEN envs[i].read
  ELSE envs[i].src # 0 => envs[i].src \in DOMAIN envs /\ envs[envs[i].src].read

\* The messages of this chat: those the page can open.
Decrypted(u) ==
  {[id |-> i, c |-> envs[i].c, v |-> envs[i].v, from |-> envs[i].from, read |-> IsRead(u, i)]
     : i \in {j \in Listed(u) : envs[j].for = u}}

\* Of the envelopes of one message the oldest is shown.
Dedupe(ms) == {m \in ms : \A n \in ms : n.c = m.c /\ n.from = m.from => m.id <= n.id}

Poll(u) == Dedupe(Decrypted(u))

\* pollEmails asks the node ...
PollStarts(u) ==
  /\ count.polls < MaxPolls
  /\ count' = [count EXCEPT !.polls = @ + 1]
  /\ polls' = [polls EXCEPT ![u] = @ \union {Poll(u)}]
  /\ UNCHANGED <<envs, shown, open, hidden, tasks, ghost>>

\* The unread received messages, which the open chat reports as read and which bring a
\* hidden chat back.
Unread(u, ms) == {m \in ms : m.from # u /\ ~m.read}

\* MarkInboxMessagesReadForUser: a receipt for every envelope still in the inbox.
MarkInboxMessagesRead(u, ms) ==
  [i \in DOMAIN envs |->
     IF u \in envs[i].box /\ envs[i].from # u /\ \E m \in ms : m.id = i
     THEN [envs[i] EXCEPT !.read = TRUE] ELSE envs[i]]

Seen(u, ms) ==
  [c \in Cids |-> [ghost[c] EXCEPT !.seen = @ \union {m.v : m \in {n \in ms : n.c = c /\ n.from # u}}]]

\* The list of messages changes: the effects of useUnreadMarkers and ListPane run.  The
\* report of what was read may get lost.
ShowsMessages(u, ms) ==
  /\ shown' = [shown EXCEPT ![u] = ms]
  /\ envs' \in {envs, IF open[u] THEN MarkInboxMessagesRead(u, Unread(u, ms)) ELSE envs}
  /\ hidden' = [hidden EXCEPT ![u] = @ /\ Unread(u, ms) = {}]
  /\ ghost' = IF open[u] THEN Seen(u, ms) ELSE ghost

\* ... and shows the answer, or nothing changes if it fails.
PollReturns(u) ==
  \E ms \in polls[u] :
    /\ polls' = [polls EXCEPT ![u] = @ \ {ms}]
    /\ ShowsMessages(u, ms)
    /\ UNCHANGED <<open, tasks, count>>

\* The chat is listed for opening when it has messages and is not hidden; opening it
\* reports what is unread.
Displayed(u) == shown[u] # {} /\ ~hidden[u]
OpenChat(u) ==
  /\ ~open[u] /\ Displayed(u)
  /\ open' = [open EXCEPT ![u] = TRUE]
  /\ envs' \in {envs, MarkInboxMessagesRead(u, Unread(u, shown[u]))}
  /\ ghost' = Seen(u, shown[u])
  /\ UNCHANGED <<shown, hidden, polls, tasks, count>>
CloseChat(u) ==
  /\ open[u] /\ open' = [open EXCEPT ![u] = FALSE]
  /\ UNCHANGED <<envs, shown, hidden, polls, tasks, count, ghost>>

\* What the bubble of a message of the open chat offers.
Bubble(u, m) == IF open[u] /\ m \in shown[u] THEN {"delete"} \union (IF m.from = u THEN {"edit"} ELSE {}) ELSE {}

-----------------------------------------------------------------------------
(* Sending.                                                                 *)

Free == {t \in 1..MaxTasks : tasks[t].k = "idle"}
Starts(rec) == Free # {} /\ tasks' = [tasks EXCEPT ![CHOOSE t \in Free : TRUE] = rec]
About(c) == {t \in 1..MaxTasks : tasks[t].k # "idle" /\ tasks[t].c = c}

\* SaveMessageEnvelopeWithInbox.
Saves(from, for, c, v, src) ==
  /\ count.next \in Ids
  /\ envs' = [i \in DOMAIN envs \union {count.next} |->
                IF i \in DOMAIN envs THEN envs[i]
                ELSE [from |-> from, for |-> for, c |-> c, v |-> v, repl |-> FALSE, src |-> src,
                      box |-> {for}, read |-> FALSE]]
  /\ count' = [count EXCEPT !.next = @ + 1]

\* handleSendChatMessage: a new message (the chat may be a new one).
HandleSendChatMessage(u) ==
  /\ count.sends < MaxSends
  /\ Starts([Idle EXCEPT !.k = "send", !.u = u, !.c = count.sends + 1, !.v = 1])
  /\ count' = [count EXCEPT !.sends = @ + 1]
  /\ ghost' = [ghost EXCEPT ![count.sends + 1].by = u]
  /\ UNCHANGED <<envs, shown, open, hidden, polls>>

\* The envelope of the other side is delivered first ...
DeliverPeer(t) ==
  /\ tasks[t].k = "send"
  /\ Saves(tasks[t].u, Peer(tasks[t].u), tasks[t].c, 1, 0)
  /\ tasks' = [tasks EXCEPT ![t].k = "copy", ![t].src = count.next]
  /\ UNCHANGED <<shown, open, hidden, polls, ghost>>

\* ... then the own copy, which names it.
DeliverSelf(t) ==
  /\ tasks[t].k = "copy"
  /\ Saves(tasks[t].u, tasks[t].u, tasks[t].c, 1, tasks[t].src)
  /\ tasks' = [tasks EXCEPT ![t] = Idle]
  /\ ghost' = [ghost EXCEPT ![tasks[t].c].self = TRUE]
  /\ UNCHANGED <<shown, open, hidden, polls>>

\* Sending fails at either delivery: an alert.
SendFails(t) ==
  /\ tasks[t].k \in {"send", "copy"}
  /\ tasks' = [tasks EXCEPT ![t] = Idle]
  /\ UNCHANGED <<envs, shown, open, hidden, polls, count, ghost>>

-----------------------------------------------------------------------------
(* Editing.                                                                 *)

\* saveEditedMessage, handleEditChatMessage: the form stays open until the answer, and
\* nothing keeps it from being submitted again.
HandleEditChatMessage(u, m) ==
  /\ "edit" \in Bubble(u, m) /\ count.edits < MaxEdits
  /\ Starts([Idle EXCEPT !.k = "edit", !.u = u, !.c = m.c, !.id = m.id, !.v = count.edits + 2])
  /\ count' = [count EXCEPT !.edits = @ + 1]
  /\ ghost' = [ghost EXCEPT ![m.c].over = @ \/ About(m.c) # {}]
  /\ UNCHANGED <<envs, shown, open, hidden, polls>>

\* EditDirectMessageForUser: the envelope must be there, not replaced and in the inbox.
EditChecks(t) ==
  /\ tasks[t].k = "edit"
  /\ tasks' = [tasks EXCEPT ![t] =
       IF tasks[t].id \in DOMAIN envs /\ ~envs[tasks[t].id].repl /\ tasks[t].u \in envs[tasks[t].id].box
       THEN [@ EXCEPT !.k = "editpeer"] ELSE Idle]
  /\ UNCHANGED <<envs, shown, open, hidden, polls, count, ghost>>

\* The new envelope of the other side, then the new copy of the sender.
EditSavesPeer(t) ==
  /\ tasks[t].k = "editpeer"
  /\ Saves(tasks[t].u, Peer(tasks[t].u), tasks[t].c, tasks[t].v, 0)
  /\ tasks' = [tasks EXCEPT ![t].k = "editself", ![t].src = count.next]
  /\ ghost' = [ghost EXCEPT ![tasks[t].c].over = @ \/ ghost[tasks[t].c].mine # {}]
  /\ UNCHANGED <<shown, open, hidden, polls>>

EditSavesSelf(t) ==
  /\ tasks[t].k = "editself"
  /\ Saves(tasks[t].u, tasks[t].u, tasks[t].c, tasks[t].v, tasks[t].src)
  /\ tasks' = [tasks EXCEPT ![t].k = "replace", ![t].id = count.next]
  /\ UNCHANGED <<shown, open, hidden, polls, ghost>>

\* Deviant: only the envelope that was edited is replaced.
ReplacedOne(c, new) == [i \in DOMAIN envs |->
  IF envs[i].c = c /\ i \notin new /\ envs[i].for = envs[i].from THEN [envs[i] EXCEPT !.repl = TRUE] ELSE envs[i]]
\* Every other envelope of the message is replaced.
Replaced(c, new) == [i \in DOMAIN envs |->
  IF envs[i].c = c /\ i \notin new THEN [envs[i] EXCEPT !.repl = TRUE] ELSE envs[i]]

EditReplaces(t) ==
  /\ tasks[t].k = "replace"
  /\ envs' = Replaced(tasks[t].c, {tasks[t].src, tasks[t].id})
  /\ tasks' = [tasks EXCEPT ![t] = Idle]
  /\ ghost' = [ghost EXCEPT ![tasks[t].c].v = tasks[t].v]
  /\ UNCHANGED <<shown, open, hidden, polls, count>>

\* The node stops between the steps, or the request fails: an alert.
EditFails(t) ==
  /\ tasks[t].k \in {"edit", "editpeer", "editself", "replace"}
  /\ tasks' = [tasks EXCEPT ![t] = Idle]
  /\ ghost' = [ghost EXCEPT ![tasks[t].c].broke = @ \/ tasks[t].k \in {"editself", "replace"}]
  /\ UNCHANGED <<envs, shown, open, hidden, polls, count>>

-----------------------------------------------------------------------------
(* Deleting.                                                                *)

Deletes == count.deletes < MaxDeletes /\ count' = [count EXCEPT !.deletes = @ + 1]
Without(ids) == [i \in DOMAIN envs \ ids |-> envs[i]]
OutOfInbox(u, ids) == [i \in DOMAIN envs |-> IF i \in ids THEN [envs[i] EXCEPT !.box = @ \ {u}] ELSE envs[i]]

\* executeDelete(false), DeleteInboxMessageForUser: the row of the inbox is deleted, and
\* the message leaves the page; without the row an error.
DeleteForMe(u, m) ==
  /\ "delete" \in Bubble(u, m) /\ Deletes
  /\ m.id \in DOMAIN envs /\ u \in envs[m.id].box
  /\ envs' = OutOfInbox(u, {m.id})
  /\ shown' = [shown EXCEPT ![u] = @ \ {m}]
  /\ ghost' = [ghost EXCEPT ![m.c].mine = @ \union {u}, ![m.c].picked = @ \union {u},
                            ![m.c].over = @ \/ About(m.c) # {} \/ envs[m.id].repl]
  /\ UNCHANGED <<open, hidden, polls, tasks>>

\* The envelopes deleted for everyone with m: those of the same message.
OfMessage(m) == {i \in DOMAIN envs : envs[i].c = m.c}

\* executeDelete(true): every envelope of the message is deleted, by either side.
DeleteForEveryone(u, m) ==
  /\ "delete" \in Bubble(u, m) /\ Deletes
  /\ m.id \in DOMAIN envs
  /\ envs' = Without(OfMessage(m))
  /\ shown' = [shown EXCEPT ![u] = @ \ {m}]
  /\ ghost' = [ghost EXCEPT ![m.c].all = TRUE, ![m.c].over = @ \/ About(m.c) # {}]
  /\ UNCHANGED <<open, hidden, polls, tasks>>

Sent == {c \in Cids : ghost[c].by # "nobody"}
Cleared(u, g) == [c \in Cids |-> IF c \in Sent THEN [g[c] EXCEPT !.over = @ \/ About(c) # {}] ELSE g[c]]

\* handleClearDirectChat, ClearInboxConversationForUser: the rows of the inbox for this
\* chat, or its envelopes for everyone.
ClearForMe(u) ==
  /\ open[u] /\ Deletes
  /\ envs' = OutOfInbox(u, DOMAIN envs)
  /\ shown' = [shown EXCEPT ![u] = {}]
  /\ ghost' = [c \in Cids |-> IF c \in Sent THEN [Cleared(u, ghost)[c] EXCEPT !.mine = @ \union {u}] ELSE ghost[c]]
  /\ UNCHANGED <<open, hidden, polls, tasks>>
ClearForEveryone(u) ==
  /\ open[u] /\ Deletes
  /\ envs' = Without(DOMAIN envs)
  /\ shown' = [shown EXCEPT ![u] = {}]
  /\ ghost' = [c \in Cids |-> IF c \in Sent THEN [Cleared(u, ghost)[c] EXCEPT !.all = TRUE] ELSE ghost[c]]
  /\ UNCHANGED <<open, hidden, polls, tasks>>

\* handleDeleteDM of the list: the chat is cleared, hidden and left.
HandleDeleteDM(u) ==
  /\ Displayed(u) /\ Deletes
  /\ envs' = OutOfInbox(u, DOMAIN envs)
  /\ shown' = [shown EXCEPT ![u] = {}]
  /\ hidden' = [hidden EXCEPT ![u] = TRUE] /\ open' = [open EXCEPT ![u] = FALSE]
  /\ ghost' = [c \in Cids |-> IF c \in Sent THEN [Cleared(u, ghost)[c] EXCEPT !.mine = @ \union {u}] ELSE ghost[c]]
  /\ UNCHANGED <<polls, tasks>>

-----------------------------------------------------------------------------
Next ==
  \/ \E u \in Users :
       \/ PollStarts(u) \/ PollReturns(u) \/ OpenChat(u) \/ CloseChat(u)
       \/ HandleSendChatMessage(u) \/ ClearForMe(u) \/ ClearForEveryone(u) \/ HandleDeleteDM(u)
       \/ \E m \in shown[u] : HandleEditChatMessage(u, m) \/ DeleteForMe(u, m) \/ DeleteForEveryone(u, m)
  \/ \E t \in 1..MaxTasks :
       \/ DeliverPeer(t) \/ DeliverSelf(t) \/ SendFails(t) \/ EditChecks(t)
       \/ EditSavesPeer(t) \/ EditSavesSelf(t) \/ EditReplaces(t) \/ EditFails(t)

Spec == Init /\ [][Next]_vars

-----------------------------------------------------------------------------
(* Properties.                                                              *)

\* A page never shows a message twice, whatever envelopes of it the node has while it
\* is being edited or after an edit broke off (the deduplication of pollEmails).
ShownOnce == \A u \in Users : \A m, n \in shown[u] : m.c = n.c => m = n

\* A message that was sent and not deleted is listed to both people in the newest
\* version that was announced as stored, also while an edit is half done or has broken
\* off, unless two requests about it overlapped (EditDirectMessageForUser and the
\* deduplication of pollEmails).
VersionKept ==
  \A c \in Sent, u \in Users :
    LET g == ghost[c] IN
    g.self /\ ~g.over /\ ~g.all /\ u \notin g.mine =>
      \E m \in Poll(u) : m.c = c /\ m.v = g.v

\* A message deleted for everyone is listed to nobody, and a received message deleted
\* by its recipient is not listed to them, unless it was sent or edited then or later,
\* the page was outdated or an edit of it broke off (DeleteInboxMessageForUser, ClearInboxConversationForUser).
DeletedReceived ==
  \A c \in Sent, u \in Users :
    LET g == ghost[c] IN
    ~g.over /\ ~g.broke /\ (g.all \/ (u \in g.mine /\ g.by # u)) => \A m \in Poll(u) : m.c # c

\* "Gelesen" beside a sent message means that the other person has had this version of
\* it on screen (the receipts of the envelope named by the own copy).
ReadTrue ==
  \A u \in Users : \A m \in shown[u] : m.from = u /\ m.read => m.v \in ghost[m.c].seen

\* A chat with an unread message is in the list of chats (the effect of ListPane).
UnreadListed == \A u \in Users : Unread(u, shown[u]) # {} => Displayed(u)

\* "Die Chat-Nachricht wurde lokal aus deiner Inbox entfernt.": a message a person has
\* deleted is not listed to them again, their own messages included.
DeletedGone ==
  \A c \in Sent, u \in Users :
    LET g == ghost[c] IN ~g.over /\ ~g.broke /\ u \in g.picked => \A m \in Poll(u) : m.c # c

\* "Die Nachricht wurde als neue signierte Revision gespeichert.": a message whose edit
\* was announced as stored is listed to both people while nobody deletes it.
RevisionStored ==
  \A c \in Sent, u \in Users :
    LET g == ghost[c] IN g.v > 1 /\ ~g.all /\ g.mine = {} => \E m \in Poll(u) : m.c = c
=============================================================================
