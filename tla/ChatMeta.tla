------------------------------ MODULE ChatMeta ------------------------------
(***************************************************************************)
(* The pin, the star and the reactions of one chat message: what the node  *)
(* stores, the copy of the last poll, what the page shows at once and      *)
(* takes back on failure, and its copy in localStorage                     *)
(* (hooks/useMessageMeta.js, MessageActions.jsx; UpsertMailboxStates and   *)
(* ToggleMessageReactionForUser of the node).                              *)
(*                                                                         *)
(* The pin is a label and the star a flag of one row of the mailbox, which *)
(* every change writes as a whole.  Reactions with one emoji: who reacted. *)
(***************************************************************************)
EXTENDS Naturals, FiniteSets

CONSTANTS MaxTasks,    \* requests under way
          MaxOps,      \* clicks in the menu of the message
          MaxPolls, MaxPeer, MaxReloads

ChatMetaAssumption == {MaxTasks, MaxOps, MaxPolls, MaxPeer, MaxReloads} \subseteq Nat

VARIABLES server,    \* the row and the reactions
          copy,      \* message of chatMessages
          loaded,    \* chatMessages has the message
          meta,      \* what is shown
          stored,    \* gaia_message_meta of localStorage
          tasks, polls, count, ghost

vars == <<server, copy, loaded, meta, stored, tasks, polls, count, ghost>>

\* pinned, saved, reactedByMe, and how many others reacted.
Meta == [pinned : BOOLEAN, saved : BOOLEAN, mine : BOOLEAN, n : 0..2]
Blank == [pinned |-> FALSE, saved |-> FALSE, mine |-> FALSE, n |-> 0]
Idle == [k |-> "idle", send |-> Blank, prev |-> Blank]
Slots == 1..MaxTasks
Busy == {t \in Slots : tasks[t].k # "idle"}

\* The one type invariant: who has reacted is counted.
TypeOK ==
  /\ {server, copy, meta, stored} \subseteq Meta
  /\ \A m \in {server, copy, meta} : m.mine => m.n > 0
  /\ loaded \in BOOLEAN /\ \A p \in polls : p \in Meta
  /\ \A t \in Slots : tasks[t].k \in {"idle", "pin", "save", "react", "answer"}

Init ==
  /\ server = Blank /\ copy = Blank /\ loaded = FALSE /\ meta = Blank /\ stored = Blank
  /\ tasks = [t \in Slots |-> Idle] /\ polls = {}
  /\ count = [ops |-> 0, polls |-> 0, peer |-> 0, reloads |-> 0]
  /\ ghost = [wish |-> Blank, early |-> FALSE]   \* the choices announced

\* updateMessageMeta: state and localStorage.
UpdateMessageMeta(m) == meta' = m /\ stored' = m

Count(f) == count' = [count EXCEPT ![f] = @ + 1]

-----------------------------------------------------------------------------
(* Polls.                                                                   *)

PollStarts ==
  /\ count.polls < MaxPolls /\ Count("polls")
  /\ polls' = polls \union {server}
  /\ UNCHANGED <<server, copy, loaded, meta, stored, tasks, ghost>>

\* The effect on chatMessages: the node's state replaces what is shown.
Sync(m, s) == s

PollReturns(s) ==
  /\ polls' = polls \ {s} /\ copy' = s /\ loaded' = TRUE
  /\ UpdateMessageMeta(Sync(meta, s))
  /\ UNCHANGED <<server, tasks, count, ghost>>

\* The page is loaded again, or another person logs in and out: what localStorage has.
Reload ==
  /\ count.reloads < MaxReloads /\ Count("reloads")
  /\ meta' = stored /\ loaded' = FALSE /\ copy' = Blank
  /\ tasks' = [t \in Slots |-> Idle] /\ polls' = {}
  /\ ghost' = [ghost EXCEPT !.early = @ \/ Busy # {}]
  /\ UNCHANGED <<server, stored>>

-----------------------------------------------------------------------------
(* Clicks in the menu of the message.                                       *)

\* A request starts; early: an earlier one is not answered, or its poll has not come.
Starts(k, send) ==
  /\ loaded /\ count.ops < MaxOps /\ Count("ops") /\ Busy # Slots
  /\ tasks' = [tasks EXCEPT ![CHOOSE t \in Slots : t \notin Busy] = [k |-> k, send |-> send, prev |-> meta]]
  /\ UNCHANGED <<server, copy, loaded, polls>>
Early == Busy # {} \/ copy # [server EXCEPT !.mine = copy.mine, !.n = copy.n]

\* toggleMessagePin: the whole row goes out, the star as in the last poll.
ToggleMessagePin ==
  /\ Starts("pin", [copy EXCEPT !.pinned = ~meta.pinned])
  /\ UpdateMessageMeta([meta EXCEPT !.pinned = ~@])
  /\ ghost' = [wish |-> [ghost.wish EXCEPT !.pinned = ~meta.pinned], early |-> ghost.early \/ Early]

\* toggleMessageSaved: the same for the star, the labels as in the last poll.
ToggleMessageSaved ==
  /\ Starts("save", [copy EXCEPT !.saved = ~meta.saved])
  /\ UpdateMessageMeta([meta EXCEPT !.saved = ~@])
  /\ ghost' = [wish |-> [ghost.wish EXCEPT !.saved = ~meta.saved], early |-> ghost.early \/ Early]

Toggled(m) == [m EXCEPT !.mine = ~@, !.n = IF m.mine THEN @ - 1 ELSE @ + 1]
\* The count shown at once: never below zero, and gone at zero.
Reacted(m) == [m EXCEPT !.mine = ~@, !.n = IF m.mine THEN (IF @ = 0 THEN 0 ELSE @ - 1) ELSE @ + 1]

\* reactToMessage.
ReactToMessage ==
  /\ meta.mine \/ meta.n < 2
  /\ Starts("react", Blank)
  /\ UpdateMessageMeta(Reacted(meta))
  /\ ghost' = ghost

\* UpsertMailboxStates: all fields of the row are written.  The answer starts a poll.
RowWritten(t) ==
  /\ tasks[t].k \in {"pin", "save"}
  /\ server' = [server EXCEPT !.pinned = tasks[t].send.pinned, !.saved = tasks[t].send.saved]
  /\ tasks' = [tasks EXCEPT ![t] = Idle]
  /\ polls' = polls \union {server'}
  /\ UNCHANGED <<copy, loaded, meta, stored, count, ghost>>

\* ToggleMessageReactionForUser; the answer is what the node has afterwards.
ReactionToggled(t) ==
  /\ tasks[t].k = "react"
  /\ server' = Toggled(server)
  /\ tasks' = [tasks EXCEPT ![t] = [@ EXCEPT !.k = "answer", !.send = Toggled(server)]]
  /\ UNCHANGED <<copy, loaded, meta, stored, polls, count, ghost>>
ReactionAnswered(t) ==
  /\ tasks[t].k = "answer"
  /\ UpdateMessageMeta([meta EXCEPT !.mine = tasks[t].send.mine, !.n = tasks[t].send.n])
  /\ tasks' = [tasks EXCEPT ![t] = Idle]
  /\ UNCHANGED <<server, copy, loaded, polls, count, ghost>>

\* The request fails: what was shown before it is shown again.
RequestFails(t) ==
  /\ tasks[t].k \in {"pin", "save", "react"}
  /\ UpdateMessageMeta(tasks[t].prev)
  /\ tasks' = [tasks EXCEPT ![t] = Idle]
  /\ ghost' = IF tasks[t].k = "pin" THEN [ghost EXCEPT !.wish.pinned = server.pinned]
              ELSE IF tasks[t].k = "save" THEN [ghost EXCEPT !.wish.saved = server.saved]
              ELSE ghost
  /\ UNCHANGED <<server, copy, loaded, polls, count>>

\* The other person reacts.
PeerReacts ==
  /\ count.peer < MaxPeer /\ Count("peer")
  /\ server.n < 2 /\ server' = [server EXCEPT !.n = @ + 1]
  /\ UNCHANGED <<copy, loaded, meta, stored, tasks, polls, ghost>>

Next ==
  \/ PollStarts \/ (\E s \in polls : PollReturns(s)) \/ Reload
  \/ ToggleMessagePin \/ ToggleMessageSaved \/ ReactToMessage \/ PeerReacts
  \/ \E t \in Slots : RowWritten(t) \/ ReactionToggled(t) \/ ReactionAnswered(t) \/ RequestFails(t)

Spec == Init /\ [][Next]_vars

-----------------------------------------------------------------------------
(* Properties.                                                              *)

\* A poll that the node answers when nothing is under way puts what the node has on the
\* screen and into localStorage, whatever was shown or taken back before (the effect on
\* chatMessages).
PollSettles ==
  \A s \in polls : PollReturns(s) /\ s = server /\ Busy = {} => meta' = server /\ stored' = server

\* When nothing is under way, the node has the pin and the star the person has chosen,
\* if each change was made after the last one had come back with a poll.
ChoiceStored ==
  Busy = {} /\ ~ghost.early =>
    server.pinned = ghost.wish.pinned /\ server.saved = ghost.wish.saved
=============================================================================
