---------------------------- MODULE ChatComposer ----------------------------
(***************************************************************************)
(* Writing and sending in a direct chat: the one input field all chats     *)
(* share, attachments uploaded or taken from GaiaDrive, voice notes, the   *)
(* message answered, Top Secret per contact, and the requests of a send    *)
(* (hooks/useChat.js handleSendChatMessage, setDirectTopSecretEnabled;     *)
(* ChatPane.jsx).                                                          *)
(*                                                                         *)
(* A handler works with the values of the render it belongs to: what was   *)
(* on the page at the click, and for a voice note what was there when the  *)
(* recording began.                                                        *)
(***************************************************************************)
EXTENDS Naturals, FiniteSets

CONSTANTS Peers, NoPeer, MaxFiles, MaxTasks, MaxOps

ChatComposerAssumption == NoPeer \notin Peers /\ {MaxFiles, MaxTasks, MaxOps} \subseteq Nat

VARIABLES active,     \* activeChatContact
          text,       \* chatInputText is not empty
          staged,     \* stagedAttachments
          reply,      \* messageReplyTarget: the contact whose message is answered
          rec,        \* the recording under way, with the values of its render
          secret,     \* directTopSecretByGaia
          blocked,    \* contacts that are blocked
          capable,    \* peers with a published ML-DSA-87 key
          uploads,    \* attachments being prepared
          tasks,      \* sends and Top Secret checks under way
          sent, ops, files, ghost

vars == <<active, text, staged, reply, rec, secret, blocked, capable, uploads, tasks, sent, ops, files, ghost>>

Files == 1..MaxFiles
\* What a send takes with it; voice: from a recording.
Message == [to : Peers, text : BOOLEAN, files : SUBSET Files, reply : Peers \union {NoPeer},
            secret : BOOLEAN, voice : BOOLEAN]
NoRec == [on |-> FALSE, to |-> NoPeer, text |-> FALSE, reply |-> NoPeer, secret |-> FALSE]
Idle == [k |-> "idle", m |-> {}, shown |-> FALSE, granted |-> {}]
Slots == 1..MaxTasks
Busy == {t \in Slots : tasks[t].k # "idle"}

\* The one type invariant: the message answered is one of the open chat, and what is
\* staged has been prepared.
TypeOK ==
  /\ active \in Peers \union {NoPeer} /\ reply \in {NoPeer, active}
  /\ text \in BOOLEAN /\ staged \subseteq Files /\ staged \cap uploads = {}
  /\ secret \subseteq Peers /\ blocked \subseteq Peers /\ capable \subseteq Peers
  /\ \A t \in Slots : tasks[t].k \in {"idle", "lookup", "grant", "peer", "self", "secret"}
  /\ ops \in 0..MaxOps /\ files \in 0..MaxFiles
  /\ \A s \in sent : s.m \in Message

Init ==
  /\ active = NoPeer /\ text = FALSE /\ staged = {} /\ reply = NoPeer /\ rec = NoRec
  /\ secret = {} /\ blocked = {} /\ capable \in SUBSET Peers /\ uploads = {}
  /\ tasks = [t \in Slots |-> Idle] /\ sent = {} /\ ops = 0 /\ files = 0
  /\ ghost = [dropped |-> FALSE, toblocked |-> FALSE]

Step == ops < MaxOps /\ ops' = ops + 1
Free == CHOOSE t \in Slots : t \notin Busy
IsBlocked == active \in blocked
ChatPane == active # NoPeer
\* The row with the input field and the buttons, replaced while recording.
InputRow == ChatPane /\ ~rec.on

-----------------------------------------------------------------------------
(* The page.                                                                *)

\* Another chat is opened, or (p = NoPeer) the chat is left for the list: the effect on
\* activeChatContact forgets the message to answer.
OpenChat(p) ==
  /\ p # active /\ Step /\ active' = p /\ reply' = NoPeer
  /\ UNCHANGED <<text, staged, rec, secret, blocked, capable, uploads, tasks, sent, files, ghost>>

\* handleInputChange, insertMention, appendChatEmoji: something is typed. A picker that
\* is open stays usable when the contact is blocked.
HandleInputChange ==
  /\ InputRow /\ ~text /\ Step /\ text' = TRUE
  /\ UNCHANGED <<active, staged, reply, rec, secret, blocked, capable, uploads, tasks, sent, files, ghost>>

\* replyToMessage, and the x of the preview.
ReplyToMessage ==
  /\ ChatPane /\ reply = NoPeer /\ Step /\ reply' = active
  /\ UNCHANGED <<active, text, staged, rec, secret, blocked, capable, uploads, tasks, sent, files, ghost>>
ClearReply ==
  /\ reply # NoPeer /\ reply' = NoPeer
  /\ UNCHANGED <<active, text, staged, rec, secret, blocked, capable, uploads, tasks, sent, ops, files, ghost>>

\* handleFileSelect, its button disabled while a file is being prepared, and
\* attachDriveRecord, whose list stays open until a record is staged.
AttachDriveRecord ==
  /\ InputRow /\ files < MaxFiles /\ files' = files + 1 /\ uploads' = uploads \union {files + 1}
  /\ UNCHANGED <<active, text, staged, reply, rec, secret, blocked, capable, tasks, sent, ops, ghost>>
HandleFileSelect == ~IsBlocked /\ uploads = {} /\ AttachDriveRecord
\* Then it is staged, in whatever chat is open, or there is an alert.
Staged(f) ==
  /\ f \in uploads /\ uploads' = uploads \ {f} /\ staged' = staged \union {f}
  /\ UNCHANGED <<active, text, reply, rec, secret, blocked, capable, tasks, sent, ops, files, ghost>>
UploadFails(f) ==
  /\ f \in uploads /\ uploads' = uploads \ {f}
  /\ UNCHANGED <<active, text, staged, reply, rec, secret, blocked, capable, tasks, sent, ops, files, ghost>>
RemoveStaged(f) ==
  /\ ChatPane /\ f \in staged /\ staged' = staged \ {f}
  /\ UNCHANGED <<active, text, reply, rec, secret, blocked, capable, uploads, tasks, sent, ops, files, ghost>>

\* toggleBlockContact of the menu, answered by the node.
ToggleBlock ==
  /\ ChatPane /\ Step
  /\ blocked' = IF IsBlocked THEN blocked \ {active} ELSE blocked \union {active}
  /\ UNCHANGED <<active, text, staged, reply, rec, secret, capable, uploads, tasks, sent, files, ghost>>

-----------------------------------------------------------------------------
(* Top Secret.                                                              *)

\* setDirectTopSecretEnabled: switched off at once, on after the contact's published
\* keys have been looked at.
SetDirectTopSecretEnabled ==
  /\ ChatPane /\ Step
  /\ IF active \in secret
     THEN secret' = secret \ {active} /\ UNCHANGED tasks
     ELSE /\ Busy # Slots /\ UNCHANGED secret
          /\ tasks' = [tasks EXCEPT ![Free] = [Idle EXCEPT !.k = "secret", !.m = {active}]]
  /\ UNCHANGED <<active, text, staged, reply, rec, blocked, capable, uploads, sent, files, ghost>>
SecretChecked(t) ==
  /\ tasks[t].k = "secret"
  /\ secret' \in {secret, secret \union (tasks[t].m \cap capable)}
  /\ tasks' = [tasks EXCEPT ![t] = Idle]
  /\ UNCHANGED <<active, text, staged, reply, rec, blocked, capable, uploads, sent, ops, files, ghost>>

\* The contact starts over with keys that lack ML-DSA-87, or publishes one.
CapabilityChanges(p) ==
  /\ Step /\ capable' = IF p \in capable THEN capable \ {p} ELSE capable \union {p}
  /\ UNCHANGED <<active, text, staged, reply, rec, secret, blocked, uploads, tasks, sent, files, ghost>>

-----------------------------------------------------------------------------
(* Sending.                                                                 *)

\* handleSendChatMessage: the input is emptied, then the contact's keys are looked up.
\* shown: the page says that the chat is Top Secret.
HandleSendChatMessage(m) ==
  /\ Busy # Slots /\ (m.text \/ m.files # {} \/ m.voice)
  /\ text' = FALSE
  /\ tasks' = [tasks EXCEPT ![Free] = [Idle EXCEPT !.k = "lookup", !.m = {m}, !.shown = m.to \in secret]]

\* handleSendWrapper.
HandleSendWrapper ==
  /\ InputRow /\ ~IsBlocked /\ Step
  /\ HandleSendChatMessage([to |-> active, text |-> text, files |-> staged, reply |-> reply,
                            secret |-> active \in secret, voice |-> FALSE])
  /\ UNCHANGED <<active, staged, reply, rec, secret, blocked, capable, uploads, sent, files, ghost>>

\* startRecording; onstop will use the handleSendChatMessage of this render.
StartRecording ==
  /\ InputRow /\ ~IsBlocked /\ Step
  /\ rec' = [on |-> TRUE, to |-> active, text |-> text, reply |-> reply, secret |-> active \in secret]
  /\ UNCHANGED <<active, text, staged, reply, secret, blocked, capable, uploads, tasks, sent, files, ghost>>
\* stopRecording: Verwerfen ...
CancelRecording ==
  /\ ChatPane /\ rec.on /\ rec' = NoRec
  /\ UNCHANGED <<active, text, staged, reply, secret, blocked, capable, uploads, tasks, sent, ops, files, ghost>>
\* ... or Senden, in whatever chat is open then.
SendRecording ==
  /\ ChatPane /\ rec.on /\ rec' = NoRec /\ Step
  /\ HandleSendChatMessage([to |-> rec.to, text |-> rec.text, files |-> {}, reply |-> rec.reply,
                            secret |-> rec.secret, voice |-> TRUE])
  /\ ghost' = [ghost EXCEPT !.toblocked = @ \/ rec.to \in blocked]
  /\ UNCHANGED <<active, staged, reply, secret, blocked, capable, uploads, sent, files>>

Msg(t) == CHOOSE m \in tasks[t].m : TRUE
\* handleSendWrapper empties the staged attachments when the lookup is over, whatever
\* became of it; those staged meanwhile go too.
Unstage(t) ==
  IF Msg(t).voice THEN UNCHANGED <<staged, ghost>>
  ELSE /\ staged' = {}
       /\ ghost' = [ghost EXCEPT !.dropped = @ \/ ~(staged \subseteq Msg(t).files)]
Goes(t, k) == tasks' = [tasks EXCEPT ![t] = IF k = "idle" THEN Idle ELSE [@ EXCEPT !.k = k]]

\* The answer: a Top Secret message to a contact without the key is not sent, and Top
\* Secret is switched off.
LookupReturns(t) ==
  /\ tasks[t].k = "lookup" /\ Unstage(t)
  /\ IF Msg(t).secret /\ Msg(t).to \notin capable
     THEN Goes(t, "idle") /\ secret' = secret \ {Msg(t).to}
     ELSE Goes(t, "grant") /\ UNCHANGED secret
  /\ UNCHANGED <<active, text, reply, rec, blocked, capable, uploads, sent, ops, files>>
LookupFails(t) ==
  /\ tasks[t].k = "lookup" /\ Unstage(t) /\ Goes(t, "idle")
  /\ UNCHANGED <<active, text, reply, rec, secret, blocked, capable, uploads, sent, ops, files>>

\* grantAttachmentsAccess for both people, then the two deliveries.
GrantAccess(t) ==
  /\ tasks[t].k = "grant"
  /\ tasks' = [tasks EXCEPT ![t].k = "peer", ![t].granted = Msg(t).files]
  /\ UNCHANGED <<active, text, staged, reply, rec, secret, blocked, capable, uploads, sent, ops, files, ghost>>
DeliverPeer(t) ==
  /\ tasks[t].k = "peer" /\ Goes(t, "self")
  /\ sent' = sent \union {[m |-> Msg(t), shown |-> tasks[t].shown, granted |-> tasks[t].granted]}
  /\ UNCHANGED <<active, text, staged, reply, rec, secret, blocked, capable, uploads, ops, files, ghost>>
\* Afterwards the message to answer is forgotten, whichever it is by then.
DeliverSelf(t) ==
  /\ tasks[t].k = "self" /\ Goes(t, "idle") /\ reply' = NoPeer
  /\ UNCHANGED <<active, text, staged, rec, secret, blocked, capable, uploads, sent, ops, files, ghost>>
SendFails(t) ==
  /\ tasks[t].k \in {"grant", "peer", "self"} /\ Goes(t, "idle")
  /\ UNCHANGED <<active, text, staged, reply, rec, secret, blocked, capable, uploads, sent, ops, files, ghost>>

-----------------------------------------------------------------------------
Next ==
  \/ \E p \in Peers \union {NoPeer} : OpenChat(p)
  \/ \E p \in Peers : CapabilityChanges(p)
  \/ HandleInputChange \/ ReplyToMessage \/ ClearReply \/ HandleFileSelect \/ AttachDriveRecord \/ ToggleBlock
  \/ SetDirectTopSecretEnabled \/ HandleSendWrapper
  \/ StartRecording \/ CancelRecording \/ SendRecording
  \/ \E f \in Files : Staged(f) \/ UploadFails(f) \/ RemoveStaged(f)
  \/ \E t \in Slots :
       \/ SecretChecked(t) \/ LookupReturns(t) \/ LookupFails(t) \/ GrantAccess(t)
       \/ DeliverPeer(t) \/ DeliverSelf(t) \/ SendFails(t)

Spec == Init /\ [][Next]_vars

-----------------------------------------------------------------------------
(* Properties.                                                              *)

\* A message answers a message of the chat it is sent to, also a voice note that is
\* sent from another chat than it was begun in (the reply target of the closure).
ReplySameChat == \A s \in sent : s.m.reply \in {NoPeer, s.m.to}

\* A typed message sent while the page says Top Secret is delivered as Top Secret or
\* not at all, whatever becomes of the setting and of the contact's keys meanwhile.
TopSecretKept == \A s \in sent : s.shown /\ ~s.m.voice => s.m.secret

\* Whoever gets a message has access to its attachments by then.
FilesGranted == \A s \in sent : s.m.files \subseteq s.granted

\* "Kontakt blockiert. Sie koennen keine Nachrichten senden oder empfangen.": nothing
\* is sent to a contact that is blocked at the click.
BlockedSilent == ~ghost.toblocked

\* "Dual-PQC + hybride Signatur + 4-fache Cipher-Kaskade aktiv": while the page says so
\* of a chat, what is sent there is Top Secret, voice notes too.
TopSecretShown == \A s \in sent : s.shown => s.m.secret

\* "Datei wird fuer 12 Stunden im Chat freigegeben.": a file that was staged is sent
\* with a message unless the person removes it.
StagedKept == ~ghost.dropped
=============================================================================
