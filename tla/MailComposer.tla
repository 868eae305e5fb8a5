----------------------------- MODULE MailComposer -----------------------------
(***************************************************************************)
(* The mail composer of the client (hooks/useEmails.js, ComposerPane.jsx)  *)
(* and the node's DraftScheduler (Backend/scheduler.go), joined by the     *)
(* table of drafts.  The composer runs several asynchronous tasks at once  *)
(* and nothing orders them: the autosave timer, the upload of a file and   *)
(* every pressed "send".  They share activeDraftIdRef (ref below), the     *)
(* fields of the one composer, uploadFile (pill) and uploadedMeta (meta).  *)
(*                                                                         *)
(* A mail is one text a person writes, whatever its fields; Form[m] is how *)
(* its recipient is written: "gaia" for @name:node, "display" for          *)
(* name@node, the form every contact card and reply fills in.              *)
(***************************************************************************)
EXTENDS Naturals, FiniteSets

CONSTANTS Mails, Files, Form, NoMail, NoFile,
          MaxDrafts,   \* drafts the node creates
          MaxSaves,    \* autosaves the timer starts
          MaxSends     \* times "send" is pressed

FormAssumption ==
  /\ Form \in [Mails -> {"gaia", "display"}] /\ NoMail \notin Mails
  /\ MaxDrafts \in Nat /\ MaxSaves \in Nat /\ MaxSends \in Nat

VARIABLES comp, timer, ref, pill, meta, uploads, saves, sends,
          drafts, made, job, copies, ghost

ui == <<comp, timer, ref>>
file == <<pill, meta, uploads>>
node == <<drafts, made, job, copies>>
vars == <<comp, timer, ref, pill, meta, uploads, saves, sends,
          drafts, made, job, copies, ghost>>

NoDraft == 0
Ids == 1..MaxDrafts
NoRow == [mail |-> NoMail, sched |-> FALSE, env |-> FALSE]
Rows == {NoRow} \union [mail : Mails, sched : BOOLEAN, env : BOOLEAN]
IdleSave == [st |-> "idle", id |-> NoDraft, row |-> NoRow]
IdleSend == [st |-> "idle", mail |-> NoMail, smtp |-> FALSE, sched |-> FALSE,
             file |-> NoFile]
NoJob == [id |-> NoDraft, row |-> NoRow, ok |-> FALSE]

\* The one type invariant of the module.
TypeOK ==
  /\ comp \in [open : BOOLEAN, mail : Mails \union {NoMail}, smtp : BOOLEAN, sched : BOOLEAN]
  /\ timer \in BOOLEAN /\ ref \in Ids \union {NoDraft}
  /\ pill \in Files \union {NoFile} /\ meta \in Files \union {NoFile}
  /\ uploads \subseteq Files
  /\ saves \in [1..MaxSaves -> [st : {"idle", "sent", "stored", "done"},
                                id : Ids \union {NoDraft}, row : Rows]]
  /\ \A n \in 1..MaxSaves : saves[n].st = "sent" => saves[n].row # NoRow
  /\ sends \in [1..MaxSends ->
       [st : {"idle", "resolve", "smtp", "deliver", "self", "clean", "delete",
              "plan", "planned", "done"},
        mail : Mails \union {NoMail}, smtp : BOOLEAN, sched : BOOLEAN,
        file : Files \union {NoFile}]]
  /\ drafts \in [Ids -> Rows] /\ made \in 0..MaxDrafts
  /\ job \in [id : Ids \union {NoDraft}, row : Rows, ok : BOOLEAN]
  /\ copies \in [native : [Mails -> Nat], legacy : [Mails -> Nat]]

Init ==
  /\ comp = [open |-> FALSE, mail |-> NoMail, smtp |-> FALSE, sched |-> FALSE]
  /\ timer = FALSE /\ ref = NoDraft
  /\ pill = NoFile /\ meta = NoFile /\ uploads = {}
  /\ saves = [n \in 1..MaxSaves |-> IdleSave]
  /\ sends = [n \in 1..MaxSends |-> IdleSend]
  /\ drafts = [d \in Ids |-> NoRow] /\ made = 0 /\ job = NoJob
  /\ copies = [native |-> [m \in Mails |-> 0], legacy |-> [m \in Mails |-> 0]]
  /\ ghost = [used |-> {}, saved |-> {}, planned |-> {}, opened |-> {}, mixed |-> FALSE, bare |-> {},
              late |-> FALSE, crashed |-> FALSE, hidden |-> FALSE,
              presses |-> [m \in Mails |-> 0], smtp |-> {}]

-----------------------------------------------------------------------------
(* The node's table of drafts: an upsert by id, and a fresh id for none.    *)

Stored(id) == IF id = NoDraft THEN made + 1 ELSE id

CanStore(id) == id # NoDraft \/ made < MaxDrafts

SaveMailDraft(id, row) ==
  /\ drafts' = [drafts EXCEPT ![Stored(id)] = row]
  /\ made' = IF id = NoDraft THEN made + 1 ELSE made

\* A recipient is a legacy address to the node when it is written name@node.
IsLegacy(row) == Form[row.mail] = "display"

\* The draft named by an id holds the text of another mail.
Foreign(id, m) == id # NoDraft /\ drafts[id].mail \notin {m, NoMail}

-----------------------------------------------------------------------------
(* The composer's fields.                                                   *)

\* The autosave effect re-runs whenever a field changes: the timer is set
\* again, or cleared when there is nothing the composer would save.
Armed(c) == c.open /\ ~c.smtp /\ c.mail # NoMail

Edited(c) == comp' = c /\ timer' = Armed(c)

OnlyFields == UNCHANGED <<pill, meta, uploads, saves, sends, node>>

\* The button of the list pane opens an empty composer.  It keeps the draft id.
StartCompose ==
  /\ Edited([comp EXCEPT !.open = TRUE, !.mail = NoMail])
  /\ UNCHANGED <<ref, ghost>> /\ OnlyFields

\* The keyboard shortcut does the same and forgets the draft id.
ShortcutCompose ==
  /\ Edited([comp EXCEPT !.open = TRUE, !.mail = NoMail]) /\ ref' = NoDraft
  /\ UNCHANGED ghost /\ OnlyFields

\* A reply or a forward opens it with fields filled in.
HandleReplyMail(m) ==
  /\ m \notin ghost.used
  /\ Edited([comp EXCEPT !.open = TRUE, !.mail = m])
  /\ ghost' = [ghost EXCEPT !.used = @ \union {m}]
  /\ UNCHANGED ref /\ OnlyFields

\* A contact's card fills in the recipient the same way.
WriteToContact(m) == HandleReplyMail(m)

\* A card of the drafts folder opens its text, in SMTP mode when the recipient
\* is a legacy address, and takes its id.
OpenDraft(d) ==
  /\ drafts[d] # NoRow
  /\ Edited([comp EXCEPT !.open = TRUE, !.mail = drafts[d].mail, !.smtp = IsLegacy(drafts[d])])
  /\ ref' = d /\ OnlyFields
  /\ ghost' = [ghost EXCEPT !.opened = @ \union {drafts[d].mail}]

\* Typing into an empty composer, or on into the same mail.
TypeText(m) ==
  /\ comp.open
  /\ m = comp.mail \/ (comp.mail = NoMail /\ m \notin ghost.used)
  /\ Edited([comp EXCEPT !.mail = m])
  /\ ghost' = [ghost EXCEPT !.used = @ \union {m}]
  /\ UNCHANGED ref /\ OnlyFields

\* So does the signature, set into an empty body when the composer is mounted,
\* and a contact taken from the suggestions.
InsertSignature(m) == TypeText(m)

\* The mode and the time of sending are fields too.
ChooseMode ==
  /\ comp.open /\ Edited([comp EXCEPT !.smtp = ~@])
  /\ UNCHANGED <<ref, ghost>> /\ OnlyFields

ChooseTime ==
  /\ comp.open /\ Edited([comp EXCEPT !.sched = ~@])
  /\ UNCHANGED <<ref, ghost>> /\ OnlyFields

\* "Abbrechen", the back button and every navigation only hide the composer; the
\* text in it is out of reach, since every way to open it overwrites the fields.
Cancel ==
  /\ comp.open /\ Edited([comp EXCEPT !.open = FALSE, !.mail = NoMail])
  /\ UNCHANGED <<ref, ghost>> /\ OnlyFields

-----------------------------------------------------------------------------
(* Autosave.                                                                *)

\* Four idle seconds: the fields are sent under the id known by then.
Autosave(n) ==
  /\ timer /\ saves[n].st = "idle"
  /\ \A k \in 1..n - 1 : saves[k].st # "idle"
  /\ saves' = [saves EXCEPT ![n] = [st |-> "sent", id |-> ref,
       row |-> [mail |-> comp.mail, sched |-> comp.sched, env |-> FALSE]]]
  /\ timer' = FALSE
  /\ ghost' = [ghost EXCEPT !.mixed = @ \/ Foreign(ref, comp.mail)]
  /\ UNCHANGED <<comp, ref, pill, meta, uploads, sends, node>>

\* The node stores it ...
AutosaveStored(n) ==
  /\ saves[n].st = "sent" /\ CanStore(saves[n].id)
  /\ SaveMailDraft(saves[n].id, saves[n].row)
  /\ saves' = [saves EXCEPT ![n].st = "stored", ![n].id = Stored(saves[n].id)]
  /\ ghost' = [ghost EXCEPT !.saved = @ \union {saves[n].row.mail},
                            !.mixed = @ \/ Foreign(saves[n].id, saves[n].row.mail)]
  /\ UNCHANGED <<comp, timer, ref, pill, meta, uploads, sends, job, copies>>

\* ... and the answer sets the id, whatever is being composed by then.
AutosaveReturns(n) ==
  /\ saves[n].st = "stored"
  /\ ref' = saves[n].id
  /\ saves' = [saves EXCEPT ![n] = [IdleSave EXCEPT !.st = "done"]]
  /\ UNCHANGED <<comp, timer, pill, meta, uploads, sends, node, ghost>>

\* The request or its answer is lost; nothing retries it.
AutosaveFails(n) ==
  /\ saves[n].st \in {"sent", "stored"}
  /\ saves' = [saves EXCEPT ![n] = [IdleSave EXCEPT !.st = "done"]]
  /\ UNCHANGED <<comp, timer, ref, pill, meta, uploads, sends, node, ghost>>

-----------------------------------------------------------------------------
(* Attachments.                                                             *)

\* A chosen file is shown and its upload begins; in SMTP mode it is only noted.
HandleFileUpload(f) ==
  /\ comp.open /\ f \notin uploads /\ pill # f /\ meta # f
  /\ pill' = f
  /\ meta' = IF comp.smtp THEN f ELSE NoFile
  /\ uploads' = IF comp.smtp THEN uploads ELSE uploads \union {f}
  /\ UNCHANGED <<comp, timer, ref, saves, sends, node, ghost>>

\* The last chunk is up: its description becomes the attachment.
UploadDone(f) ==
  /\ f \in uploads /\ uploads' = uploads \ {f} /\ meta' = f
  /\ ghost' = [ghost EXCEPT !.late = @ \/ pill # f]
  /\ UNCHANGED <<comp, timer, ref, pill, saves, sends, node>>

UploadFails(f) ==
  /\ f \in uploads /\ uploads' = uploads \ {f} /\ pill' = NoFile
  /\ ghost' = [ghost EXCEPT !.late = @ \/ pill # f]
  /\ UNCHANGED <<comp, timer, ref, meta, saves, sends, node>>

-----------------------------------------------------------------------------
(* handleSendMail.  The button stays enabled while a send is under way.     *)

ToSt(s, st) == sends' = [sends EXCEPT ![s] = IF st = "done" THEN [IdleSend EXCEPT !.st = st]
                                                 ELSE [@ EXCEPT !.st = st]]

Submit(s) ==
  /\ comp.open /\ comp.mail # NoMail /\ sends[s].st = "idle"
  /\ \A k \in 1..s - 1 : sends[k].st # "idle"
  /\ sends' = [sends EXCEPT ![s] =
       [st |-> CASE comp.sched /\ comp.smtp -> "plan"
                 [] comp.smtp -> "smtp"
                 [] OTHER -> "resolve",
        mail |-> comp.mail, smtp |-> comp.smtp, sched |-> comp.sched,
        file |-> meta]]
  /\ ghost' = [ghost EXCEPT !.presses[comp.mail] = @ + 1,
       !.hidden = @ \/ meta \notin {NoFile, pill},
       !.smtp = IF comp.smtp THEN @ \union {comp.mail} ELSE @]
  /\ UNCHANGED <<comp, timer, ref, pill, meta, uploads, saves, node>>

\* The recipient is found, a changed key is confirmed, the texts are sealed and
\* the file is shared with the recipient ...
Resolve(s) ==
  /\ sends[s].st = "resolve"
  /\ ToSt(s, IF sends[s].sched THEN "plan" ELSE "deliver")
  /\ UNCHANGED <<ui, file, saves, node, ghost>>

\* ... or one of these fails, or the person cancels: the composer is left alone.
SendFails(s) ==
  /\ sends[s].st \in {"resolve", "smtp", "deliver", "self", "plan"}
  /\ ToSt(s, "done")
  /\ UNCHANGED <<ui, file, saves, node, ghost>>

\* Deviant: the draft is deleted before the recipient has the mail.
DeliverAfterDelete(s) ==
  /\ sends[s].st = "deliver"
  /\ IF ref # NoDraft /\ drafts[ref] # NoRow
     THEN /\ drafts' = [drafts EXCEPT ![ref] = NoRow] /\ UNCHANGED <<sends, copies>>
     ELSE /\ copies' = [copies EXCEPT !.native[sends[s].mail] = @ + 1]
          /\ ToSt(s, "self") /\ UNCHANGED drafts
  /\ UNCHANGED <<ui, file, saves, made, job, ghost>>

\* The recipient's copy.
Deliver(s) ==
  /\ sends[s].st = "deliver"
  /\ copies' = [copies EXCEPT !.native[sends[s].mail] = @ + 1]
  /\ ToSt(s, "self")
  /\ UNCHANGED <<ui, file, saves, drafts, made, job, ghost>>

\* The node has it but the answer is lost: an error to the sender.
DeliverUnanswered(s) ==
  /\ sends[s].st = "deliver"
  /\ copies' = [copies EXCEPT !.native[sends[s].mail] = @ + 1]
  /\ ToSt(s, "done")
  /\ UNCHANGED <<ui, file, saves, drafts, made, job, ghost>>

\* The sender's own copy, for the folder of sent mails.
DeliverSelf(s) ==
  /\ sends[s].st = "self"
  /\ ToSt(s, "clean")
  /\ UNCHANGED <<ui, file, saves, node, ghost>>

SendSmtpMail(s) ==
  /\ sends[s].st = "smtp"
  /\ copies' = [copies EXCEPT !.legacy[sends[s].mail] = @ + 1]
  /\ ToSt(s, "clean")
  /\ UNCHANGED <<ui, file, saves, drafts, made, job, ghost>>

\* The draft that ref names by now is deleted; a failure to is ignored.
DeleteDraft(s) ==
  /\ sends[s].st = "clean" /\ ref # NoDraft
  /\ \/ drafts' = [drafts EXCEPT ![ref] = NoRow]
     \/ UNCHANGED drafts
  /\ ToSt(s, "delete")
  /\ ghost' = [ghost EXCEPT !.mixed = @ \/ Foreign(ref, sends[s].mail)]
  /\ UNCHANGED <<ui, file, saves, made, job, copies>>

\* The composer is emptied and closed.  The chosen time is not reset.
Finish(s) ==
  /\ sends[s].st = "delete" \/ (sends[s].st = "clean" /\ ref = NoDraft)
  /\ ref' = NoDraft /\ pill' = NoFile /\ meta' = NoFile /\ UNCHANGED uploads
  /\ Edited([comp EXCEPT !.open = FALSE, !.mail = NoMail])
  /\ ToSt(s, "done")
  /\ UNCHANGED <<saves, node, ghost>>

\* A mail with a time is stored as a draft, with its sealed envelopes unless it
\* goes by SMTP; the id is the one known when the request is built.
PlanStored(s) ==
  LET row == [mail |-> sends[s].mail, sched |-> TRUE, env |-> ~sends[s].smtp] IN
  /\ sends[s].st = "plan" /\ CanStore(ref)
  /\ SaveMailDraft(ref, row)
  /\ ToSt(s, "planned")
  /\ ghost' = [ghost EXCEPT !.mixed = @ \/ Foreign(ref, row.mail)]
  /\ UNCHANGED <<ui, file, saves, job, copies>>

\* "Versand geplant": everything is reset, the time and the id included.
Planned(s) ==
  /\ sends[s].st = "planned"
  /\ ref' = NoDraft /\ pill' = NoFile /\ meta' = NoFile /\ UNCHANGED uploads
  /\ Edited([comp EXCEPT !.open = FALSE, !.mail = NoMail, !.sched = FALSE])
  /\ ToSt(s, "done")
  /\ ghost' = [ghost EXCEPT !.planned = @ \union {sends[s].mail},
                            !.saved = @ \union {sends[s].mail}]
  /\ UNCHANGED <<saves, node>>

-----------------------------------------------------------------------------
(* The DraftScheduler: one goroutine, every 15 seconds.                     *)

\* A due draft is sent: by SMTP to a legacy address, else from its envelopes.
SendDueDraft(d, ok) ==
  LET row == drafts[d] IN
  /\ job = NoJob /\ row.sched /\ (IsLegacy(row) \/ row.env)
  /\ job' = [id |-> d, row |-> row, ok |-> ok]
  /\ copies' = IF IsLegacy(row)
               THEN [copies EXCEPT !.legacy[row.mail] = @ + IF ok THEN 1 ELSE 0]
               ELSE [copies EXCEPT !.native[row.mail] = @ + IF ok THEN 1 ELSE 0]
  /\ UNCHANGED <<ui, file, saves, sends, drafts, made, ghost>>

\* A draft without envelopes is deleted.
DropDueDraft(d) ==
  /\ job = NoJob /\ drafts[d].sched /\ ~IsLegacy(drafts[d]) /\ ~drafts[d].env
  /\ drafts' = [drafts EXCEPT ![d] = NoRow]
  /\ ghost' = [ghost EXCEPT !.bare = @ \union {drafts[d].mail}]
  /\ UNCHANGED <<ui, file, saves, sends, made, job, copies>>

\* Sent: the draft is deleted.  Not sent: the row read before is written back
\* without its time.
FinishDueDraft ==
  /\ job # NoJob /\ job' = NoJob
  /\ drafts' = [drafts EXCEPT ![job.id] = IF job.ok THEN NoRow
                                          ELSE [job.row EXCEPT !.sched = FALSE]]
  /\ UNCHANGED <<ui, file, saves, sends, made, copies>>
  /\ ghost' = [ghost EXCEPT !.mixed = @ \/ Foreign(job.id, job.row.mail)]

\* The node stops between the two and starts again.
SchedulerCrash ==
  /\ ~ghost.crashed   \* bound: once
  /\ job # NoJob /\ job' = NoJob
  /\ ghost' = [ghost EXCEPT !.crashed = TRUE]
  /\ UNCHANGED <<ui, file, saves, sends, drafts, made, copies>>

-----------------------------------------------------------------------------
Next ==
  \/ StartCompose \/ ShortcutCompose \/ ChooseMode \/ ChooseTime \/ Cancel
  \/ \E m \in Mails : HandleReplyMail(m) \/ WriteToContact(m) \/ TypeText(m) \/ InsertSignature(m)
  \/ \E d \in Ids : OpenDraft(d) \/ DropDueDraft(d) \/ \E ok \in BOOLEAN : SendDueDraft(d, ok)
  \/ \E n \in 1..MaxSaves : Autosave(n) \/ AutosaveStored(n) \/ AutosaveReturns(n) \/ AutosaveFails(n)
  \/ \E f \in Files : HandleFileUpload(f) \/ UploadDone(f) \/ UploadFails(f)
  \/ \E s \in 1..MaxSends :
       Submit(s) \/ Resolve(s) \/ SendFails(s) \/ Deliver(s) \/ DeliverUnanswered(s)
       \/ DeliverSelf(s) \/ SendSmtpMail(s) \/ DeleteDraft(s) \/ Finish(s)
       \/ PlanStored(s) \/ Planned(s)
  \/ FinishDueDraft \/ SchedulerCrash

Spec == Init /\ [][Next]_vars

-----------------------------------------------------------------------------
(* Properties.                                                              *)

Delivered(m) == copies.native[m] + copies.legacy[m] > 0

\* A text the node has accepted as a draft is not lost before its recipient has
\* the mail: some draft or the composer still holds it, whatever autosaves,
\* sends and scheduler runs overlap.  The two ways out of this are named: a
\* save or a delete issued with the id of another mail's draft (mixed: the list
\* pane, a reply and a late answer keep or set activeDraftIdRef,
\* useEmails.js:635), and the scheduler's deletion of a draft that was saved
\* with a time and no envelopes (bare).
KeptUntilSent ==
  ~ghost.mixed =>
    \A m \in ghost.saved \ ghost.bare :
      Delivered(m) \/ (comp.open /\ comp.mail = m) \/ \E d \in Ids : drafts[d].mail = m

\* The recipient gets a mail at most once for every time "send" was pressed on
\* it: neither the autosaved copies of a mail, nor a planned draft next to a
\* direct send, nor the scheduler's retries add one (a node that stops between
\* sending and deleting excepted, as is the legacy path, see NativeStaysNative).
SentOnce ==
  ~ghost.crashed =>
    \A m \in Mails : Form[m] = "gaia" => copies.native[m] <= ghost.presses[m]

\* A mail leaves with the file the composer shows, or with none: uploadedMeta is
\* never another file than uploadFile when "send" is pressed, unless an upload
\* ended after the composer had moved on to another file or mail (late).
SentShown == ~ghost.late => ~ghost.hidden

\* A mail composed for the native network is never forwarded by the SMTP bridge
\* (README.md:990).
NativeStaysNative == \A m \in Mails \ ghost.smtp : copies.legacy[m] = 0

\* After "Versand geplant" (useEmails.js:924) the node holds the sealed mail until
\* it has sent it, if its sender does not open the draft again.
PlannedKept ==
  \A m \in ghost.planned \ (ghost.opened \union ghost.smtp) : Form[m] = "gaia" /\ ~ghost.mixed =>
    Delivered(m) \/ \E d \in Ids : drafts[d].mail = m /\ drafts[d].env

=============================================================================
