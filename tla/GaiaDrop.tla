------------------------------ MODULE GaiaDrop ------------------------------
(***************************************************************************)
(* GaiaDrop: anybody writes to a GaiaID from the landing page              *)
(* (AuthScreen.jsx, useGaiaDrop.js), the node keeps the sealed text        *)
(* (Backend/gaiadrop), and the page of the addressee lists, opens and      *)
(* deletes it (useGaiaDrop.js, ListPane.jsx, DropPane.jsx).  The page loads *)
(* the list whenever the menu changes, whether or not an earlier load is    *)
(* still under way.                                                         *)
(***************************************************************************)
EXTENDS Integers, FiniteSets

CONSTANTS MaxDrops,   \* bound: texts the node accepts
          MaxTexts,   \* bound: texts the sender writes
          MaxOps,     \* bound: steps the addressee takes
          MaxFlight,  \* bound: requests of the addressee under way at a time
          Complete,   \* whether the addressee's public record has all three keys
          Fails,      \* requests may fail
          None

DropAssumption ==
    {MaxDrops, MaxTexts, MaxOps, MaxFlight} \subseteq Nat \ {0} /\ Complete \subseteq BOOLEAN /\ Fails \in BOOLEAN

VARIABLES node,    \* drop -> its state, its text and whether its sender gave a name
          record,  \* whether the public record of the addressee is complete
          sender,  \* the form of the landing page, and its submissions under way
          page,    \* what useGaiaDrop holds for the addressee
          reqs,    \* requests of the addressee under way
          ops, ghost
vars == <<node, record, sender, page, reqs, ops, ghost>>

Drops == 1..MaxDrops
Statuses == {"none", "new", "read"}
Stored == [status : Statuses \cup {"gone"}, text : 0..MaxTexts, named : BOOLEAN]
Nothing == [status |-> "none", text |-> 0, named |-> FALSE]
Answers == [Drops -> Statuses]

TypeOK ==
    /\ node \in [Drops -> Stored] /\ record \in BOOLEAN /\ ops \in 0..MaxOps
    /\ sender \in [text : 0..MaxTexts, last : 0..MaxTexts, named : BOOLEAN, status : BOOLEAN, error : BOOLEAN,
                   sends : SUBSET [text : 1..MaxTexts, named : BOOLEAN, stage : {"identity", "submit", "stored"}]]
    /\ page \in [menu : {"gaiadrop", "other"}, inbox : Answers, loading : BOOLEAN, error : BOOLEAN,
                 sel : Drops \cup {None}, confirm : Drops \cup {None}]
    /\ \A r \in reqs : /\ r.op \in {"load", "read", "delete"} /\ r.drop \in Drops \cup {None} /\ r.id \in 1..MaxOps
                       /\ (r.op = "load" /\ r.stage = "served" => r.found \in Answers)
    /\ ghost \in [plain : BOOLEAN, waited : BOOLEAN, lost : BOOLEAN, deleted : SUBSET Drops]

Init ==
    /\ node = [d \in Drops |-> Nothing] /\ record \in Complete /\ ops = 0 /\ reqs = {}
    /\ sender = [text |-> 0, last |-> 0, named |-> FALSE, status |-> FALSE, error |-> FALSE, sends |-> {}]
    /\ page = [menu |-> "other", inbox |-> [d \in Drops |-> "none"], loading |-> FALSE, error |-> FALSE,
               sel |-> None, confirm |-> None]
    /\ ghost = [plain |-> TRUE, waited |-> TRUE, lost |-> FALSE, deleted |-> {}]

-----------------------------------------------------------------------------
(* The landing page. *)

(* The sender types the next text, with or without a name. *)
Type(named) ==
    /\ sender.last < MaxTexts
    /\ sender' = [sender EXCEPT !.text = sender.last + 1, !.last = sender.last + 1, !.named = named]
    /\ ghost' = [ghost EXCEPT !.waited = @ /\ sender.sends = {}]
    /\ UNCHANGED <<node, record, page, reqs, ops>>

(* handleSubmitPublicGaiaDrop up to its first await; the button is never *)
(* disabled.  The same text sent twice at once is one entry here.        *)
HandleSubmitPublicGaiaDrop ==
    /\ IF sender.text = 0
       THEN sender' = [sender EXCEPT !.status = FALSE, !.error = TRUE]
       ELSE sender' = [sender EXCEPT !.status = FALSE, !.error = FALSE,
                         !.sends = @ \cup {[text |-> sender.text, named |-> sender.named, stage |-> "identity"]}]
    /\ ghost' = [ghost EXCEPT !.waited = @ /\ sender.sends = {}]
    /\ UNCHANGED <<node, record, page, reqs, ops>>

SubmissionFailed(s) == [sender EXCEPT !.sends = @ \ {s}, !.error = TRUE]

(* The public identity arrives: an incomplete set of keys ends the submission. *)
IdentityArrives(s) ==
    /\ s.stage = "identity"
    /\ sender' = IF record THEN [sender EXCEPT !.sends = (@ \ {s}) \cup {[s EXCEPT !.stage = "submit"]}]
                 ELSE SubmissionFailed(s)
    /\ UNCHANGED <<node, record, page, reqs, ops, ghost>>

(* The node stores the sealed text (Submit). *)
Submit(s) ==
    /\ s.stage = "submit"
    /\ \E d \in Drops :
          /\ node[d].status = "none" /\ \A e \in 1..(d-1) : node[e].status # "none"
          /\ node' = [node EXCEPT ![d] = [status |-> "new", text |-> s.text, named |-> s.named]]
    /\ sender' = [sender EXCEPT !.sends = (@ \ {s}) \cup {[s EXCEPT !.stage = "stored"]}]
    /\ UNCHANGED <<record, page, reqs, ops, ghost>>

(* The receipt empties the field, whatever it holds by now. *)
ReceiptArrives(s) ==
    /\ s.stage = "stored"
    /\ sender' = [sender EXCEPT !.sends = @ \ {s}, !.text = 0, !.status = TRUE]
    /\ UNCHANGED <<node, record, page, reqs, ops, ghost>>

(* A request of the sender, or its answer, is lost. *)
SendFails(s) ==
    /\ Fails /\ sender' = SubmissionFailed(s)
    /\ UNCHANGED <<node, record, page, reqs, ops, ghost>>

Sending == \E s \in sender.sends : IdentityArrives(s) \/ Submit(s) \/ ReceiptArrives(s) \/ SendFails(s)

-----------------------------------------------------------------------------
(* The page of the addressee. *)

Req(op, d) == [op |-> op, drop |-> d, id |-> ops + 1, stage |-> "asked", found |-> None]
Ask(rs) == reqs' = reqs \cup rs /\ ops' = ops + 1

(* A step of the addressee's; the confirmation covers the page. *)
Acts(g) ==
    /\ ops < MaxOps /\ Cardinality(reqs) < MaxFlight
    /\ ghost' = [g EXCEPT !.plain = @ /\ reqs = {}]
    /\ UNCHANGED <<node, record, sender>>

(* loadGaiaDropInbox up to its await. *)
Loads == [page EXCEPT !.loading = TRUE, !.error = FALSE]

(* The effect of App.jsx loads the list on every change of the menu. *)
SelectMenu(m) ==
    /\ Acts(ghost) /\ page.confirm = None /\ m # page.menu
    /\ page' = [Loads EXCEPT !.menu = m] /\ Ask({Req("load", None)})

(* The buttons of the list and of the pane load only when nothing is loading. *)
LoadGaiaDropInbox ==
    /\ Acts(ghost) /\ page.confirm = None /\ page.menu = "gaiadrop" /\ ~page.loading
    /\ page' = Loads /\ Ask({Req("load", None)})

(* An entry of the list is opened: a new one is reported as read. *)
HandleSelectDrop(d) ==
    /\ Acts(ghost) /\ page.confirm = None /\ page.menu = "gaiadrop" /\ page.inbox[d] # "none"
    /\ page' = [page EXCEPT !.sel = d]
    /\ Ask(IF page.inbox[d] = "new" THEN {Req("read", d)} ELSE {})

(* What DropPane shows beside the list.  App.jsx takes no error from the *)
(* hook and passes none on.                                              *)
ErrorPassed == FALSE
DetailShown == page.menu = "gaiadrop" /\ ~page.loading /\ ~ErrorPassed /\ page.sel # None

(* The drop opened shows its sender under the name DropPane reads; the node *)
(* sends senderLabel.                                                        *)
NodeFields == {"id", "targetIdentityId", "targetGaiaId", "senderLabel", "payload", "payloadHash", "status", "createdAt"}
ShownLabel(d) == "sender_label" \in NodeFields /\ node[d].named

CloseDrop ==
    /\ Acts(ghost) /\ page.confirm = None /\ DetailShown
    /\ page' = [page EXCEPT !.sel = None] /\ Ask({})

(* handleDeleteDrop asks before it deletes. *)
HandleDeleteDrop ==
    /\ page.confirm = None /\ DetailShown /\ ops < MaxOps
    /\ page' = [page EXCEPT !.confirm = page.sel]
    /\ UNCHANGED <<node, record, sender, reqs, ops, ghost>>

ConfirmDelete(yes) ==
    /\ Acts(ghost) /\ page.confirm # None
    /\ page' = [page EXCEPT !.confirm = None] /\ Ask(IF yes THEN {Req("delete", page.confirm)} ELSE {})

-----------------------------------------------------------------------------
(* The node answers the addressee. *)

Listed == [d \in Drops |-> IF node[d].status = "gone" THEN "none" ELSE node[d].status]

Serve(r) ==
    /\ r.stage = "asked"
    /\ node' = IF r.op = "load" \/ node[r.drop].status = "gone" THEN node
               ELSE [node EXCEPT ![r.drop].status = IF r.op = "read" THEN "read" ELSE "gone"]
    /\ reqs' = (reqs \ {r}) \cup {[r EXCEPT !.stage = "served", !.found = IF r.op = "load" THEN Listed ELSE None]}
    /\ UNCHANGED <<record, sender, page, ops, ghost>>

(* handleDeleteDrop after its await: what is open is closed, whichever it is. *)
Dropped(d) == [page EXCEPT !.sel = None, !.inbox[d] = "none"]

(* handleSelectDrop after its await. *)
Marked(d) == [page EXCEPT !.inbox[d] = IF @ = "none" THEN @ ELSE "read"]

(* loadGaiaDropInbox after its await. *)
Arrived(found) == [page EXCEPT !.inbox = found, !.loading = FALSE]

Answer(r) ==
    /\ r.stage = "served"
    /\ page' = CASE r.op = "load" -> Arrived(r.found)
                 [] r.op = "read" -> Marked(r.drop)
                 [] r.op = "delete" -> Dropped(r.drop)
    /\ ghost' = IF r.op = "delete" THEN [ghost EXCEPT !.deleted = @ \cup {r.drop}] ELSE ghost
    /\ reqs' = reqs \ {r}
    /\ UNCHANGED <<node, record, sender, ops>>

(* A request or its answer is lost; only a load keeps the error. *)
RequestFails(r) ==
    /\ Fails
    /\ page' = IF r.op = "load" THEN [page EXCEPT !.error = TRUE, !.loading = FALSE] ELSE page
    /\ ghost' = [ghost EXCEPT !.lost = TRUE]
    /\ reqs' = reqs \ {r}
    /\ UNCHANGED <<node, record, sender, ops>>

Next ==
    \/ \E named \in BOOLEAN : Type(named)
    \/ HandleSubmitPublicGaiaDrop
    \/ Sending
    \/ \E m \in {"gaiadrop", "other"} : SelectMenu(m)
    \/ LoadGaiaDropInbox \/ CloseDrop \/ HandleDeleteDrop
    \/ \E d \in Drops : HandleSelectDrop(d)
    \/ \E yes \in BOOLEAN : ConfirmDelete(yes)
    \/ \E r \in reqs : Serve(r) \/ Answer(r) \/ RequestFails(r)

Spec == Init /\ [][Next]_vars

-----------------------------------------------------------------------------
(* A text the sender wrote is still in the field or has reached the node, *)
(* as long as the sender waits for each answer (handleSubmitPublicGaiaDrop *)
(* keeps the field when it fails).  A text typed over is the sender's own  *)
(* doing.                                                                   *)
TextKept ==
    ghost.waited /\ sender.last # 0 => sender.text = sender.last \/ \E d \in Drops : node[d].text = sender.last

(* While the addressee waits for each answer and none is lost, the list    *)
(* shows no drop that is deleted, and none as new that was opened:         *)
(* handleSelectDrop and handleDeleteDrop change the list as the node does. *)
InboxTrue ==
    ghost.plain /\ ~ghost.lost /\ reqs = {} =>
        \A d \in Drops : page.inbox[d] # "none" => page.inbox[d] = Listed[d]

(* A drop said to be deleted is not in the list ("Der Drop wurde           *)
(* erfolgreich gelöscht.").                                                *)
DeletedGone == \A d \in ghost.deleted : page.inbox[d] = "none"

(* A list that could not be loaded is said to be so in the pane            *)
(* ("GaiaDrop Inbox konnte nicht geladen werden.").                        *)
LoadErrorShown == page.error /\ page.menu = "gaiadrop" => ErrorPassed

(* A drop opened shows the name its sender gave ("Dein Name / Alias").     *)
LabelShown == DetailShown /\ node[page.sel].named => ShownLabel(page.sel)
=============================================================================
