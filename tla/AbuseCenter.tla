----------------------------- MODULE AbuseCenter -----------------------------
(***************************************************************************)
(* The governance centre (components/chat/AbuseCenter.jsx): four tabs that *)
(* share one loading flag, one selected case and one loaded case detail,   *)
(* and the forms that review, appeal, disclose and decide cases.  Every    *)
(* answer is applied to the page as it is when the answer arrives.  The    *)
(* node's side (governance/service.go, handler.go) is here as far as the   *)
(* page sees it; its own concurrency is module Governance.                 *)
(***************************************************************************)
EXTENDS Naturals, FiniteSets

CONSTANTS Cases, None,
          MyCases,     \* the cases this user reported
          Roles,       \* the roles the node grants this user
          Fails,       \* requests may fail on the way
          MaxReqs,     \* bound: requests made
          MaxFlight    \* bound: requests under way at once

AbuseAssumption ==
    /\ MyCases \subseteq Cases /\ Fails \in BOOLEAN /\ {MaxReqs, MaxFlight} \subseteq Nat
    /\ Roles \subseteq {"trusted_reviewer", "senior_reviewer", "node_operator"}

VARIABLES node,    \* case status, appeals, my reviews, snapshots
          page,    \* tab, loading, busy, roles, lists, selectedCase, caseDetail, ...
          reqs,    \* requests under way: what was asked and, once served, what was found
          count, ghost
vars == <<node, page, reqs, count, ghost>>

Tabs == {"my_reports", "reviewer_queue", "operator_panel", "public_transparency"}
Status == {"new", "actioned", "appealed", "closed"}
Writes == {"review", "appeal", "disclose", "decide", "snapshot"}
Nodes == [status : [Cases -> Status], appeal : [Cases -> {"none", "pending", "decided"}],
          mine : SUBSET Cases, disclosed : SUBSET Cases, snaps : 0..1]
Rows == [id : Cases, status : Status]
Details == [id : Cases, status : Status, appeal : BOOLEAN, disclosed : BOOLEAN]

Finds(op) ==
    CASE op \in {"my_reports", "reviewer_queue"} -> SUBSET Rows
      [] op = "public_transparency" -> 0..1
      [] op \in {"detail", "refresh"} -> Details
      [] OTHER -> {None}

TypeOK ==
    /\ node \in Nodes
    /\ page.tab \in Tabs /\ {page.loading, page.busy} \subseteq BOOLEAN
    /\ page.roles \in {{}, Roles} /\ page.reports \subseteq Rows /\ page.queue \subseteq Rows
    /\ page.sel \in Rows \cup {None} /\ page.detail \in Details \cup {None}
    /\ page.snaps \in (0..1) \cup {None}
    /\ \A r \in reqs : /\ r.n \in 1..MaxReqs /\ r.op \in Tabs \cup Writes \cup {"detail", "refresh"}
                       /\ r.case \in Cases \cup {None} /\ r.tab \in Tabs
                       /\ {r.served, r.ok} \subseteq BOOLEAN
                       /\ r.found = None \/ r.found \in Finds(r.op)
    /\ count \in 0..MaxReqs /\ ghost \in [plain : BOOLEAN, refused : BOOLEAN, lost : BOOLEAN]

IsReviewer == page.roles \cap {"trusted_reviewer", "senior_reviewer"} # {}
IsOperator == "node_operator" \in page.roles
IsStaff == Roles # {}

RequestOf(op, c, t) == [n |-> count + 1, op |-> op, case |-> c, tab |-> t, served |-> FALSE, ok |-> TRUE,
                          found |-> None]
Ask(op, c, t, others) ==
    /\ count < MaxReqs /\ Cardinality(others) < MaxFlight /\ count' = count + 1
    /\ reqs' = others \cup {RequestOf(op, c, t)}

(* The page of loadTabData before its answer. *)
Loading(p) == [p EXCEPT !.loading = TRUE, !.sel = None, !.detail = None]

Init ==
    /\ node = [status |-> [c \in Cases |-> "new"], appeal |-> [c \in Cases |-> "none"],
               mine |-> {}, disclosed |-> {}, snaps |-> 0]
    /\ page = [tab |-> "my_reports", loading |-> TRUE, busy |-> FALSE, roles |-> {},
               reports |-> {}, queue |-> {}, sel |-> None, detail |-> None, snaps |-> None]
    /\ reqs = {[n |-> 1, op |-> "my_reports", case |-> None, tab |-> "my_reports",
                served |-> FALSE, ok |-> TRUE, found |-> None]}
    /\ count = 1 /\ ghost = [plain |-> TRUE, refused |-> FALSE, lost |-> FALSE]

(* ------------------------------- the node ------------------------------- *)
(* ReviewCase, AppealCase, ResolveAppeal, CreateCaseDisclosure and         *)
(* CreateTransparencySnapshot: whether the node takes the request.         *)
HasRole(role) == role \in Roles \/ (role = "trusted_reviewer" /\ "senior_reviewer" \in Roles)
Takes(r) ==
    CASE r.op = "review"   -> HasRole("trusted_reviewer") /\ r.case \notin node.mine
      [] r.op = "appeal"   -> node.appeal[r.case] = "none"
      [] r.op = "decide"   -> /\ HasRole("senior_reviewer") /\ node.appeal[r.case] = "pending"
                              /\ r.case \notin node.mine
      [] r.op = "disclose" -> IsStaff \/ r.case \in MyCases
      [] r.op \in {"detail", "refresh"} -> IsStaff \/ r.case \in MyCases
      [] r.op = "snapshot" -> node.snaps = 0
      [] OTHER -> TRUE

(* The node's tables after the request; a review may complete the consensus. *)
Afters(r) ==
    CASE r.op = "review" ->
            {[node EXCEPT !.mine = @ \cup {r.case}, !.status[r.case] = s] :
                s \in IF node.status[r.case] = "new" THEN {"new", "actioned"}
                                                      ELSE {node.status[r.case]}}
      [] r.op = "appeal"   -> {[node EXCEPT !.appeal[r.case] = "pending", !.status[r.case] = "appealed"]}
      [] r.op = "decide"   -> {[node EXCEPT !.appeal[r.case] = "decided", !.status[r.case] = "closed"]}
      [] r.op = "disclose" -> {[node EXCEPT !.disclosed = @ \cup {r.case}]}
      [] r.op = "snapshot" -> {[node EXCEPT !.snaps = 1]}
      [] OTHER -> {node}

(* What the answer tells: GetMyReports, GetReviewerQueue, the transparency *)
(* log, and GetReportDetail, which tells only staff of the appeal.         *)
RowsOf(n, cs) == {[id |-> c, status |-> n.status[c]] : c \in cs}
DetailOf(n, c) == [id |-> c, status |-> n.status[c], disclosed |-> c \in n.disclosed,
                   appeal |-> IsStaff /\ n.appeal[c] # "none"]
Found(r, n) ==
    CASE r.op = "my_reports" -> RowsOf(n, MyCases)
      [] r.op = "reviewer_queue" -> RowsOf(n, Cases)
      [] r.op = "public_transparency" -> n.snaps
      [] r.op \in {"detail", "refresh"} -> DetailOf(n, r.case)
      [] OTHER -> None

Served ==
    \E r \in reqs :
        /\ ~r.served
        /\ \E n \in IF Takes(r) THEN Afters(r) ELSE {node} :
              /\ node' = n
              /\ reqs' = (reqs \ {r}) \cup {[r EXCEPT !.served = TRUE, !.ok = Takes(r),
                                             !.found = IF Takes(r) THEN Found(r, n) ELSE None]}
        /\ ghost' = [ghost EXCEPT !.refused = @ \/ (/\ r.op = "decide" /\ ~HasRole("senior_reviewer")
                                                    /\ node.appeal[r.case] = "pending")]
        /\ UNCHANGED <<page, count>>

(* Other reviewers reach the consensus, other seniors decide the appeal. *)
OthersAct ==
    \E c \in Cases :
        /\ node' = CASE node.status[c] = "new" -> [node EXCEPT !.status[c] = "actioned"]
                     [] node.status[c] = "appealed" -> [node EXCEPT !.status[c] = "closed", !.appeal[c] = "decided"]
                     [] OTHER -> node
        /\ node' # node
        /\ UNCHANGED <<page, reqs, count, ghost>>

Lost ==
    /\ Fails
    /\ \E r \in reqs : r.ok /\ reqs' = (reqs \ {r}) \cup {[r EXCEPT !.ok = FALSE, !.served = TRUE,
                                                               !.found = None]}
    /\ ghost' = [ghost EXCEPT !.lost = TRUE] /\ UNCHANGED <<node, page, count>>

(* ------------------------------- the page ------------------------------- *)
RolesLoaded ==
    /\ page.roles # Roles
    /\ page' = [page EXCEPT !.roles = Roles]
    /\ UNCHANGED <<node, reqs, count, ghost>>

(* What the screen offers. *)
TabOffered(t) ==
    CASE t = "reviewer_queue" -> IsReviewer
      [] t = "operator_panel" -> IsOperator
      [] OTHER -> TRUE
ReportsTab == page.tab = "my_reports" /\ ~page.loading
AppealForm ==
    /\ ReportsTab /\ page.sel # None /\ page.sel.status \in {"actioned", "closed"}
    /\ page.detail # None => ~page.detail.appeal
QueueTab == page.tab = "reviewer_queue" /\ ~page.loading
ReviewForm ==
    /\ QueueTab /\ page.sel # None /\ page.detail # None
    /\ page.detail.status # "closed"
DisclosurePanel == (ReportsTab \/ QueueTab) /\ page.sel # None /\ page.detail # None
OperatorPanel == page.tab = "operator_panel" /\ ~page.loading
TransparencyTab == page.tab = "public_transparency" /\ ~page.loading /\ page.snaps # None

Waited == [ghost EXCEPT !.plain = @ /\ reqs = {}]

SelectTab ==
    \E t \in Tabs \ {page.tab} :
        /\ TabOffered(t) /\ Ask(t, None, t, reqs)
        /\ page' = [Loading(page) EXCEPT !.tab = t]
        /\ ghost' = Waited /\ UNCHANGED node

(* handleSelectCase.  Deviant: the former case's detail is kept meanwhile; *)
(* only the case's id is kept.                                             *)
Listed == (IF ReportsTab THEN page.reports ELSE {}) \cup (IF QueueTab THEN page.queue ELSE {})
HandleSelectCase ==
    \E c \in Listed :
        /\ Ask("detail", c.id, page.tab, reqs)
        /\ page' = [page EXCEPT !.sel = c, !.detail = None, !.loading = TRUE]
        /\ ghost' = Waited /\ UNCHANGED node

(* The forms: each sets busy, which disables all of them.  The operator's  *)
(* form is here with its target "appeal"; one snapshot is made.            *)
Submit(op, c) ==
    /\ ~page.busy /\ Ask(op, c, page.tab, reqs)
    /\ page' = [page EXCEPT !.busy = TRUE]
    /\ ghost' = Waited /\ UNCHANGED node
HandleReviewSubmit == ReviewForm /\ Submit("review", page.sel.id)
HandleAppealSubmit == AppealForm /\ Submit("appeal", page.sel.id)
HandleDisclosureSubmit == DisclosurePanel /\ Submit("disclose", page.sel.id)
HandleOperatorActionSubmit == OperatorPanel /\ \E c \in Cases : Submit("decide", c)
HandleSnapshotTrigger == OperatorPanel /\ node.snaps = 0 /\ Submit("snapshot", None)

(* ------------------------------- answers -------------------------------- *)
Answer(r) == r \in reqs /\ r.served

TabLoaded(r) ==
    /\ Answer(r) /\ r.op \in Tabs
    /\ reqs' = reqs \ {r}
    /\ page' = [page EXCEPT !.loading = FALSE,
                  !.reports = IF r.ok /\ r.op = "my_reports" THEN r.found ELSE @,
                  !.queue = IF r.ok /\ r.op = "reviewer_queue" THEN r.found ELSE @,
                  !.snaps = IF r.ok /\ r.op = "public_transparency" THEN r.found ELSE @]
    /\ UNCHANGED <<node, count, ghost>>

(* handleSelectCase's answer. *)
DetailLoaded(r) ==
    /\ Answer(r) /\ r.op = "detail"
    /\ reqs' = reqs \ {r}
    /\ page' = [page EXCEPT !.loading = FALSE,
                            !.detail = IF r.ok THEN r.found ELSE @]
    /\ UNCHANGED <<node, count, ghost>>

ActionAnswered(r) ==
    /\ Answer(r) /\ r.op \in {"review", "appeal", "decide"}
    /\ IF r.ok THEN /\ Ask(r.tab, None, r.tab, reqs \ {r})
                    /\ page' = [Loading(page) EXCEPT !.busy = FALSE]
               ELSE /\ reqs' = reqs \ {r} /\ page' = [page EXCEPT !.busy = FALSE]
                    /\ UNCHANGED count
    /\ UNCHANGED <<node, ghost>>

(* A disclosure stored, then refreshSelectedCase of the case it was made for. *)
DisclosureAnswered(r) ==
    /\ Answer(r) /\ r.op = "disclose"
    /\ IF r.ok THEN Ask("refresh", r.case, r.tab, reqs \ {r}) /\ UNCHANGED page
               ELSE /\ reqs' = reqs \ {r} /\ page' = [page EXCEPT !.busy = FALSE]
                    /\ UNCHANGED count
    /\ UNCHANGED <<node, ghost>>
RefreshSelectedCase(r) ==
    /\ Answer(r) /\ r.op = "refresh"
    /\ reqs' = reqs \ {r}
    /\ page' = [page EXCEPT !.busy = FALSE,
                            !.detail = IF r.ok THEN r.found ELSE @]
    /\ UNCHANGED <<node, count, ghost>>

(* The button is on the operator's tab, so the reload after it never runs. *)
SnapshotAnswered(r) ==
    /\ Answer(r) /\ r.op = "snapshot"
    /\ reqs' = reqs \ {r} /\ page' = [page EXCEPT !.busy = FALSE]
    /\ UNCHANGED <<node, count, ghost>>

Answers ==
    \E r \in reqs : \/ TabLoaded(r) \/ DetailLoaded(r) \/ ActionAnswered(r)
                    \/ DisclosureAnswered(r) \/ RefreshSelectedCase(r) \/ SnapshotAnswered(r)

UserActs ==
    \/ SelectTab \/ HandleSelectCase \/ HandleReviewSubmit \/ HandleAppealSubmit
    \/ HandleDisclosureSubmit \/ HandleOperatorActionSubmit \/ HandleSnapshotTrigger

Next == RolesLoaded \/ Served \/ OthersAct \/ Lost \/ UserActs \/ Answers

Spec == Init /\ [][Next]_vars

----------------------------------------------------------------------------
(* The review form files the review for the case whose details are shown   *)
(* above it (AbuseCenter.jsx: handleReviewSubmit sends selectedCase, the   *)
(* form stands below caseDetail).                                          *)
ReviewedAsShown == ReviewForm => page.detail.id = page.sel.id

(* The same for a user who waits for every answer before the next click,   *)
(* failed requests included, and for the disclosure panel as well.         *)
ActsOnShownPlain == ghost.plain /\ DisclosurePanel => page.detail.id = page.sel.id

(* With a case's detail loaded, the appeal form is offered only for a case *)
(* the node takes an appeal for.                                           *)
AppealOfferedOnce ==
    AppealForm /\ page.detail # None /\ page.detail.id = page.sel.id /\ ~page.busy
        /\ ghost.plain /\ ~ghost.lost
        => node.appeal[page.sel.id] = "none"

(* A user who waits sees every snapshot the node holds on the transparency *)
(* tab.                                                                    *)
SnapshotShown ==
    TransparencyTab /\ reqs = {} /\ ghost.plain /\ ~ghost.lost => page.snaps = node.snaps

(* A pending appeal the operator decides in the panel that offers it is    *)
(* not refused for want of a role.                                         *)
OperatorDecides == ~ghost.refused

(* The loading flag, which hides the whole tab, is set.                    *)
TabLoading == page.loading
=============================================================================
