----------------------------- MODULE GsnProfile -----------------------------
(***************************************************************************)
(* The profile drawer of the GSN pane (GsnPane.jsx, useGsn.js): opening a  *)
(* profile, following, editing the own profile with an avatar that is      *)
(* uploaded, and the report dialog.  Every request is answered later, in   *)
(* any order, and its answer is applied to the drawer as it then is.       *)
(***************************************************************************)
EXTENDS Naturals, FiniteSets

CONSTANTS Me, Others, None,
          Fails,       \* requests may fail
          MaxReqs,     \* bound: requests made
          MaxData      \* bound: versions of the own profile's fields

ProfileAssumption == Fails \in BOOLEAN /\ {MaxReqs, MaxData} \subseteq Nat

VARIABLES node,    \* whom this user follows, the own profile's fields
          drawer,  \* activeProfile, or None
          page,    \* loading, edit, the editor's fields, avatar upload
          report,  \* reportModalTarget, submittingReport
          reqs,    \* requests under way: what was asked and, once served, what was found
          count, ghost
vars == <<node, drawer, page, report, reqs, count, ghost>>

People == {Me} \cup Others
Fields == [text : 0..MaxData, avatar : 0..MaxData]
Nodes == [follows : SUBSET Others, fields : Fields]
Ops == {"load", "follow", "unfollow", "save"}
Profiles == [id : People, following : BOOLEAN, followers : 0..MaxReqs, fields : Fields]

TypeOK ==
    /\ node \in Nodes /\ drawer \in Profiles \cup {None}
    /\ page \in [loading : BOOLEAN, edit : BOOLEAN, form : Fields, upload : 0..MaxData]
    /\ report \in [target : Others \cup {None}, sending : BOOLEAN, filed : 0..2]
    /\ \A r \in reqs : /\ r.n \in 1..MaxReqs /\ r.op \in Ops /\ r.who \in People
                       /\ r.form \in Fields /\ r.ans \in Nodes \cup {None}
    /\ count \in 0..MaxReqs /\ ghost \in BOOLEAN

Blank == [text |-> 0, avatar |-> 0]

Init ==
    /\ node = [follows |-> {}, fields |-> Blank] /\ drawer = None
    /\ page = [loading |-> FALSE, edit |-> FALSE, form |-> Blank, upload |-> 0]
    /\ report = [target |-> None, sending |-> FALSE, filed |-> 0]
    /\ reqs = {} /\ count = 0 /\ ghost = TRUE

(* A profile as the node tells it. *)
Profile(n, x) ==
    [id |-> x, following |-> x \in n.follows, followers |-> IF x \in n.follows THEN 1 ELSE 0,
     fields |-> IF x = Me THEN n.fields ELSE Blank]

Ask(op, who) ==
    /\ count < MaxReqs /\ count' = count + 1
    /\ reqs' = reqs \cup {[n |-> count', op |-> op, who |-> who, form |-> page.form, ans |-> None]}
    /\ ghost' = (ghost /\ reqs = {})

(* FollowUser, UnfollowUser, UpdateProfile, GetProfile *)
After(r) ==
    CASE r.op = "follow"   -> [node EXCEPT !.follows = @ \cup {r.who}]
      [] r.op = "unfollow" -> [node EXCEPT !.follows = @ \ {r.who}]
      [] r.op = "save"     -> [node EXCEPT !.fields = r.form]
      [] OTHER             -> node

NodeServes(r) ==
    /\ r.ans = None /\ node' = After(r)
    /\ reqs' = (reqs \ {r}) \cup {[r EXCEPT !.ans = node']}
    /\ UNCHANGED <<drawer, page, report, count, ghost>>

-----------------------------------------------------------------------------
(* What the drawer shows. *)
ReportCovers == report.target # None
ProfileView == drawer # None /\ ~page.loading /\ ~page.edit /\ ~ReportCovers
EditorView == drawer # None /\ ~page.loading /\ page.edit /\ ~ReportCovers

HandleOpenProfile(x) ==
    /\ ~ReportCovers /\ Ask("load", x) /\ page' = [page EXCEPT !.loading = TRUE]
    /\ UNCHANGED <<node, drawer, report>>

CloseDrawer ==
    /\ drawer # None /\ ~ReportCovers /\ drawer' = None
    /\ ghost' = (ghost /\ reqs = {})
    /\ UNCHANGED <<node, page, report, reqs, count>>

FollowUser ==
    /\ ProfileView /\ drawer.id # Me /\ ~drawer.following /\ Ask("follow", drawer.id)
    /\ UNCHANGED <<node, drawer, page, report>>

UnfollowUser ==
    /\ ProfileView /\ drawer.id # Me /\ drawer.following /\ Ask("unfollow", drawer.id)
    /\ UNCHANGED <<node, drawer, page, report>>

OpenEditProfile ==
    /\ ProfileView /\ drawer.id = Me
    /\ page' = [page EXCEPT !.edit = TRUE, !.form = drawer.fields]
    /\ UNCHANGED <<node, drawer, report, reqs, count, ghost>>

EditField ==
    /\ EditorView /\ page.form.text < MaxData
    /\ page' = [page EXCEPT !.form.text = @ + 1]
    /\ UNCHANGED <<node, drawer, report, reqs, count, ghost>>

(* The file input is there while the form holds no uploaded picture. *)
HandleAvatarImageUpload ==
    /\ EditorView /\ page.upload = 0 /\ page.form.avatar = 0
    /\ \E a \in 1..MaxData : page' = [page EXCEPT !.upload = a]
    /\ UNCHANGED <<node, drawer, report, reqs, count, ghost>>

AvatarUploaded ==
    /\ page.upload # 0 /\ page' = [page EXCEPT !.form.avatar = page.upload, !.upload = 0]
    /\ UNCHANGED <<node, drawer, report, reqs, count, ghost>>

AvatarFails ==
    /\ Fails /\ page.upload # 0 /\ page' = [page EXCEPT !.upload = 0]
    /\ UNCHANGED <<node, drawer, report, reqs, count, ghost>>

RemoveAvatar ==
    /\ EditorView /\ page.form.avatar # 0 /\ page' = [page EXCEPT !.form.avatar = 0]
    /\ UNCHANGED <<node, drawer, report, reqs, count, ghost>>

CancelEdit ==
    /\ EditorView /\ page' = [page EXCEPT !.edit = FALSE]
    /\ UNCHANGED <<node, drawer, report, reqs, count, ghost>>

HandleSaveProfile ==
    /\ EditorView /\ Ask("save", Me)
    /\ UNCHANGED <<node, drawer, page, report>>

-----------------------------------------------------------------------------
(* The answers. *)
Done(r, op) == r.op = op /\ r.ans # None /\ reqs' = reqs \ {r} /\ UNCHANGED <<node, report, count, ghost>>

ProfileLoaded(r) ==
    /\ Done(r, "load") /\ drawer' = Profile(r.ans, r.who)
    /\ page' = [page EXCEPT !.loading = FALSE, !.edit = FALSE]

(* The drawer's profile at the time of the click was the one to follow; the *)
(* change is made to the profile that is open when the answer arrives.      *)
Followed(r) ==
    /\ Done(r, "follow")
    /\ drawer' = IF drawer = None THEN None
                 ELSE [drawer EXCEPT !.following = TRUE, !.followers = @ + 1]
    /\ UNCHANGED page

Unfollowed(r) ==
    /\ Done(r, "unfollow")
    /\ drawer' = IF drawer = None THEN None
                 ELSE [drawer EXCEPT !.following = FALSE, !.followers = IF @ > 0 THEN @ - 1 ELSE 0]
    /\ UNCHANGED page

(* The answer, the own profile, is laid over the profile that is open, and  *)
(* opens the drawer if it was closed.                                       *)
ProfileUpdated(r) ==
    /\ Done(r, "save")
    /\ drawer' = IF drawer = None THEN Profile(r.ans, Me)
                 ELSE [drawer EXCEPT !.id = Me, !.fields = r.ans.fields,
                                     !.followers = Profile(r.ans, Me).followers]
    /\ page' = [page EXCEPT !.edit = FALSE]

RequestFails(r) ==
    /\ Fails /\ reqs' = reqs \ {r}
    /\ page' = IF r.op = "load" THEN [page EXCEPT !.loading = FALSE, !.edit = FALSE] ELSE page
    /\ ghost' = (ghost /\ r.ans = None)
    /\ UNCHANGED <<node, drawer, report, count>>

-----------------------------------------------------------------------------
(* The report dialog covers the pane. *)
HandleOpenReportModal(x) ==
    /\ ~ReportCovers
    /\ report' = [report EXCEPT !.target = x, !.filed = 0]
    /\ UNCHANGED <<node, drawer, page, reqs, count, ghost>>

CancelReport ==
    /\ ReportCovers /\ ~report.sending /\ report' = [report EXCEPT !.target = None]
    /\ UNCHANGED <<node, drawer, page, reqs, count, ghost>>

HandleSubmitReport ==
    /\ ReportCovers /\ ~report.sending /\ report' = [report EXCEPT !.sending = TRUE]
    /\ UNCHANGED <<node, drawer, page, reqs, count, ghost>>

ReportFiled ==
    /\ report.sending /\ report' = [target |-> None, sending |-> FALSE, filed |-> report.filed + 1]
    /\ UNCHANGED <<node, drawer, page, reqs, count, ghost>>

ReportFails ==
    /\ Fails /\ report.sending /\ report' = [report EXCEPT !.sending = FALSE]
    /\ UNCHANGED <<node, drawer, page, reqs, count, ghost>>

-----------------------------------------------------------------------------
Next ==
    \/ \E x \in People : HandleOpenProfile(x)
    \/ \E x \in Others : HandleOpenReportModal(x)
    \/ CloseDrawer \/ FollowUser \/ UnfollowUser \/ OpenEditProfile \/ EditField
    \/ HandleAvatarImageUpload \/ AvatarUploaded \/ AvatarFails \/ RemoveAvatar \/ CancelEdit \/ HandleSaveProfile
    \/ CancelReport \/ HandleSubmitReport \/ ReportFiled \/ ReportFails
    \/ \E r \in reqs : \/ NodeServes(r) \/ ProfileLoaded(r) \/ Followed(r) \/ Unfollowed(r)
                       \/ ProfileUpdated(r) \/ RequestFails(r)

Spec == Init /\ [][Next]_vars

-----------------------------------------------------------------------------
(* The editor is only ever open on the own profile, whatever loads.         *)
EditorOwn == drawer # None /\ page.edit => drawer.id = Me

(* If each request is made after the last one was answered, and no answer   *)
(* is lost, the drawer shows its profile as the node keeps it.              *)
ShownAsStored == ghost /\ reqs = {} /\ drawer # None => drawer = Profile(node, drawer.id)

(* Once everything was answered, a profile that is shown as followed is     *)
(* one that this user follows.                                              *)
FollowShown ==
    reqs = {} /\ drawer # None /\ drawer.id # Me /\ drawer.following => drawer.id \in node.follows

(* One report dialog files one report, however often its answer fails.      *)
ReportedOnce == report.filed <= 1
=============================================================================
