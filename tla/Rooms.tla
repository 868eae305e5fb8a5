------------------------------- MODULE Rooms -------------------------------
(***************************************************************************)
(* Membership, roles and settings of one group room.  The pages are        *)
(* hooks/useChat.js with GroupChatPane.jsx (the pane) and                  *)
(* GroupSettingsModal.jsx (the settings); each works on its own copy of    *)
(* the room, view[i].  The node is room/room_service.go: a handler that    *)
(* reads the room and writes it later is a task of two or three steps, and *)
(* the tasks of several members interleave.  A call keeps the arguments    *)
(* the page passes by position: the settings and the pane put the room     *)
(* before the member.  A client is any other caller of the same API.       *)
(* Every user has one identity.                                            *)
(***************************************************************************)
EXTENDS Naturals, Sequences, FiniteSets, Functions

CONSTANTS Ids,        \* identities
          Creator,    \* the one who creates the room
          Able,       \* identities whose public record has an ML-DSA-87 key
          MaxUses,    \* uses the invite link allows
          MaxTasks,   \* bound: requests in progress at a time
          MaxOps,     \* bound: requests made
          MaxRows     \* bound: membership rows of one identity

RoomsAssumption == /\ Creator \in Ids
                          /\ Able \subseteq Ids
                          /\ {MaxUses, MaxTasks, MaxOps, MaxRows} \subseteq Nat

VARIABLES rows,    \* room_members: the roles of an identity's rows, oldest first
          alive,   \* the room exists
          secret,  \* its top_secret column
          invite,  \* its invite link
          ask,     \* status of an identity's join request
          view,    \* the room as the page of an identity last got it
          form,    \* the Top Secret box of the settings open on a page
          tasks,   \* handlers in progress
          ops,     \* requests made so far
          ghost    \* what happened, for the properties
vars == <<rows, alive, secret, invite, ask, view, form, tasks, ops, ghost>>

Roles == {"member", "admin", "owner"}
Undefined == "undefined"
Room == "room"
NoView == [rows |-> [i \in Ids |-> <<>>], secret |-> FALSE, open |-> FALSE]

Snapshot == [rows |-> rows, secret |-> secret, open |-> TRUE]

(* UserIsRoomAdmin: some row of the user is an admin's or the owner's. *)
Admin(i) == \E n \in DOMAIN rows[i] : rows[i][n] \in {"admin", "owner"}

(* The role find() and the loops over room.Members give: the first row for *)
(* the page and the actor of a kick, the last one for a target.            *)
FirstRole(r, i) == IF r[i] = <<>> THEN "none" ELSE Head(r[i])
LastRole(r, i) == IF r[i] = <<>> THEN "none" ELSE r[i][Len(r[i])]

(* UpdateRoomMemberRoleForUser: one statement for all rows of the member; *)
(* it reports success only when exactly one row changed.                  *)
WithRole(i, m, role) ==
    IF Admin(i) THEN [rows EXCEPT ![m] = [n \in DOMAIN @ |-> role]] ELSE rows
RoleSet(i, m) == Admin(i) /\ Len(rows[m]) = 1

TypeOK ==
    /\ rows \in [Ids -> UNION {[1..n -> Roles] : n \in 0..MaxRows}]
    /\ alive \in BOOLEAN /\ secret \in BOOLEAN
    /\ invite \in [made: BOOLEAN, uses: 0..MaxOps]
    /\ ask \in [Ids -> {"none", "pending", "approved", "rejected"}]
    /\ \A i \in Ids : /\ DOMAIN view[i] = {"rows", "secret", "open"}
                      /\ form[i] \in {"closed", "off", "on"}
    /\ \A t \in tasks : /\ t.by \in Ids
                        /\ t.target \in Ids \cup {Undefined, Room}
    /\ ops \in 0..MaxOps

Init ==
    /\ rows = [i \in Ids |-> <<>>]
    /\ alive = FALSE /\ secret = FALSE
    /\ invite = [made |-> FALSE, uses |-> 0]
    /\ ask = [i \in Ids |-> "none"]
    /\ view = [i \in Ids |-> NoView]
    /\ form = [i \in Ids |-> "closed"]
    /\ tasks = {} /\ ops = 0
    /\ ghost = [told |-> TRUE, ownerKicked |-> FALSE, linked |-> 0,
                raced |-> FALSE, lowered |-> FALSE]

-----------------------------------------------------------------------------
(* Helpers of the actions. *)

Request == /\ ops < MaxOps
           /\ ops' = ops + 1

Begin(k, i, target, from, val) ==
    /\ Request
    /\ Cardinality(tasks) < MaxTasks
    /\ tasks' = tasks \cup {[n |-> ops, k |-> k, by |-> i, target |-> target,
                             from |-> from, val |-> val, at |-> "check",
                             stale |-> FALSE]}

Goes(t, at) == tasks' = (tasks \ {t}) \cup {[t EXCEPT !.at = at]}
Ends(t) == tasks' = tasks \ {t}

(* fetchRooms: the open room is replaced by the listed one; a room that is *)
(* no longer listed stays open as it was.                                  *)
Fetched(i, r, s, a) ==
    IF a /\ r[i] # <<>> /\ view[i].open
    THEN [view EXCEPT ![i] = [rows |-> r, secret |-> s, open |-> TRUE]] ELSE view

Poll(i) ==
    /\ view[i] # Fetched(i, rows, secret, alive)[i]
    /\ view' = Fetched(i, rows, secret, alive)
    /\ UNCHANGED <<rows, alive, secret, invite, ask, form, tasks, ops, ghost>>

(* What the screens offer on a page with the copy v of the room. *)

(* The buttons of GroupChatPane's member list, for an admin only. *)
PaneControls(i, v, m) ==
    IF v.open /\ m # i /\ FirstRole(v.rows, i) = "admin" /\ v.rows[m] # <<>>
    THEN {"role", "kick"} ELSE {}

(* Owner and admin actions of the settings' member list. *)
SettingsControls(i, v, m) ==
    LET mine == FirstRole(v.rows, i)
        theirs == FirstRole(v.rows, m)
    IN  CASE theirs = "none" \/ m = i -> {}
          [] mine = "owner" -> {"role", "transfer", "kick"}
          [] mine = "admin" /\ theirs = "member" -> {"kick"}
          [] OTHER -> {}

(* The form of the settings: saving for owner and admins, deleting for the *)
(* owner.                                                                  *)
FormControls(i, v) ==
    CASE FirstRole(v.rows, i) = "owner" -> {"save", "delete"}
      [] FirstRole(v.rows, i) = "admin" -> {"save"}
      [] OTHER -> {}

(* The pane's sidebar: leaving for everyone, the settings and the join *)
(* code for the creator and for admins.                                *)
CanManage(i, v) == i = Creator \/ FirstRole(v.rows, i) = "admin"
SidebarControls(i, v) ==
    IF ~v.open THEN {}
    ELSE {"leave"} \cup (IF CanManage(i, v) THEN {"settings", "code"} ELSE {})

SettingsOpen(i) == form[i] # "closed" /\ view[i].open

-----------------------------------------------------------------------------
(* Creating, joining and leaving. *)

HandleCreateRoom ==
    /\ ~alive /\ ops = 0 /\ Request
    /\ alive' = TRUE
    /\ rows' = [rows EXCEPT ![Creator] = <<"owner">>]
    /\ view' = [view EXCEPT ![Creator] =
                  [rows |-> rows', secret |-> FALSE, open |-> TRUE]]
    /\ UNCHANGED <<secret, invite, ask, form, tasks, ghost>>

HandleJoinRoom(i) ==
    /\ alive /\ Begin("join", i, i, "pane", "hash")
    /\ UNCHANGED <<rows, alive, secret, invite, ask, view, form, ghost>>

(* handleJoinViaInviteLink, which no screen calls. *)
HandleJoinViaInviteLink(i) ==
    /\ alive /\ invite.made /\ Begin("join", i, i, "client", "link")
    /\ UNCHANGED <<rows, alive, secret, invite, ask, view, form, ghost>>

(* JoinRoomByHash and JoinRoomViaInviteLink: what is read. *)
JoinChecks(t) ==
    /\ t.k = "join" /\ t.at = "check"
    /\ LET refused == ~alive \/ (t.val = "link" /\ MaxUses > 0 /\ invite.uses >= MaxUses)
       IN  IF refused \/ rows[t.by] # <<>>
           THEN /\ Ends(t)
                /\ view' = IF refused \/ t.from = "client" THEN view
                           ELSE [view EXCEPT ![t.by] = Snapshot]
           ELSE Goes(t, "add") /\ UNCHANGED view
    /\ UNCHANGED <<rows, alive, secret, invite, ask, form, ops, ghost>>

(* AddRoomMember inserts a row whatever rows there are; a deleted room is *)
(* refused by its foreign key.                                            *)
JoinAdds(t) ==
    /\ t.k = "join" /\ t.at = "add"
    /\ Len(rows[t.by]) < MaxRows
    /\ rows' = IF alive THEN [rows EXCEPT ![t.by] = Append(@, "member")] ELSE rows
    /\ IF alive /\ t.val = "link" THEN Goes(t, "use") ELSE Ends(t)
    /\ view' = IF alive /\ t.from = "pane"
               THEN [view EXCEPT ![t.by] = [rows |-> rows', secret |-> secret, open |-> TRUE]]
               ELSE view
    /\ ghost' = [ghost EXCEPT !.linked = IF alive /\ t.val = "link" THEN @ + 1 ELSE @]
    /\ UNCHANGED <<alive, secret, invite, ask, form, ops>>

(* UseRoomInviteLink. *)
JoinUses(t) ==
    /\ t.k = "join" /\ t.at = "use"
    /\ invite' = [invite EXCEPT !.uses = IF alive THEN @ + 1 ELSE @]
    /\ Ends(t)
    /\ UNCHANGED <<rows, alive, secret, ask, view, form, ops, ghost>>

(* Whoever leaves, the owner too, loses every row, and the page closes the *)
(* room.                                                                   *)
HandleLeaveRoom(i) ==
    /\ "leave" \in SidebarControls(i, view[i]) /\ Request
    /\ rows' = [rows EXCEPT ![i] = <<>>]
    /\ view' = [view EXCEPT ![i] = NoView]
    /\ UNCHANGED <<alive, secret, invite, ask, form, tasks, ghost>>

-----------------------------------------------------------------------------
(* Roles, removal and ownership. *)

(* handleUpdateMemberRole: only args[1] and args[2] are read. *)
HandleUpdateMemberRole(i, args) ==
    LET done == args[1] \in Ids /\ args[2] \in {"admin", "member"}
    IN  /\ Request
        /\ rows' = IF done THEN WithRole(i, args[1], args[2]) ELSE rows
        /\ view' = IF done /\ RoleSet(i, args[1]) THEN Fetched(i, rows', secret, alive) ELSE view
        /\ UNCHANGED <<alive, secret, invite, ask, form, tasks, ghost>>

HandleKickMember(i, from, args, said) ==
    /\ Begin("kick", i, args[1], from, said)
    /\ UNCHANGED <<rows, alive, secret, invite, ask, view, form, ghost>>

(* KickMember up to the removal.  The pane's confirmKickMember goes on to  *)
(* its own notice whatever became of the call, whose errors were caught.   *)
KickRefused(t) == \/ ~alive \/ ~Admin(t.by) \/ t.target \notin Ids
                  \/ LastRole(rows, t.target) \in {"none", "owner"}
                  \/ LastRole(rows, t.target) = "admin" /\ FirstRole(rows, t.by) # "owner"
PaneTold(t, r) == ghost.told /\ (t.from = "pane" => r[t.val] = <<>>)
KickChecks(t) ==
    /\ t.k = "kick" /\ t.at = "check"
    /\ IF KickRefused(t)
       THEN /\ Ends(t)
            /\ ghost' = [ghost EXCEPT !.told = PaneTold(t, rows)]
            /\ view' = IF t.from = "pane" THEN Fetched(t.by, rows, secret, alive) ELSE view
       ELSE Goes(t, "remove") /\ UNCHANGED <<ghost, view>>
    /\ UNCHANGED <<rows, alive, secret, invite, ask, form, ops>>

(* Deviant: the row is kept and marked. *)
KickMarks(t) ==
    /\ t.k = "kick" /\ t.at = "remove"
    /\ rows' = [rows EXCEPT ![t.target] = <<"removed">>]
    /\ Ends(t)
    /\ UNCHANGED <<alive, secret, invite, ask, view, form, ops, ghost>>

KickRemoves(t) ==
    /\ t.k = "kick" /\ t.at = "remove"
    /\ rows' = [rows EXCEPT ![t.target] = <<>>]
    /\ ghost' = [ghost EXCEPT !.told = PaneTold(t, rows'),
                              !.ownerKicked = @ \/ "owner" \in Range(rows[t.target])]
    /\ view' = Fetched(t.by, rows', secret, alive)
    /\ Ends(t)
    /\ UNCHANGED <<alive, secret, invite, ask, form, ops>>

HandleTransferOwnership(i, args) ==
    /\ Begin("transfer", i, args[1], "settings", Undefined)
    /\ UNCHANGED <<rows, alive, secret, invite, ask, view, form, ghost>>

(* TransferOwnership: the check, the owner made an admin, the target made *)
(* the owner, and the way back when that fails.                           *)
TransferChecks(t) ==
    /\ t.k = "transfer" /\ t.at = "check"
    /\ IF /\ alive /\ t.target \in Ids
          /\ LastRole(rows, t.by) = "owner" /\ rows[t.target] # <<>>
       THEN Goes(t, "demote") ELSE Ends(t)
    /\ UNCHANGED <<rows, alive, secret, invite, ask, view, form, ops, ghost>>

(* Deviant: the owner stays owner. *)
TransferKeeps(t) ==
    /\ t.k = "transfer" /\ t.at = "demote"
    /\ Goes(t, "promote")
    /\ UNCHANGED <<rows, alive, secret, invite, ask, view, form, ops, ghost>>

TransferDemotes(t) ==
    /\ t.k = "transfer" /\ t.at = "demote"
    /\ rows' = WithRole(t.by, t.by, "admin")
    /\ IF RoleSet(t.by, t.by)
       THEN tasks' = {IF u = t THEN [t EXCEPT !.at = "promote"]
                      ELSE IF u.k = "transfer" /\ u.at # "check" THEN [u EXCEPT !.stale = TRUE]
                      ELSE u : u \in tasks}
       ELSE Ends(t)
    /\ UNCHANGED <<alive, secret, invite, ask, view, form, ops, ghost>>

TransferPromotes(t) ==
    /\ t.k = "transfer" /\ t.at = "promote"
    /\ rows' = WithRole(t.by, t.target, "owner")
    /\ IF RoleSet(t.by, t.target) THEN Ends(t) ELSE Goes(t, "restore")
    /\ ghost' = [ghost EXCEPT !.raced = @ \/ t.stale \/ Len(rows[t.target]) > 1]
    /\ view' = IF RoleSet(t.by, t.target) THEN Fetched(t.by, rows', secret, alive) ELSE view
    /\ UNCHANGED <<alive, secret, invite, ask, form, ops>>

TransferRestores(t) ==
    /\ t.k = "transfer" /\ t.at = "restore"
    /\ rows' = WithRole(t.by, t.by, "owner")
    /\ ghost' = [ghost EXCEPT !.raced = @ \/ t.stale \/ Len(rows[t.by]) > 1]
    /\ Ends(t)
    /\ UNCHANGED <<alive, secret, invite, ask, view, form, ops>>

-----------------------------------------------------------------------------
(* Settings, deletion, links and requests. *)

HandleOpenGroupSettings(i) ==
    /\ "settings" \in SidebarControls(i, view[i]) /\ form[i] = "closed"
    /\ form' = [form EXCEPT ![i] = IF view[i].secret THEN "on" ELSE "off"]
    /\ UNCHANGED <<rows, alive, secret, invite, ask, view, tasks, ops, ghost>>

(* The box is disabled once the page's copy is Top Secret. *)
ToggleTopSecret(i) ==
    /\ SettingsOpen(i) /\ FormControls(i, view[i]) # {} /\ ~view[i].secret
    /\ form' = [form EXCEPT ![i] = IF @ = "on" THEN "off" ELSE "on"]
    /\ UNCHANGED <<rows, alive, secret, invite, ask, view, tasks, ops, ghost>>

CloseSettings(i) ==
    /\ form[i] # "closed"
    /\ form' = [form EXCEPT ![i] = "closed"]
    /\ UNCHANGED <<rows, alive, secret, invite, ask, view, tasks, ops, ghost>>

(* handleUpdateGroupSettings sends the box with every save; switching it *)
(* on needs a key of every member of the page's copy.                    *)
HandleUpdateGroupSettings(i) ==
    /\ SettingsOpen(i) /\ "save" \in FormControls(i, view[i])
    /\ (form[i] = "on" /\ ~view[i].secret) => {m \in Ids : view[i].rows[m] # <<>>} \subseteq Able
    /\ Begin("update", i, i, "settings", form[i])
    /\ UNCHANGED <<rows, alive, secret, invite, ask, view, form, ghost>>

(* UpdateRoom: what is read, and the statement that writes the decision.  *)
UpdateRefused(t) == \/ ~alive \/ ~Admin(t.by)
                    \/ secret /\ t.val = "off"
                    \/ t.val = "on" /\ \E m \in Ids \ Able : rows[m] # <<>>
UpdateChecks(t) ==
    /\ t.k = "update" /\ t.at = "check"
    /\ IF UpdateRefused(t) THEN Ends(t) ELSE Goes(t, "write")
    /\ UNCHANGED <<rows, alive, secret, invite, ask, view, form, ops, ghost>>

UpdateWrites(t) ==
    LET ok == alive /\ Admin(t.by)
    IN  /\ t.k = "update" /\ t.at = "write"
        /\ secret' = IF ok THEN t.val = "on" ELSE secret
        /\ tasks' = {IF ok /\ u.k = "update" /\ u.at = "write" THEN [u EXCEPT !.stale = TRUE]
                     ELSE u : u \in tasks \ {t}}
        /\ view' = IF ok THEN [view EXCEPT ![t.by] = [Snapshot EXCEPT !.secret = secret']] ELSE view
        /\ form' = IF ok THEN [form EXCEPT ![t.by] = "closed"] ELSE form
        /\ ghost' = [ghost EXCEPT !.lowered = @ \/ (secret /\ ~secret' /\ ~t.stale)]
        /\ UNCHANGED <<rows, alive, invite, ask, ops>>

(* DeleteRoom: the node asks for an admin, the rows go by cascade. *)
DeleteRoom(i) ==
    /\ alive /\ Admin(i)
    /\ alive' = FALSE /\ secret' = FALSE
    /\ rows' = [m \in Ids |-> <<>>]
    /\ ask' = [m \in Ids |-> "none"]
    /\ view' = [view EXCEPT ![i] = NoView]
    /\ UNCHANGED <<invite, tasks, ghost>>

HandleDeleteGroup(i) ==
    /\ SettingsOpen(i) /\ "delete" \in FormControls(i, view[i]) /\ Request
    /\ DeleteRoom(i)
    /\ form' = [form EXCEPT ![i] = "closed"]

(* The list's own entry: the creator deletes, whoever owns the room now, *)
(* and everyone else leaves.                                             *)
HandleDeleteGroupRoom(i) ==
    /\ view[i].open /\ Request
    /\ IF i = Creator THEN DeleteRoom(i)
       ELSE /\ rows' = [rows EXCEPT ![i] = <<>>]
            /\ view' = [view EXCEPT ![i] = NoView]
            /\ UNCHANGED <<alive, secret, invite, ask, tasks, ghost>>
    /\ UNCHANGED form

(* handleCreateRoomInviteLink(expiresAfterSeconds, maxUses). *)
HandleCreateRoomInviteLink(i, args) ==
    /\ Request /\ alive /\ ~invite.made
    /\ invite' = IF Admin(i) /\ args[2] \in {MaxUses} THEN [made |-> TRUE, uses |-> 0] ELSE invite
    /\ UNCHANGED <<rows, alive, secret, ask, view, form, tasks, ghost>>

(* handleCreateJoinRequest, which no screen calls. *)
HandleCreateJoinRequest(i) ==
    /\ alive /\ ask[i] = "none" /\ Request
    /\ ask' = [ask EXCEPT ![i] = "pending"]
    /\ UNCHANGED <<rows, alive, secret, invite, view, form, tasks, ghost>>

HandleModerateJoinRequest(i, args) ==
    /\ Begin("moderate", i, args[1], "client", args[2])
    /\ UNCHANGED <<rows, alive, secret, invite, ask, view, form, ghost>>

(* ModerateRoomJoinRequest: any status is overwritten, then the row added. *)
ModerateMarks(t) ==
    LET ok == alive /\ Admin(t.by) /\ t.target \in Ids /\ t.val \in {"approved", "rejected"}
    IN  /\ t.k = "moderate" /\ t.at = "check"
        /\ ask' = IF ok THEN [ask EXCEPT ![t.target] = t.val] ELSE ask
        /\ IF ok /\ t.val = "approved" THEN Goes(t, "add") ELSE Ends(t)
        /\ UNCHANGED <<rows, alive, secret, invite, view, form, ops, ghost>>

ModerateAdds(t) ==
    /\ t.k = "moderate" /\ t.at = "add"
    /\ Len(rows[t.target]) < MaxRows
    /\ rows' = IF alive THEN [rows EXCEPT ![t.target] = Append(@, "member")] ELSE rows
    /\ Ends(t)
    /\ UNCHANGED <<alive, secret, invite, ask, view, form, ops, ghost>>

-----------------------------------------------------------------------------
(* The calls of the screens, with the arguments in the places they pass    *)
(* them, and of a client that passes what the handlers read.               *)

PaneCalls(i, m) ==
    \/ "role" \in PaneControls(i, view[i], m) /\
         \E r \in {"admin", "member"} : HandleUpdateMemberRole(i, <<m, r>>)
    \/ "kick" \in PaneControls(i, view[i], m) /\ HandleKickMember(i, "pane", <<Room, m>>, m)

SettingsCalls(i, m) ==
    /\ SettingsOpen(i)
    /\ \/ "role" \in SettingsControls(i, view[i], m) /\
            \E r \in {"admin", "member"} : HandleUpdateMemberRole(i, <<Undefined, m, r>>)
       \/ "transfer" \in SettingsControls(i, view[i], m) /\
            HandleTransferOwnership(i, <<Undefined, m>>)
       \/ "kick" \in SettingsControls(i, view[i], m) /\
            HandleKickMember(i, "settings", <<Undefined, m>>, m)

(* The settings' list of requests, and its link generator. *)
RequestsTab(i, m) ==
    /\ SettingsOpen(i) /\ Admin(i) /\ ask[m] = "pending"
    /\ \E s \in {"approved", "rejected"} : HandleModerateJoinRequest(i, <<Undefined, m, s>>)

HandleGenerateLink(i) ==
    SettingsOpen(i) /\ HandleCreateRoomInviteLink(i, <<Undefined, i, MaxUses>>)

ClientCalls(i, m) ==
    /\ alive /\ m # i
    /\ \/ \E r \in {"admin", "member"} : HandleUpdateMemberRole(i, <<m, r>>)
       \/ HandleKickMember(i, "client", <<m>>, m)
       \/ HandleTransferOwnership(i, <<m>>)
       \/ ask[m] # "none" /\ \E s \in {"approved", "rejected"} :
            HandleModerateJoinRequest(i, <<m, s>>)
       \/ HandleCreateRoomInviteLink(i, <<1, MaxUses>>)

NodeSteps(t) ==
    \/ JoinChecks(t) \/ JoinAdds(t) \/ JoinUses(t)
    \/ KickChecks(t) \/ KickRemoves(t)
    \/ TransferChecks(t) \/ TransferDemotes(t) \/ TransferPromotes(t) \/ TransferRestores(t)
    \/ UpdateChecks(t) \/ UpdateWrites(t)
    \/ ModerateMarks(t) \/ ModerateAdds(t)

Next ==
    \/ HandleCreateRoom
    \/ \E i \in Ids :
         \/ Poll(i)
         \/ HandleJoinRoom(i) \/ HandleJoinViaInviteLink(i) \/ HandleLeaveRoom(i)
         \/ HandleOpenGroupSettings(i) \/ ToggleTopSecret(i) \/ CloseSettings(i)
         \/ HandleUpdateGroupSettings(i) \/ HandleDeleteGroup(i) \/ HandleDeleteGroupRoom(i)
         \/ HandleCreateJoinRequest(i) \/ HandleGenerateLink(i)
         \/ \E m \in Ids : \/ PaneCalls(i, m) \/ SettingsCalls(i, m)
                           \/ RequestsTab(i, m) \/ ClientCalls(i, m)
    \/ \E t \in tasks : NodeSteps(t)

Spec == Init /\ [][Next]_vars

-----------------------------------------------------------------------------
(* The room has at most one owner, through every way ownership is handed   *)
(* over and taken back and whatever leaves, joins, removals and changes of *)
(* role fall in between, as long as no two transfers passed their check    *)
(* together and nobody concerned has two rows (TransferOwnership).         *)
Owners == {i \in Ids : "owner" \in Range(rows[i])}
OwnerOne == ghost.raced \/ Cardinality(Owners) <= 1

(* Top Secret is taken back only by a save that was checked before another *)
(* one was written (UpdateRoom's "top secret downgrade rejected").         *)
SecretLowered == ~ghost.lowered

(* Every control of the settings is one the node permits, when the page    *)
(* holds the room as it is and nobody has two rows.                        *)
Permitted(i, control, m) ==
    CASE control \in {"role", "save", "delete"} -> Admin(i)
      [] control = "transfer" -> LastRole(rows, i) = "owner"
      [] control = "kick" -> Admin(i) /\ LastRole(rows, m) # "owner" /\
                             (LastRole(rows, m) = "admin" => FirstRole(rows, i) = "owner")
OfferedPermitted ==
    \A i \in Ids :
      (view[i] = Snapshot /\ ~ghost.raced /\ \A m \in Ids : Len(rows[m]) <= 1) =>
        /\ \A c \in FormControls(i, view[i]) : Permitted(i, c, i)
        /\ \A m \in Ids : \A c \in SettingsControls(i, view[i], m) : Permitted(i, c, m)

(* The settings' Top Secret switch is "downgrade-geschuetzt": once on it   *)
(* stays on while the room exists.                                         *)
SecretStays == [][secret /\ alive' => secret']_vars

(* When the pane reports a member as removed, the member is out.           *)
KickAnnounced == ghost.told

(* KickMember's "cannot kick the owner of the room": the owner is never    *)
(* removed by a kick.                                                      *)
OwnerNotKicked == ~ghost.ownerKicked

(* A link admits at most as many members as it was made for.               *)
LinkLimited == MaxUses = 0 \/ ghost.linked <= MaxUses
=============================================================================
