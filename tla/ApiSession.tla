----------------------------- MODULE ApiSession -----------------------------
(***************************************************************************)
(* The session of one page of the web or desktop client against one node:  *)
(* the access and refresh tokens of api.js, the calls made with them, the  *)
(* single rotation that every rejected call waits for, and the node's side *)
(* of login, refresh and logout (auth_service.go, auth_handler.go).        *)
(*                                                                         *)
(* A token is <<session, generation>>.  On the desktop both tokens are     *)
(* variables of api.js; in a browser they are HttpOnly cookies that only   *)
(* the node's answers set and clear.  Requests and answers travel          *)
(* separately, so calls, rotations, logins and logouts interleave.         *)
(***************************************************************************)
EXTENDS Naturals, FiniteSets

-----------------------------------------------------------------------------
(* The calls the web client makes of a node (api.js), grouped by area.     *)
(* Every wrapper builds one HTTP request and turns its answer into a value *)
(* or an error; what the session protocol can tell apart is whether the    *)
(* request asks for an effect on the node ("write": POST and DELETE) or    *)
(* only reads ("read": GET), and through which of the two paths of api.js  *)
(* it is sent.                                                             *)

\* The calls about account and its device sessions.
AccountApi ==
  [read  |-> {"getStatus", "getNotificationPreferences", "getDeviceSessions"},
   write |-> {"register", "login", "changePassword", "logout",
              "updatePrivacySettings", "saveNotificationPreferences",
              "deleteAccount", "revokeDeviceSession"}]

\* The calls about device pairing and identities.
IdentityApi ==
  [read  |-> {"getDevicePairing", "getDeviceKeys", "getRecipientDeviceKeys",
              "getMyIdentities", "getPublicIdentity", "getTrustPassport"},
   write |-> {"startDevicePairing", "approveDevicePairing", "consumeDevicePairing",
              "revokeDeviceKey", "createIdentity", "saveIdentityHumanProof"}]

\* The calls about messaging and presence.
MessagingApi ==
  [read  |-> {"getInbox", "getPresenceStatus", "getTypingStatus", "getMessageProof"},
   write |-> {"sendMessage", "sendSmtpMail", "markMessagesRead",
              "editDirectMessage", "sendPresenceHeartbeat", "updateTypingStatus",
              "toggleMessageReaction", "deleteInboxMessage",
              "clearInboxConversation"}]

\* The calls about mailbox, search and node list.
MailboxApi ==
  [read  |-> {"getMailboxMessages", "getMailDrafts", "getMailLabels",
              "getMailContacts", "getMailFilters", "getMailSettings",
              "globalSearch", "getNodes"},
   write |-> {"updateMailboxStates", "saveMailDraft", "deleteMailDraft",
              "saveMailLabel", "saveMailContact", "saveMailFilter",
              "saveMailSettings", "submitReport"}]

\* The calls about rooms and their moderation.
RoomApi ==
  [read  |-> {"getRooms", "searchPublicRooms", "getRoomPinnedMessages",
              "getRoomJoinRequests", "getRoomModerationLogs"},
   write |-> {"createRoom", "updateRoom", "kickRoomMember",
              "transferRoomOwnership", "toggleRoomMessagePin",
              "createRoomInviteLink", "joinRoomViaInviteLink",
              "createRoomJoinRequest", "moderateRoomJoinRequest"}]

\* The calls about membership, channels and the node's version.
RoomMemberApi ==
  [read  |-> {"getChannels", "getServerVersion"},
   write |-> {"joinRoom", "leaveRoom", "createChannel", "updateMemberRole",
              "deleteRoom"}]

\* The calls about public channels.
PublicChannelApi ==
  [read  |-> {"getNetworkHealth", "getPublicChannels", "getPublicChannelPosts",
              "discoverPublicChannels"},
   write |-> {"createPublicChannel", "updatePublicChannel",
              "updatePublicChannelComments", "deletePublicChannel",
              "subscribePublicChannel", "unsubscribePublicChannel",
              "createPublicChannelPost", "togglePublicChannelPostReaction",
              "createPublicChannelPostComment", "updatePublicChannelPostPin",
              "blockPublicChannel", "unblockPublicChannel", "deleteChannelComment",
              "moderateChannelComment"}]

\* The calls about GaiaDrop.
DropApi ==
  [read  |-> {"getGaiaDropInbox"},
   write |-> {"submitGaiaDrop", "markGaiaDropRead", "deleteGaiaDrop"}]

\* The calls about reports and governance.
GovernanceApi ==
  [read  |-> {"getGovernanceRoles", "getMyReports",
              "getReportDetail", "getReviewerQueue", "getNodeOperatorQueue",
              "getPublicTransparency"},
   write |-> {"submitAbuseReport", "createCaseDisclosure", "requestCaseDisclosure",
              "createGaiasEyesGrant", "consumeGaiasEyesKey", "submitAppeal",
              "submitReview", "applyNodeOperatorAction",
              "createTransparencySnapshot"}]

\* The calls about security centre and node registry.
SecurityApi ==
  [read  |-> {"getSecuritySummary", "getSecurityEvents", "exportSecurityReport",
              "getNodeSecuritySummary", "getNodeSecurityEvents",
              "getNodeRegistrySummary", "getPublicSecurityHealth"},
   write |-> {"acknowledgeSecurityEvent", "generateNodeRegistrySecrets",
              "pingNodeRegistryMain", "updateNodeRegistryStatus"}]

\* The calls about storage.
StorageApi ==
  [read  |-> {"downloadFileAttachment"},
   write |-> {"initUpload", "uploadChunk", "completeUpload", "grantFileAccess"}]

\* The calls about social network.
GsnApi ==
  [read  |-> {"getGsnFeedNode", "getGsnFeedFollowing", "getGsnComments",
              "getGsnProfile"},
   write |-> {"createGsnPost", "deleteGsnPost", "reactToGsnPost", "addGsnComment",
              "deleteGsnComment", "followGsnUser", "unfollowGsnUser",
              "updateGsnProfile"}]

Areas == {AccountApi, IdentityApi, MessagingApi, MailboxApi, RoomApi,
          RoomMemberApi, DropApi, PublicChannelApi, GovernanceApi, SecurityApi, StorageApi, GsnApi}
Reads == UNION {a.read : a \in Areas}
Writes == UNION {a.write : a \in Areas}
Endpoints == Reads \cup Writes

\* Calls that go straight to fetch: no session rotation, no second attempt.
RawCalls == {"uploadChunk", "downloadFileAttachment"}

\* The endpoints whose 401 is an answer about credentials, never a sign of an
\* expired access token (apiFetch).
AuthCalls == {"login", "register"}

\* Calls that rotate the session on a 401 and try once more.
Rotates(e) == e \in Endpoints \ (RawCalls \cup AuthCalls)

-----------------------------------------------------------------------------
CONSTANTS
  Call,        \* calls the page makes, each once
  EndpointOf,  \* the wrapper each call goes through
  MaxSession,  \* device sessions the node creates (bound)
  Desktop,     \* the desktop client keeps the tokens in memory
  LoseAnswers  \* requests and answers may be lost

CallAssumption ==
  /\ EndpointOf \in [Call -> Endpoints \ AuthCalls]
  /\ MaxSession \in Nat \ {0}
  /\ Desktop \in BOOLEAN /\ LoseAnswers \in BOOLEAN

VARIABLES
  tok,       \* [acc, ref]: authToken and refreshToken, or the two cookies
  user,      \* somebody is signed in to the page
  req,       \* state, attempt and access token of every call
  refresh,   \* refreshPromise: the one rotation in flight
  login,     \* the login in flight
  srv,       \* device_sessions: made, active, generation of the refresh token
  expired,   \* access tokens past their lifetime
  executed,  \* how often the node has carried out each call
  ended      \* why each session was revoked

vars == <<tok, user, req, refresh, login, srv, expired, executed, ended>>

Session == 1..MaxSession
NoToken == <<0, 0>>
Token == {NoToken} \cup (Session \X (0..Cardinality(Call)))
NoTokens == [acc |-> NoToken, ref |-> NoToken]
Made == {s \in Session : srv[s].made}
Latest(s) == <<s, srv[s].gen>>

Valid(t) == t # NoToken /\ srv[t[1]].active /\ t \notin expired

Settled(c) == req[c].st \in {"done", "failed"}
NoRefresh == [st |-> "none", tok |-> NoToken]
NoLogin == [st |-> "none", tok |-> NoToken]

TypeOK ==
  /\ tok \in [acc : Token, ref : Token]
  /\ user \in BOOLEAN
  /\ req \in [Call -> [st : {"idle", "sent", "ok", "unauth", "lost", "wait",
                             "done", "failed"},
                       try : 1..2, tok : Token]]
  /\ refresh \in [st : {"none", "sent", "ok", "rejected", "lost"}, tok : Token]
  /\ login \in [st : {"none", "sent", "ok", "lost"}, tok : Token]
  /\ srv \in [Session -> [made : BOOLEAN, active : BOOLEAN,
                          gen : 0..Cardinality(Call)]]
  /\ expired \subseteq Token
  /\ executed \in [Call -> 0..2]
  /\ ended \in [Session -> {"no", "logout", "replay", "remote"}]

\* A page just loaded.  The desktop client has forgotten its tokens; a browser
\* may still hold the cookies of an earlier session.
Init ==
  /\ user = FALSE
  /\ req = [c \in Call |-> [st |-> "idle", try |-> 1, tok |-> NoToken]]
  /\ refresh = NoRefresh /\ login = NoLogin
  /\ expired = {} /\ executed = [c \in Call |-> 0]
  /\ ended = [s \in Session |-> "no"]
  /\ \E old \in BOOLEAN :
       /\ old => ~Desktop
       /\ tok = IF old THEN [acc |-> <<1, 0>>, ref |-> <<1, 0>>] ELSE NoTokens
       /\ srv = [s \in Session |-> [made |-> old /\ s = 1,
                                    active |-> old /\ s = 1, gen |-> 0]]

Revoke(s, why) ==
  /\ srv' = [srv EXCEPT ![s].active = FALSE]
  /\ ended' = [ended EXCEPT ![s] = why]

-----------------------------------------------------------------------------
(* The page's calls *)

\* apiFetch, first attempt: the request carries the token of this moment.
\* getStatus is what a freshly loaded page asks; the rest needs a user.
Start(c) ==
  /\ req[c].st = "idle"
  /\ user = (EndpointOf[c] # "getStatus")
  /\ req' = [req EXCEPT ![c] = [st |-> "sent", try |-> 1, tok |-> tok.acc]]
  /\ UNCHANGED <<tok, user, refresh, login, srv, expired, executed, ended>>

\* The node handles a request: 401 without a valid token, else the effect.
Serve(c) ==
  /\ req[c].st = "sent"
  /\ IF Valid(req[c].tok)
     THEN /\ executed' = [executed EXCEPT ![c] = @ + 1]
          /\ \E st \in {"ok"} \cup (IF LoseAnswers THEN {"lost"} ELSE {}) :
               req' = [req EXCEPT ![c].st = st]
          /\ IF EndpointOf[c] = "logout"
             THEN Revoke(req[c].tok[1], "logout")
             ELSE UNCHANGED <<srv, ended>>
     ELSE /\ req' = [req EXCEPT ![c].st = "unauth"]
          /\ UNCHANGED <<executed, srv, ended>>
  /\ UNCHANGED <<tok, user, refresh, login, expired>>

\* A request that never reaches the node.
LoseRequest(c) ==
  /\ LoseAnswers /\ req[c].st = "sent"
  /\ req' = [req EXCEPT ![c].st = "lost"]
  /\ UNCHANGED <<tok, user, refresh, login, srv, expired, executed, ended>>

\* What the wrappers do with a call that failed: logout and getStatus drop the
\* tokens (setAuthToken('')), and a logout signs the page out in any case.
AfterFailure(cs, clear) ==
  /\ tok' = IF Desktop /\ (clear \/ \E c \in cs : EndpointOf[c] \in {"logout", "getStatus"})
            THEN NoTokens ELSE tok
  /\ user' = (user /\ \A c \in cs : EndpointOf[c] # "logout")

\* A good answer.  A logout's answer also clears the cookies.
ReturnOk(c) ==
  /\ req[c].st = "ok"
  /\ req' = [req EXCEPT ![c].st = "done"]
  /\ tok' = IF EndpointOf[c] = "logout" THEN NoTokens ELSE tok
  /\ user' = ((user \/ EndpointOf[c] = "getStatus") /\ EndpointOf[c] # "logout")
  /\ UNCHANGED <<refresh, login, srv, expired, executed, ended>>

\* fetch rejects.  Only the second attempt is inside the try block that drops
\* the tokens.
ReturnLost(c) ==
  /\ req[c].st = "lost"
  /\ req' = [req EXCEPT ![c].st = "failed"]
  /\ AfterFailure({c}, req[c].try = 2)
  /\ UNCHANGED <<refresh, login, srv, expired, executed, ended>>

\* A 401 on a first attempt: rotateSession, joining the rotation in flight.
ReturnUnauth(c) ==
  /\ req[c].st = "unauth" /\ req[c].try = 1 /\ Rotates(EndpointOf[c])
  /\ req' = [req EXCEPT ![c].st = "wait"]
  /\ refresh' = IF refresh.st = "none" THEN [st |-> "sent", tok |-> tok.ref]
                                       ELSE refresh
  /\ UNCHANGED <<tok, user, login, srv, expired, executed, ended>>

\* A 401 that is final: of the second attempt or of a raw call.
ReturnDenied(c) ==
  /\ req[c].st = "unauth" /\ (req[c].try = 2 \/ ~Rotates(EndpointOf[c]))
  /\ req' = [req EXCEPT ![c].st = "failed"]
  /\ AfterFailure({c}, FALSE)
  /\ UNCHANGED <<refresh, login, srv, expired, executed, ended>>

-----------------------------------------------------------------------------
(* The rotation *)

\* The node: an unknown or revoked session is rejected, a token that is not
\* the latest of its session revokes the session, the latest one is rotated.
RefreshServe ==
  /\ refresh.st = "sent"
  /\ LET s == refresh.tok[1] IN
     IF refresh.tok = NoToken \/ ~srv[s].active
     THEN refresh' = [refresh EXCEPT !.st = "rejected"] /\ UNCHANGED <<srv, ended>>
     ELSE IF refresh.tok # Latest(s)
     THEN refresh' = [refresh EXCEPT !.st = "rejected"] /\ Revoke(s, "replay")
     ELSE /\ srv' = [srv EXCEPT ![s].gen = @ + 1]
          /\ \E st \in {"ok"} \cup (IF LoseAnswers THEN {"lost"} ELSE {}) :
               refresh' = [st |-> st, tok |-> <<s, srv[s].gen + 1>>]
          /\ UNCHANGED ended
  /\ UNCHANGED <<tok, user, req, login, expired, executed>>

\* The refresh request never reaches the node.
LoseRefresh ==
  /\ LoseAnswers /\ refresh.st = "sent" /\ refresh' = [refresh EXCEPT !.st = "lost"]
  /\ UNCHANGED <<tok, user, req, login, srv, expired, executed, ended>>

Waiting == {c \in Call : req[c].st = "wait"}

\* Every waiting call goes again, with the new access token.
Resend(cs) ==
  req' = [c \in Call |-> IF c \in cs
                         THEN [st |-> "sent", try |-> 2, tok |-> refresh.tok]
                         ELSE req[c]]

\* Deviant: only one of the waiting calls is resumed.
RefreshReturnOkFirstOnly ==
  /\ refresh.st = "ok"
  /\ tok' = [acc |-> refresh.tok, ref |-> refresh.tok]
  /\ Resend({CHOOSE c \in Waiting : TRUE}) /\ refresh' = NoRefresh
  /\ UNCHANGED <<user, login, srv, expired, executed, ended>>

\* The promise resolves: both tokens are replaced, the calls are resumed.
RefreshReturnOk ==
  /\ refresh.st = "ok"
  /\ tok' = [acc |-> refresh.tok, ref |-> refresh.tok]
  /\ Resend(Waiting) /\ refresh' = NoRefresh
  /\ UNCHANGED <<user, login, srv, expired, executed, ended>>

\* The promise rejects: each waiting call drops the tokens and returns its 401.
\* A rejecting answer also clears the cookies; a lost one cannot.
RefreshReturnBad ==
  /\ refresh.st \in {"rejected", "lost"}
  /\ req' = [c \in Call |-> IF c \in Waiting THEN [req[c] EXCEPT !.st = "failed"]
                                             ELSE req[c]]
  /\ IF refresh.st = "rejected" /\ ~Desktop
     THEN /\ tok' = NoTokens
          /\ user' = (user /\ \A c \in Waiting : EndpointOf[c] # "logout")
     ELSE AfterFailure(Waiting, TRUE)
  /\ refresh' = NoRefresh
  /\ UNCHANGED <<login, srv, expired, executed, ended>>

-----------------------------------------------------------------------------
(* Login, and what happens to sessions elsewhere *)

LoginStart ==
  /\ ~user /\ login.st = "none" /\ Made # Session
  /\ login' = [st |-> "sent", tok |-> NoToken]
  /\ UNCHANGED <<tok, user, req, refresh, srv, expired, executed, ended>>

\* LoginUserWithDevice: a new device session with its first token pair.
LoginServe ==
  /\ login.st = "sent"
  /\ \E s \in Session \ Made :
     /\ \A r \in Session \ Made : s <= r
     /\ srv' = [srv EXCEPT ![s] = [made |-> TRUE, active |-> TRUE, gen |-> 0]]
     /\ \E st \in {"ok"} \cup (IF LoseAnswers THEN {"lost"} ELSE {}) :
          login' = [st |-> st, tok |-> <<s, 0>>]
  /\ UNCHANGED <<tok, user, req, refresh, expired, executed, ended>>

\* api.login takes over both tokens; setUser follows.
LoginReturn ==
  /\ login.st \in {"ok", "lost"}
  /\ IF login.st = "ok"
     THEN tok' = [acc |-> login.tok, ref |-> login.tok] /\ user' = TRUE
     ELSE UNCHANGED <<tok, user>>
  /\ login' = NoLogin
  /\ UNCHANGED <<req, refresh, srv, expired, executed, ended>>

Expire(s) ==
  /\ srv[s].made /\ Latest(s) \notin expired
  /\ expired' = expired \cup {Latest(s)}
  /\ UNCHANGED <<tok, user, req, refresh, login, srv, executed, ended>>

\* Another device revokes this session, or changes the password.
RemoteRevoke(s) ==
  /\ srv[s].active /\ Revoke(s, "remote")
  /\ UNCHANGED <<tok, user, req, refresh, login, expired, executed>>

Answered(c) == ReturnOk(c) \/ ReturnLost(c) \/ ReturnUnauth(c) \/ ReturnDenied(c)

Next ==
  \/ \E c \in Call : Start(c) \/ Serve(c) \/ LoseRequest(c) \/ Answered(c)
  \/ RefreshServe \/ LoseRefresh \/ RefreshReturnOk \/ RefreshReturnBad
  \/ LoginStart \/ LoginServe \/ LoginReturn
  \/ \E s \in Session : Expire(s) \/ RemoteRevoke(s)

Spec == Init /\ [][Next]_vars

-----------------------------------------------------------------------------
(* Properties *)

\* Sending a call again after a rotation never makes the node carry it out
\* twice: the second attempt is made only when the first was refused.
AtMostOnce == \A c \in Call : executed[c] <= 1

\* The page never presents a refresh token it has already used, so the node
\* never takes its own client for a replay and revokes the session
\* (rotateSession's shared promise; checked where no answer is lost).
NoReplay == \A s \in Session : ended[s] # "replay"

\* However calls, rotations and logins overlap, a signed-in page whose session
\* nobody ended can always renew it: it holds the latest refresh token.
SessionKept ==
  (user /\ refresh.st = "none" /\ \A s \in Session : ended[s] = "no")
    => tok.ref # NoToken /\ tok.ref = Latest(tok.ref[1])

\* After a logout the node has carried out, nothing the page still holds, or a
\* late rotation brings back, opens a session.
LogoutFinal ==
  (~user /\ \E c \in Call : EndpointOf[c] = "logout" /\ req[c].st = "done")
    => /\ ~Valid(tok.acc)
       /\ tok.ref # NoToken => ~srv[tok.ref[1]].active

\* The calls the page has made that have not settled.
Unsettled == {c \in Call : req[c].st # "idle" /\ ~Settled(c)}
=============================================================================
