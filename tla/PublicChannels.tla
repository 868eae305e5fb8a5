----------------------------- MODULE PublicChannels -----------------------------
(***************************************************************************)
(* Public channels: the list, the open channel and its posts, and the      *)
(* editor for new posts.  The two have no state in common.                 *)
(***************************************************************************)
EXTENDS Naturals, FiniteSets

-----------------------------------------------------------------------------
(***************************************************************************)
(* Public channels on one page (hooks/usePublicChannels.js,                *)
(* PublicChannelsPane.jsx) against the node's publicchannels service: the  *)
(* list of channels, the open one and its posts, kept as copies that every *)
(* operation brings up to date from the node's answer.  Answers arrive in  *)
(* any order and are applied whatever is open by then.  Names, texts and   *)
(* pictures are not told apart; the category and the text of a search are  *)
(* left out of discovery.                                                  *)
(***************************************************************************)
CONSTANTS Channels, Posts, None,
          PostOf,       \* the channel a post belongs to
          AdminOf,      \* channels this user administers
          Operator,     \* this user has the role node_operator
          Start,        \* channels that exist at first
          Foreign,      \* others suspend channels and comment on posts
          MaxOps,       \* bound: operations of the user and of others
          MaxReqs       \* bound: requests in flight when an operation starts

PublicAssumption ==
    /\ PostOf \in [Posts -> Channels] /\ AdminOf \subseteq Channels
    /\ Start \subseteq Channels /\ None \notin Channels
    /\ Operator \in BOOLEAN /\ Foreign \in BOOLEAN
    /\ {MaxOps, MaxReqs} \subseteq Nat

VARIABLES ch,     \* public_channels with this user's subscription and block
          po,     \* public_channel_posts with comments and this user's reaction
          page,   \* what the page holds
          reqs,   \* requests in flight
          ops, ghost
publicVars == <<ch, po, page, reqs, ops, ghost>>

Authors == {"me", "other"}
ChannelRow == [there : BOOLEAN, sub : BOOLEAN, blocked : BOOLEAN, comments : BOOLEAN,
               suspended : BOOLEAN, verified : BOOLEAN, edited : BOOLEAN]
PostRow == [there : BOOLEAN, pinned : BOOLEAN, reacted : BOOLEAN, comments : SUBSET Authors]
ChannelCopy == [id : Channels, is : ChannelRow]
PostCopy == [id : Posts, is : PostRow]

PublicTypeOK ==
    /\ ch \in [Channels -> ChannelRow] /\ po \in [Posts -> PostRow]
    /\ page.list \subseteq ChannelCopy /\ page.active \in ChannelCopy \cup {None}
    /\ page.posts \subseteq PostCopy /\ page.results \subseteq ChannelCopy
    /\ page.mode \in {"view", "edit", "create"}
    /\ {page.loading, page.listing, page.busy, page.menu, page.report, page.creator} \subseteq BOOLEAN
    /\ page.confirm \in Channels \cup {None}
    /\ ops \in 0..MaxOps

Admin(c) == c \in AdminOf
Copy(c) == [id |-> c, is |-> ch[c]]
IdOf(a) == IF a = None THEN None ELSE a.id

(* FindPublicChannelsForUser and SearchDiscoverablePublicChannels. *)
Listed(c) == ch[c].there /\ ~ch[c].blocked /\ (~ch[c].suspended \/ ch[c].sub \/ Admin(c))
Discoverable(c) == ch[c].there /\ ~ch[c].suspended /\ ~ch[c].sub /\ ~ch[c].blocked
PostsAt(c) == {[id |-> p, is |-> po[p]] : p \in {q \in Posts : PostOf[q] = c /\ po[q].there}}

Req(op, c) == [op |-> op, ch |-> c, post |-> None, val |-> FALSE, then |-> "none", copy |-> None, who |-> None, ans |-> None]
PostReq(op, p, v) == [Req(op, PostOf[p]) EXCEPT !.post = p, !.val = v]

PublicInit ==
    /\ ch = [c \in Channels |-> [there |-> c \in Start, sub |-> Admin(c), blocked |-> FALSE, comments |-> TRUE,
                                 suspended |-> FALSE, verified |-> FALSE, edited |-> FALSE]]
    /\ po = [p \in Posts |-> [there |-> PostOf[p] \in Start, pinned |-> FALSE, reacted |-> FALSE, comments |-> {}]]
    /\ page = [list |-> {}, active |-> None, posts |-> {}, results |-> {}, mode |-> "view", loading |-> FALSE,
               listing |-> TRUE, busy |-> FALSE, menu |-> FALSE, report |-> FALSE, creator |-> FALSE, confirm |-> None]
    /\ reqs = {Req("list", None)}
    /\ ops = 0
    /\ ghost = [blocked |-> {}, overlap |-> FALSE, stale |-> FALSE]

-----------------------------------------------------------------------------
(* Opening a channel, and the effects on the open one. *)

(* The effect on activePublicChannel and creatorOpen runs on every new copy. *)
ModeOf(a, creator) == IF a = None /\ creator THEN "create" ELSE "view"
SetActive(pg, a) ==
    [pg EXCEPT !.active = a, !.mode = ModeOf(a, pg.creator), !.menu = FALSE,
               !.posts = IF a = None THEN {} ELSE @,
               !.loading = @ \/ (a # None /\ IdOf(pg.active) # a.id)]

(* The effects on its id: the posts of the channel, or discovery. *)
Loads(pg, a) ==
    IF IdOf(pg.active) = IdOf(a) THEN {}
    ELSE IF a = None THEN {Req("discover", None)} ELSE {Req("posts", a.id)}

Step == ops < MaxOps /\ ops' = ops + 1
(* A dialog covers the rest of the page. *)
Op == Step /\ page.confirm = None /\ ~page.report
Sends(new) == /\ Cardinality(reqs) < MaxReqs
              /\ reqs' = reqs \cup new
              /\ ghost' = [ghost EXCEPT !.overlap = @ \/ (reqs # {} /\ new # {})]
Node == UNCHANGED <<ch, po>>

Opens(a, creator) ==
    LET pg == [page EXCEPT !.creator = creator]
    IN  /\ Op /\ Node
        /\ page' = SetActive(pg, a)
        /\ Sends(Loads(page, a))

OpenChannel == \E x \in page.list : Opens(x, FALSE)
NewChannel == Opens(None, TRUE)

HandleReturnToChannelOverview ==
    /\ Op /\ Node /\ page.active # None
    /\ page' = SetActive([page EXCEPT !.creator = FALSE], None)
    /\ Sends({Req("discover", None)})

(* The Refresh button is disabled while a list loads. *)
Refresh ==
    /\ Op /\ Node /\ ~page.listing
    /\ page' = [page EXCEPT !.listing = TRUE]
    /\ Sends({Req("list", None)})

-----------------------------------------------------------------------------
(* The controls of the pane. *)

HeaderControls(a) ==
    {"subscribe"} \cup (IF Admin(a.id) THEN {"edit", "comments", "delete"} ELSE {"report"})
                  \cup (IF Operator THEN {"verify"} ELSE {})
MenuControls(a) == IF Admin(a.id) THEN {"edit", "comments", "delete"} ELSE {"report", "block"}
PostEditor(a) == IF Admin(a.id) /\ ~a.is.suspended THEN {"publish"} ELSE {}
CommentForm(a) == IF a.is.comments THEN {"comment"} ELSE {}
PostControls(a) == {"react"} \cup CommentForm(a) \cup (IF Admin(a.id) THEN {"pin"} ELSE {})
CommentControls(a, author) == IF Admin(a.id) \/ author = "me" THEN {"remove"} ELSE {}

Shown == page.active # None /\ page.mode = "view"
Offers(c) == Shown /\ c \in HeaderControls(page.active) \cup (IF page.menu THEN MenuControls(page.active) ELSE {})

OpenMenu ==
    /\ Shown /\ ~page.menu
    /\ page' = [page EXCEPT !.menu = TRUE]
    /\ UNCHANGED <<ch, po, reqs, ops, ghost>>

ToggleSubscription ==
    /\ Op /\ Node
    /\ \E x \in page.results \cup {page.active} :
          /\ IF x = page.active THEN Offers("subscribe") ELSE page.active = None
          /\ Sends({Req(IF x.is.sub THEN "unsubscribe" ELSE "subscribe", x.id)})
    /\ UNCHANGED page

EditChannel ==
    /\ Op /\ Offers("edit") /\ UNCHANGED <<ch, po, reqs, ghost>>
    /\ page' = [page EXCEPT !.mode = "edit", !.menu = FALSE]

SubmitChannel ==
    /\ Op /\ Node /\ ~page.busy /\ page.mode # "view"
    /\ page' = [page EXCEPT !.busy = TRUE]
    /\ IF page.mode = "edit" THEN Sends({Req("update", page.active.id)})
       ELSE \E c \in AdminOf : ~ch[c].there /\ Sends({Req("create", c)})

HandleToggleComments ==
    /\ Op /\ Node /\ Offers("comments") /\ ~page.busy
    /\ page' = [page EXCEPT !.busy = TRUE, !.menu = FALSE]
    /\ Sends({[Req("comments", page.active.id) EXCEPT !.val = ~page.active.is.comments]})

HandleToggleVerification ==
    /\ Op /\ Node /\ Offers("verify")
    /\ page' = [page EXCEPT !.busy = TRUE]
    /\ Sends({[Req("verify", page.active.id) EXCEPT !.val = ~page.active.is.verified]})

HandleDeleteChannelClick ==
    /\ Op /\ Offers("delete") /\ UNCHANGED <<ch, po, reqs, ghost>>
    /\ page' = [page EXCEPT !.confirm = page.active.id, !.menu = FALSE]

ConfirmDelete ==
    /\ page.confirm # None /\ Node /\ UNCHANGED ops
    /\ page' = [page EXCEPT !.confirm = None, !.busy = TRUE]
    /\ Sends({Req("delete", page.confirm)})

CloseDialog ==
    /\ page.confirm # None \/ page.report
    /\ page' = [page EXCEPT !.confirm = None, !.report = FALSE]
    /\ UNCHANGED <<ch, po, reqs, ops, ghost>>

OpenReport ==
    /\ Op /\ Offers("report") /\ UNCHANGED <<ch, po, reqs, ghost>>
    /\ page' = [page EXCEPT !.report = TRUE, !.menu = FALSE]

SubmitReportHandler ==
    /\ Step /\ Node /\ page.report /\ page.active # None /\ ~page.busy
    /\ page' = [page EXCEPT !.busy = TRUE]
    /\ Sends({Req("report", page.active.id)})

HandleBlockChannel ==
    /\ Op /\ Node
    /\ \E x \in page.results \cup {page.active} :
          /\ IF x = page.active THEN Offers("block") ELSE page.active = None
          /\ Sends({[Req("block", x.id) EXCEPT !.copy = page.active]})
    /\ page' = [page EXCEPT !.menu = FALSE]

HandleReactToPost == /\ Op /\ Node /\ UNCHANGED page /\ Shown /\ ~page.loading
                     /\ \E x \in page.posts : Sends({PostReq("react", x.id, FALSE)})
HandleAddComment == /\ Op /\ Node /\ UNCHANGED page /\ Shown /\ ~page.loading
                    /\ "comment" \in PostControls(page.active)
                    /\ \E x \in page.posts : "me" \notin x.is.comments /\ Sends({PostReq("comment", x.id, FALSE)})
HandleTogglePinPost == /\ Op /\ Node /\ UNCHANGED page /\ Shown /\ ~page.loading
                       /\ "pin" \in PostControls(page.active)
                       /\ \E x \in page.posts : Sends({PostReq("pin", x.id, ~x.is.pinned)})

(* An admin moderates, an author deletes; the channel is the open one. *)
RemoveComment == /\ Op /\ Node /\ UNCHANGED page /\ Shown /\ ~page.loading
                 /\ \E x \in page.posts : \E w \in x.is.comments :
                       /\ "remove" \in CommentControls(page.active, w)
                       /\ Sends({[PostReq("remove", x.id, FALSE) EXCEPT !.who = w]})

SubmitPost ==
    /\ Op /\ Node /\ Shown /\ ~page.busy /\ "publish" \in PostEditor(page.active)
    /\ page' = [page EXCEPT !.busy = TRUE]
    /\ \E p \in Posts, planned \in BOOLEAN :
          ~po[p].there /\ PostOf[p] = page.active.id /\ Sends({PostReq("publish", p, planned)})

-----------------------------------------------------------------------------
(* The node. *)

(* What the service permits this user in a channel. *)
Permitted(c) ==
    IF ~ch[c].there THEN {}
    ELSE {"subscribe", "unsubscribe", "block", "report"}
         \cup (IF Admin(c) THEN {"update", "edit", "comments", "delete", "pin", "remove"} ELSE {})
         \cup (IF Admin(c) /\ ~ch[c].suspended THEN {"publish"} ELSE {})
         \cup (IF Operator THEN {"verify"} ELSE {})
         \cup (IF ch[c].suspended THEN {} ELSE {"react"})
         \cup (IF ch[c].suspended \/ ~ch[c].comments THEN {} ELSE {"comment"})

Served(r) == /\ r.op \notin {"list", "posts", "discover", "create"} => r.op \in Permitted(r.ch)
             /\ (r.post # None /\ r.op # "publish") => po[r.post].there

ChannelAfter(r) ==
    CASE r.op = "create" -> [ch[r.ch] EXCEPT !.there = TRUE, !.sub = TRUE]
      [] r.op = "update" -> [ch[r.ch] EXCEPT !.edited = TRUE]
      [] r.op = "comments" -> [ch[r.ch] EXCEPT !.comments = r.val]
      [] r.op = "verify" -> [ch[r.ch] EXCEPT !.verified = r.val]
      [] r.op = "subscribe" -> [ch[r.ch] EXCEPT !.sub = TRUE]
      [] r.op = "unsubscribe" -> [ch[r.ch] EXCEPT !.sub = FALSE]
      [] r.op = "block" -> [ch[r.ch] EXCEPT !.blocked = TRUE]
      [] r.op = "delete" -> [ch[r.ch] EXCEPT !.there = FALSE]
      [] OTHER -> ch[r.ch]
PostAfter(r) ==
    CASE r.op = "publish" -> [po[r.post] EXCEPT !.there = TRUE]
      [] r.op = "react" -> [po[r.post] EXCEPT !.reacted = ~@]
      [] r.op = "comment" -> [po[r.post] EXCEPT !.comments = @ \cup {"me"}]
      [] r.op = "pin" -> [po[r.post] EXCEPT !.pinned = r.val]
      [] r.op = "remove" -> [po[r.post] EXCEPT !.comments = @ \ {r.who}]
      [] OTHER -> po[r.post]

Answer(r) ==
    CASE r.op = "list" -> {Copy(c) : c \in {d \in Channels : Listed(d)}}
      [] r.op = "discover" -> {Copy(c) : c \in {d \in Channels : Discoverable(d)}}
      [] r.op = "posts" -> PostsAt(r.ch)
      [] r.post # None -> [id |-> r.post, is |-> PostAfter(r)]
      [] OTHER -> [id |-> r.ch, is |-> ChannelAfter(r)]

NodeServes(r) ==
    /\ r.ans = None /\ Served(r)
    /\ ch' = IF r.ch = None THEN ch ELSE [ch EXCEPT ![r.ch] = ChannelAfter(r)]
    /\ po' = [p \in Posts |-> IF p = r.post THEN PostAfter(r)
                              ELSE IF r.op = "delete" /\ PostOf[p] = r.ch THEN [po[p] EXCEPT !.there = FALSE]
                              ELSE po[p]]
    /\ reqs' = (reqs \ {r}) \cup {[r EXCEPT !.ans = Answer(r)]}
    /\ UNCHANGED <<page, ops, ghost>>

(* A refused request, which every handler reports; a list that failed    *)
(* leaves the former one, and what waits for it goes on.                 *)
NodeRefuses(r) ==
    /\ r.ans = None /\ ~Served(r)
    /\ reqs' = reqs \ {r}
    /\ page' = [page EXCEPT !.busy = IF r.op \in {"react", "comment", "pin", "remove", "subscribe", "unsubscribe", "block"}
                                      THEN @ ELSE FALSE]
    /\ UNCHANGED <<ch, po, ops, ghost>>

Others ==
    /\ Foreign /\ Step /\ UNCHANGED <<page, reqs>>
    /\ ghost' = [ghost EXCEPT !.stale = TRUE]
    /\ \/ \E c \in Channels : /\ ch[c].there /\ ~ch[c].suspended
                              /\ ch' = [ch EXCEPT ![c].suspended = TRUE] /\ UNCHANGED po
       \/ \E p \in Posts : /\ po[p].there /\ "other" \notin po[p].comments
                           /\ po' = [po EXCEPT ![p].comments = @ \cup {"other"}] /\ UNCHANGED ch

-----------------------------------------------------------------------------
(* Answers at the page. *)

Replace(set, x) == {IF y.id = x.id THEN x ELSE y : y \in set}
Answered(r, op) == r.op = op /\ r.ans # None
Keep == UNCHANGED <<ch, po, ops>>
Ends(r, more) == reqs' = (reqs \ {r}) \cup more

(* refreshPublicChannels: the open channel becomes its fresh copy, or    *)
(* stays when the list has it no longer; then the caller goes on.        *)
FreshIn(list, a) == IF \E x \in list : x.id = IdOf(a) THEN CHOOSE x \in list : x.id = IdOf(a) ELSE a
ListReturns(r) ==
    LET fresh == FreshIn(r.ans, page.active)
        pg == [page EXCEPT !.list = r.ans, !.listing = FALSE]
        kept == IF fresh = None \/ fresh \notin r.ans THEN pg ELSE SetActive(pg, fresh)
        next == IF r.then = "open" THEN r.copy ELSE None
    IN  /\ Answered(r, "list") /\ Keep
        /\ IF r.then \in {"open", "close"}
           THEN /\ page' = [SetActive([kept EXCEPT !.creator = FALSE], next) EXCEPT !.busy = FALSE]
                /\ Ends(r, Loads(page, next))
           ELSE /\ page' = [kept EXCEPT !.busy = IF r.then = "done" THEN FALSE ELSE @]
                /\ Ends(r, {})
        /\ UNCHANGED ghost

(* refreshPublicChannelPosts: no look at the channel that is open now. *)
PostsReturn(r) ==
    /\ Answered(r, "posts") /\ Keep /\ UNCHANGED ghost
    /\ page' = [page EXCEPT !.posts = r.ans, !.loading = FALSE, !.listing = @ \/ r.then = "done"]
    /\ Ends(r, IF r.then = "done" THEN {[Req("list", None) EXCEPT !.then = "done"]} ELSE {})

DiscoverReturns(r) ==
    /\ Answered(r, "discover") /\ Keep /\ UNCHANGED ghost
    /\ page' = [page EXCEPT !.results = r.ans] /\ Ends(r, {})

(* createChannel and updateChannel refresh and then open the channel. *)
ChannelSaved(r) ==
    /\ r.op \in {"create", "update"} /\ r.ans # None /\ Keep /\ UNCHANGED ghost
    /\ page' = [page EXCEPT !.listing = TRUE]
    /\ Ends(r, {[Req("list", None) EXCEPT !.then = "open", !.copy = r.ans]})

(* deleteChannel refreshes and then opens none. *)
ChannelDeleted(r) ==
    /\ Answered(r, "delete") /\ Keep /\ UNCHANGED ghost
    /\ page' = [page EXCEPT !.listing = TRUE]
    /\ Ends(r, {[Req("list", None) EXCEPT !.then = "close"]})

(* updateChannelComments and toggleSubscription put the answer in place. *)
Updated(pg, x) == LET q == [pg EXCEPT !.list = Replace(@, x)]
                  IN  IF IdOf(pg.active) = x.id THEN SetActive(q, x) ELSE q
ChannelChanged(r) ==
    /\ r.op \in {"comments", "subscribe", "unsubscribe"} /\ r.ans # None /\ Keep /\ UNCHANGED ghost
    /\ page' = Updated([page EXCEPT !.busy = IF r.op = "comments" THEN FALSE ELSE @], r.ans)
    /\ Ends(r, IF r.op = "subscribe" /\ page.active = None THEN {Req("discover", None)} ELSE {})

(* verifyChannel changes only the mark in the copies. *)
ChannelVerified(r) ==
    LET Marked(x) == [x EXCEPT !.is.verified = r.val]
        pg == [page EXCEPT !.busy = FALSE, !.list = {IF x.id = r.ch THEN Marked(x) ELSE x : x \in @}]
    IN  /\ Answered(r, "verify") /\ Keep /\ UNCHANGED ghost
        /\ page' = IF IdOf(page.active) = r.ch THEN SetActive(pg, Marked(page.active)) ELSE pg
        /\ Ends(r, {})

(* handleBlockChannel closes the channel its render had open. *)
ChannelBlocked(r) ==
    LET pg == [page EXCEPT !.list = {x \in @ : x.id # r.ch}, !.results = {x \in @ : x.id # r.ch}]
        closes == IdOf(r.copy) = r.ch
    IN  /\ Answered(r, "block") /\ Keep
        /\ page' = IF closes THEN SetActive(pg, None) ELSE pg
        /\ Ends(r, IF closes THEN Loads(page, None) ELSE {})
        /\ ghost' = [ghost EXCEPT !.blocked = @ \cup {r.ch}]

ReportDone(r) ==
    /\ Answered(r, "report") /\ Keep /\ UNCHANGED ghost
    /\ page' = [page EXCEPT !.report = FALSE, !.busy = FALSE] /\ Ends(r, {})

(* createPost: a post that is not planned joins the posts shown. *)
PostPublished(r) ==
    /\ Answered(r, "publish") /\ Keep /\ UNCHANGED ghost
    /\ page' = [page EXCEPT !.posts = IF r.val THEN @ ELSE @ \cup {r.ans}, !.loading = TRUE]
    /\ Ends(r, {[Req("posts", r.ch) EXCEPT !.then = "done"]})

(* togglePostReaction, createPostComment and togglePostPin change their *)
(* part of the post shown.                                              *)
PostChanged(r) ==
    /\ r.op \in {"react", "comment", "pin"} /\ r.ans # None /\ Keep /\ UNCHANGED ghost
    /\ page' = [page EXCEPT !.posts =
          {IF x.id # r.post THEN x
           ELSE CASE r.op = "react" -> [x EXCEPT !.is.reacted = r.ans.is.reacted]
                  [] r.op = "pin" -> [x EXCEPT !.is.pinned = r.ans.is.pinned]
                  [] OTHER -> [x EXCEPT !.is.comments = @ \cup {"me"}] : x \in @}]
    /\ Ends(r, {})

(* handleDeleteComment and handleModerateComment. *)
CommentRemoved(r) ==
    /\ Answered(r, "remove") /\ Keep /\ UNCHANGED ghost
    /\ page' = [page EXCEPT !.posts = {IF x.id = r.post THEN [x EXCEPT !.is.comments = @ \ {r.who}] ELSE x : x \in @}]
    /\ Ends(r, {})

Answers(r) ==
    \/ ListReturns(r) \/ PostsReturn(r) \/ DiscoverReturns(r) \/ ChannelSaved(r) \/ ChannelDeleted(r)
    \/ ChannelChanged(r) \/ ChannelVerified(r) \/ ChannelBlocked(r) \/ ReportDone(r) \/ PostPublished(r)
    \/ PostChanged(r) \/ CommentRemoved(r)

PublicNext ==
    \/ OpenChannel \/ NewChannel \/ HandleReturnToChannelOverview \/ Refresh \/ OpenMenu
    \/ ToggleSubscription \/ EditChannel \/ SubmitChannel \/ HandleToggleComments
    \/ HandleToggleVerification \/ HandleDeleteChannelClick \/ ConfirmDelete \/ CloseDialog
    \/ OpenReport \/ SubmitReportHandler \/ HandleBlockChannel \/ HandleReactToPost \/ HandleAddComment
    \/ HandleTogglePinPost \/ RemoveComment \/ SubmitPost \/ Others
    \/ \E r \in reqs : NodeServes(r) \/ NodeRefuses(r) \/ Answers(r)

-----------------------------------------------------------------------------
(* A page whose requests were never on their way together, and beside which *)
(* nobody else changed the channels, shows the open channel and its posts   *)
(* as the node has them once every answer is in: each of the local updates  *)
(* of usePublicChannels.js does what the node did.                          *)
ShownAsStored ==
    (reqs = {} /\ ~ghost.overlap /\ ~ghost.stale /\ page.active # None) =>
        /\ page.active = Copy(page.active.id)
        /\ page.posts = PostsAt(page.active.id)
        /\ \A x \in page.list : x = Copy(x.id)

(* What the pane offers an admin or an operator in a channel of which it    *)
(* has the current copy is permitted by the node, also after a suspension.  *)
OfferedPermitted ==
    (page.active # None /\ page.active = Copy(page.active.id) /\ page.active.is.there) =>
        LET a == page.active
        IN  HeaderControls(a) \cup MenuControls(a) \cup PostEditor(a) \cup (PostControls(a) \cap {"pin"})
              \subseteq Permitted(a.id)

(* Each post of the pane stands under the name of the open channel: it      *)
(* belongs to that channel.                                                 *)
PostsOfOpen ==
    (Shown /\ ~page.loading) => \A x \in page.posts : PostOf[x.id] = page.active.id

(* A channel whose blocking was reported is not listed any more. *)
BlockedGone == \A x \in page.list : x.id \notin ghost.blocked

(* A comment that has a delete button can be deleted by it. *)
CommentDeletable ==
    (Shown /\ page.active = Copy(page.active.id)) =>
        \A x \in page.posts : \A w \in x.is.comments :
            "remove" \in CommentControls(page.active, w) => "remove" \in Permitted(page.active.id)

-----------------------------------------------------------------------------
(***************************************************************************)
(* The post editor of a public channel (PublicChannelsPane.jsx): the text  *)
(* in the box, the drafts that localStorage keeps by channel, the picture, *)
(* and publishing, which lasts until the posts and the list of channels    *)
(* were fetched again.  A text is the channel it was written in and a      *)
(* number; the time of a planned post is only whether there is one.        *)
(***************************************************************************)
CONSTANT MaxTexts     \* bound: texts written

ComposerAssumption == None \notin Channels /\ {MaxOps, MaxTexts} \subseteq Nat

VARIABLES active,     \* id of activePublicChannel
          body,       \* postBody
          drafts,     \* gaia_channel_draft_<id>
          picture,    \* postAttachments: the channel it was chosen in
          choosing,   \* channels in which a picture is being compressed and encrypted
          planned,    \* scheduledForInput
          busy,
          pub,        \* createPost under way: what, where to, how far
          listing,    \* a refresh of the list was asked for by the user
          posts,      \* posts at the node
          written,    \* texts written so far
          composerOps
composerVars == <<active, body, drafts, picture, choosing, planned, busy, pub, listing, posts, written, composerOps>>

Empty == [in |-> None, n |-> 0]
Texts == [in : Channels, n : 1..MaxTexts] \cup {Empty}
NoPub == [step |-> "none", in |-> None, body |-> Empty, picture |-> None, planned |-> FALSE]

ComposerTypeOK ==
    /\ active \in Channels \cup {None} /\ body \in Texts /\ drafts \in [Channels -> Texts]
    /\ picture \in Channels \cup {None} /\ choosing \subseteq Channels
    /\ {planned, busy, listing} \subseteq BOOLEAN
    /\ pub.step \in {"none", "post", "posts", "list"}
    /\ posts \subseteq [in : Channels, body : Texts, picture : Channels \cup {None}, planned : BOOLEAN]
    /\ written \in 0..MaxTexts /\ composerOps \in 0..MaxOps

ComposerInit ==
    /\ active = None /\ body = Empty /\ drafts = [c \in Channels |-> Empty]
    /\ picture = None /\ choosing = {} /\ planned = FALSE /\ busy = FALSE
    /\ pub = NoPub /\ listing = FALSE /\ posts = {} /\ written = 0 /\ composerOps = 0

EditorOp == composerOps < MaxOps /\ composerOps' = composerOps + 1

(* The effect on the id puts the draft into the box, the effect on the     *)
(* channel and creatorOpen, which runs after it and on every fresh copy,   *)
(* empties box and picture.                                                *)
LoadDraft(c) == IF c = None THEN Empty ELSE drafts[c]
ChannelEffects ==
    /\ body' = Empty
    /\ picture' = None

EditorOpenChannel(c) ==
    /\ EditorOp /\ active # c
    /\ active' = c
    /\ ChannelEffects
    /\ UNCHANGED <<drafts, choosing, planned, busy, pub, listing, posts, written>>

HandlePostBodyChange(v) ==
    /\ body' = v
    /\ drafts' = [drafts EXCEPT ![active] = v]

(* Typing, or one of the format buttons. *)
Write ==
    /\ EditorOp /\ active # None /\ written < MaxTexts
    /\ written' = written + 1
    /\ HandlePostBodyChange([in |-> active, n |-> written + 1])
    /\ UNCHANGED <<active, picture, choosing, planned, busy, pub, listing, posts>>

HandlePostImage(c) ==
    /\ EditorOp /\ active = c /\ c \notin choosing
    /\ choosing' = choosing \cup {c}
    /\ UNCHANGED <<active, body, drafts, picture, planned, busy, pub, listing, posts, written>>

(* The picture is attached to whatever editor is open when it is ready. *)
ImageReady(c) ==
    /\ c \in choosing
    /\ choosing' = choosing \ {c}
    /\ picture' = c
    /\ UNCHANGED <<active, body, drafts, planned, busy, pub, listing, posts, written, composerOps>>

TogglePlanned ==
    /\ EditorOp /\ active # None
    /\ planned' = ~planned
    /\ UNCHANGED <<active, body, drafts, picture, choosing, busy, pub, listing, posts, written>>

EditorRefresh ==
    /\ EditorOp /\ ~listing /\ pub.step # "list"
    /\ listing' = TRUE
    /\ UNCHANGED <<active, body, drafts, picture, choosing, planned, busy, pub, posts, written>>

(* A list that has the open channel replaces it by a fresh copy. *)
FreshCopy == IF active = None THEN UNCHANGED <<body, picture>> ELSE ChannelEffects
EditorListReturns ==
    /\ listing
    /\ listing' = FALSE
    /\ FreshCopy
    /\ UNCHANGED <<active, drafts, choosing, planned, busy, pub, posts, written, composerOps>>

EditorSubmitPost ==
    /\ EditorOp /\ active # None /\ ~busy /\ (body # Empty \/ picture # None)
    /\ busy' = TRUE
    /\ pub' = [step |-> "post", in |-> active, body |-> body, picture |-> picture, planned |-> planned]
    /\ UNCHANGED <<active, body, drafts, picture, choosing, planned, listing, posts, written>>

CreatePost ==
    /\ pub.step = "post"
    /\ \/ /\ posts' = posts \cup {[in |-> pub.in, body |-> pub.body, picture |-> pub.picture, planned |-> pub.planned]}
          /\ pub' = [pub EXCEPT !.step = "posts"] /\ UNCHANGED busy
       \/ /\ pub' = NoPub /\ busy' = FALSE /\ UNCHANGED posts
    /\ UNCHANGED <<active, body, drafts, picture, choosing, planned, listing, written, composerOps>>

PostsFetched ==
    /\ pub.step = "posts"
    /\ pub' = [pub EXCEPT !.step = "list"]
    /\ UNCHANGED <<active, body, drafts, picture, choosing, planned, busy, listing, posts, written, composerOps>>

(* The end of submitPost: its own list makes a fresh copy, then the box is *)
(* emptied, and the draft of the channel of its render goes.               *)
EditorPostPublished ==
    /\ pub.step = "list"
    /\ pub' = NoPub /\ busy' = FALSE
    /\ body' = Empty /\ picture' = None /\ planned' = FALSE
    /\ drafts' = [drafts EXCEPT ![pub.in] = Empty]
    /\ UNCHANGED <<active, choosing, listing, posts, written, composerOps>>

ComposerNext ==
    \/ \E c \in Channels \cup {None} : EditorOpenChannel(c)
    \/ \E c \in Channels : HandlePostImage(c) \/ ImageReady(c)
    \/ Write \/ TogglePlanned \/ EditorRefresh \/ EditorListReturns
    \/ EditorSubmitPost \/ CreatePost \/ PostsFetched \/ EditorPostPublished

-----------------------------------------------------------------------------
(* A post appears in the channel its text was written in, however channels *)
(* were switched while it was on its way.                                  *)
PublishedWhereWritten == \A p \in posts : p.body # Empty => p.body.in = p.in

(* A draft changes only while its channel is open, or when a post to that  *)
(* channel was published.                                                  *)
DraftOwn ==
    \A c \in Channels : drafts'[c] # drafts[c] => c \in {active, pub.in}

(* Opening a channel shows the draft that was saved for it. *)
DraftRestored ==
    [][(active' # active /\ active' # None) => body' = LoadDraft(active')]_composerVars

(* A text that was written and not replaced in its channel stays in the    *)
(* draft of that channel until it is published.                            *)
DraftKept ==
    [][\A c \in Channels : (drafts[c] # Empty /\ drafts'[c] = Empty) => \E p \in posts : p.body = drafts[c]]_composerVars

-----------------------------------------------------------------------------
vars == <<publicVars, composerVars>>

Init == PublicInit /\ ComposerInit

Next ==
  \/ PublicNext /\ UNCHANGED composerVars
  \/ ComposerNext /\ UNCHANGED publicVars

Spec == Init /\ [][Next]_vars
=============================================================================
