----------------------------- MODULE GsnFeed -----------------------------
(***************************************************************************)
(* The feed of GaiaNet, and the composer for its posts.  The two have no   *)
(* state in common.                                                        *)
(***************************************************************************)
EXTENDS Integers, Sequences, FiniteSetsExt, Naturals

-----------------------------------------------------------------------------
(***************************************************************************)
(* The feeds of the social network GSN as the page shows them (useGsn.js,  *)
(* GsnPane.jsx and gsn/GsnPostCard.jsx) and the posts, reactions and       *)
(* comments of the node (Backend/gsn).  The page holds two feeds and the   *)
(* comments of the posts opened so far; it changes its copies when the     *)
(* node has answered.  Several requests may be under way, and their        *)
(* answers come in any order.                                              *)
(***************************************************************************)
CONSTANTS Posts,      \* posts that are, or will be, written
          Mine,       \* the user's own posts
          Remote,     \* posts of other nodes
          Followed,   \* posts of those the user follows
          Later,      \* posts of the user that are written while the page is open
          Roles,      \* credentials the user may hold
          Fails,      \* requests may fail
          Foreign,    \* others delete posts
          MaxOps,     \* bound: requests the user makes
          None

FeedAssumption ==
    /\ Mine \subseteq Posts /\ Remote \subseteq Posts \ Mine /\ Followed \subseteq Posts \ Mine
    /\ Later \subseteq Mine /\ {Fails, Foreign} \subseteq BOOLEAN /\ MaxOps \in Nat
    /\ Roles \subseteq {"none", "operator", "node_operator"}

VARIABLES node,     \* post -> whether it is there, reacted to, and its comments in order
          role,     \* credential of the user
          page,     \* what useGsn and GsnPane hold
          reqs,     \* requests under way
          ops, ghost
feedVars == <<node, role, page, reqs, ops, ghost>>

Tabs == {"node", "following"}
People == {"me", "other"}
Lists == UNION {[1..n -> People] : n \in 0..3}
Stored == [there : BOOLEAN, reacted : BOOLEAN, comments : Lists]
Copies == [reacted : BOOLEAN, count : 0..3]
Ops == {"node", "following", "create", "delete", "react", "comments", "comment", "uncomment"}

Req(op, p, by) == [op |-> op, post |-> p, by |-> by, ans |-> None, ok |-> TRUE]

FeedTypeOK ==
    /\ node \in [Posts -> Stored] /\ role \in Roles /\ ops \in 0..MaxOps
    /\ page \in [tab : Tabs, feed : [Tabs -> [Posts -> Copies \cup {None}]], loading : SUBSET Tabs,
                 comments : [Posts -> Lists \cup {None}], busy : BOOLEAN, expanded : SUBSET Posts,
                 confirm : [post : Posts \cup {None}, by : People \cup {None}]]
    /\ \A r \in reqs : r.op \in Ops /\ r.post \in Posts \cup {None} /\ r.by \in People \cup {None}
                       /\ (r.ans # None => r.ans \in [Posts -> Stored])
    /\ ghost \in [plain : BOOLEAN, deleted : SUBSET Posts]

Closed == [post |-> None, by |-> None]

(* The effect on mount asks for both feeds. *)
FeedInit ==
    /\ node \in [Posts -> Stored]
    /\ \A p \in Posts : /\ node[p].there = (p \notin Later) /\ ~node[p].reacted
                        /\ node[p].comments = IF p \in Followed THEN <<"other">> ELSE <<>>
    /\ role \in Roles
    /\ page = [tab |-> "node", feed |-> [t \in Tabs |-> [p \in Posts |-> None]], loading |-> Tabs,
               comments |-> [p \in Posts |-> None], busy |-> FALSE, expanded |-> {}, confirm |-> Closed]
    /\ reqs = {Req(t, None, None) : t \in Tabs}
    /\ ops = 0 /\ ghost = [plain |-> TRUE, deleted |-> {}]

-----------------------------------------------------------------------------
(* The node. *)

(* A feed with the counts and the reactions of the user (GetFeedNode, *)
(* GetFeedFollowing).                                                  *)
InFeed(n, t, p) == n[p].there /\ IF t = "node" THEN p \notin Remote ELSE p \in Followed
Feed(n, t) == [p \in Posts |-> IF InFeed(n, t, p)
                               THEN [reacted |-> n[p].reacted, count |-> Len(n[p].comments)] ELSE None]

MayModerate(p) == p \notin Remote /\ role = "operator"
MayDelete(p) == p \in Mine \/ MayModerate(p)

(* The commenters are users of this node, so that a comment is always *)
(* local content.                                                     *)
MayUncomment(p, by) == by = "me" \/ p \in Mine \/ role = "operator"

Permitted(r) ==
    CASE r.op \in {"react", "comment"} -> node[r.post].there
      [] r.op = "delete" -> node[r.post].there /\ MayDelete(r.post)
      [] r.op = "uncomment" -> /\ node[r.post].there /\ MayUncomment(r.post, r.by)
                               /\ \E i \in DOMAIN node[r.post].comments : node[r.post].comments[i] = r.by
      [] OTHER -> TRUE

Without(s, by) == SelectSeq(s, LAMBDA c : c # by)
After(r) ==
    CASE r.op = "create" -> [node EXCEPT ![r.post].there = TRUE]
      [] r.op = "delete" -> [node EXCEPT ![r.post] = [there |-> FALSE, reacted |-> FALSE, comments |-> <<>>]]
      [] r.op = "react" -> [node EXCEPT ![r.post].reacted = ~@]
      [] r.op = "comment" -> [node EXCEPT ![r.post].comments = Append(@, "me")]
      [] r.op = "uncomment" -> [node EXCEPT ![r.post].comments = Without(@, r.by)]
      [] OTHER -> node

(* The answer holds what the node has once it has served the request. *)
NodeServes(r) ==
    /\ r.ok /\ r.ans = None /\ Permitted(r)
    /\ node' = After(r)
    /\ reqs' = (reqs \ {r}) \cup {[r EXCEPT !.ans = node']}
    /\ UNCHANGED <<role, page, ops, ghost>>

NodeRefuses(r) ==
    /\ r.ok /\ r.ans = None /\ (Permitted(r) => Fails)
    /\ reqs' = (reqs \ {r}) \cup {[r EXCEPT !.ok = FALSE]}
    /\ ghost' = [ghost EXCEPT !.plain = FALSE]
    /\ UNCHANGED <<node, role, page, ops>>

OtherDeletes(p) ==
    /\ Foreign /\ node[p].there /\ p \notin Mine
    /\ node' = [node EXCEPT ![p] = [there |-> FALSE, reacted |-> FALSE, comments |-> <<>>]]
    /\ ghost' = [ghost EXCEPT !.plain = FALSE]
    /\ UNCHANGED <<role, page, reqs, ops>>

-----------------------------------------------------------------------------
(* The page. *)

Send(r) ==
    /\ ops < MaxOps /\ ops' = ops + 1
    /\ r \notin reqs /\ reqs' = reqs \cup {r}
    /\ ghost' = [ghost EXCEPT !.plain = @ /\ reqs = {}]
    /\ UNCHANGED <<node, role>>

(* The posts of the tab that is open, unless it shows that it loads. *)
Shown(p) == page.tab \notin page.loading /\ page.feed[page.tab][p] # None
Free == page.confirm = Closed

(* isOperator is the mark of the user's own profile, which both roles give. *)
IsOperator == role \in {"operator", "node_operator"}
DeleteOffered(p) == Shown(p) /\ (p \in Mine \/ IsOperator)
UncommentOffered(p, by) ==
    /\ Shown(p) /\ p \in page.expanded /\ page.comments[p] # None
    /\ \E i \in DOMAIN page.comments[p] : page.comments[p][i] = by
    /\ by = "me" \/ p \in Mine \/ IsOperator

CommentForm(p) == Shown(p) /\ p \in page.expanded
ShowsNoComments(p) ==
    /\ Shown(p) /\ p \in page.expanded /\ page.comments[p] \in {None, <<>>}
    /\ ~(page.busy /\ page.comments[p] = None)

HandleTabChange(t) ==
    /\ Free
    /\ page' = [page EXCEPT !.tab = t, !.loading = @ \cup {t}]
    /\ Send(Req(t, None, None))

CreatePost(p) ==
    /\ Free /\ p \in Later /\ ~node[p].there /\ p \notin ghost.deleted
    /\ \A r \in reqs : r.post # p
    /\ UNCHANGED page /\ Send(Req("create", p, None))

ReactToPost(p) == Free /\ Shown(p) /\ UNCHANGED page /\ Send(Req("react", p, None))

(* Comments are asked for the first time they are opened. *)
ToggleComments(p) ==
    /\ Free /\ Shown(p)
    /\ IF p \in page.expanded
       THEN page' = [page EXCEPT !.expanded = @ \ {p}] /\ UNCHANGED <<node, role, reqs, ops, ghost>>
       ELSE IF page.comments[p] # None
       THEN page' = [page EXCEPT !.expanded = @ \cup {p}] /\ UNCHANGED <<node, role, reqs, ops, ghost>>
       ELSE /\ page' = [page EXCEPT !.expanded = @ \cup {p}, !.busy = TRUE]
            /\ Send(Req("comments", p, None))

(* The user comments on a post once. *)
HandleAddComment(p) ==
    /\ Free /\ CommentForm(p)
    /\ \A i \in DOMAIN node[p].comments : node[p].comments[i] # "me"
    /\ \A r \in reqs : r.op \notin {"comment", "uncomment"}
    /\ UNCHANGED page /\ Send(Req("comment", p, None))

HandleDeletePost(p) ==
    /\ Free /\ DeleteOffered(p)
    /\ page' = [page EXCEPT !.confirm = [post |-> p, by |-> None]]
    /\ UNCHANGED <<node, role, reqs, ops, ghost>>

HandleDeleteComment(p, by) ==
    /\ Free /\ UncommentOffered(p, by)
    /\ page' = [page EXCEPT !.confirm = [post |-> p, by |-> by]]
    /\ UNCHANGED <<node, role, reqs, ops, ghost>>

Confirm ==
    /\ ~Free
    /\ page' = [page EXCEPT !.confirm = Closed]
    /\ Send(Req(IF page.confirm.by = None THEN "delete" ELSE "uncomment", page.confirm.post, page.confirm.by))

Cancel == ~Free /\ page' = [page EXCEPT !.confirm = Closed] /\ UNCHANGED <<node, role, reqs, ops, ghost>>

-----------------------------------------------------------------------------
(* The answers. *)

Returned(r, op) == r.op = op /\ r.ans # None
Ends(r, more) == reqs' = (reqs \ {r}) \cup more /\ UNCHANGED <<node, role, ops>>
Counted(p, d) ==
    [t \in Tabs |-> [page.feed[t] EXCEPT ![p] = IF @ = None THEN None ELSE [@ EXCEPT !.count = Max({0, @ + d})]]]

FeedReturns(r) ==
    /\ r.op \in Tabs /\ r.ans # None
    /\ page' = [page EXCEPT !.feed[r.op] = Feed(r.ans, r.op), !.loading = @ \ {r.op}]
    /\ Ends(r, {}) /\ UNCHANGED ghost

(* createPost asks for the feed of the node again. *)
PostCreated(r) ==
    /\ Returned(r, "create")
    /\ page' = [page EXCEPT !.loading = @ \cup {"node"}]
    /\ Ends(r, {Req("node", None, None)}) /\ UNCHANGED ghost

PostDeleted(r) ==
    /\ Returned(r, "delete")
    /\ page' = [page EXCEPT !.feed = [t \in Tabs |-> [@[t] EXCEPT ![r.post] = None]]]
    /\ ghost' = [ghost EXCEPT !.deleted = @ \cup {r.post}]
    /\ Ends(r, {})

PostReacted(r) ==
    /\ Returned(r, "react")
    /\ page' = [page EXCEPT !.feed = [t \in Tabs |-> [@[t] EXCEPT ![r.post] =
                     IF @ = None THEN None ELSE [@ EXCEPT !.reacted = r.ans[r.post].reacted]]]]
    /\ Ends(r, {}) /\ UNCHANGED ghost

CommentsReturn(r) ==
    /\ Returned(r, "comments")
    /\ page' = [page EXCEPT !.comments[r.post] = r.ans[r.post].comments, !.busy = FALSE]
    /\ Ends(r, {}) /\ UNCHANGED ghost

CommentAdded(r) ==
    /\ Returned(r, "comment")
    /\ page' = [page EXCEPT !.comments[r.post] = Append(IF @ = None THEN <<>> ELSE @, "me"),
                            !.feed = Counted(r.post, 1)]
    /\ Ends(r, {}) /\ UNCHANGED ghost

CommentDeleted(r) ==
    /\ Returned(r, "uncomment")
    /\ page' = [page EXCEPT !.comments[r.post] = Without(IF @ = None THEN <<>> ELSE @, r.by),
                            !.feed = Counted(r.post, -1)]
    /\ Ends(r, {}) /\ UNCHANGED ghost

(* A request that failed is only announced. *)
RequestFails(r) ==
    /\ ~r.ok
    /\ page' = [page EXCEPT !.loading = IF r.op \in Tabs THEN @ \ {r.op} ELSE @,
                            !.busy = IF r.op = "comments" THEN FALSE ELSE @]
    /\ Ends(r, {}) /\ UNCHANGED ghost

Acts(p) ==
    \/ CreatePost(p) \/ ReactToPost(p) \/ ToggleComments(p) \/ HandleAddComment(p)
    \/ HandleDeletePost(p) \/ \E by \in People : HandleDeleteComment(p, by)
Answers(r) ==
    \/ FeedReturns(r) \/ PostCreated(r) \/ PostDeleted(r) \/ PostReacted(r)
    \/ CommentsReturn(r) \/ CommentAdded(r) \/ CommentDeleted(r) \/ RequestFails(r)

FeedNext ==
    \/ \E p \in Posts : Acts(p) \/ OtherDeletes(p)
    \/ \E t \in Tabs : HandleTabChange(t)
    \/ Confirm \/ Cancel
    \/ \E r \in reqs : NodeServes(r) \/ NodeRefuses(r) \/ Answers(r)

-----------------------------------------------------------------------------
(* As long as the user waits for each answer, none fails and nobody else    *)
(* changes the posts, both feeds and the comments opened so far are what    *)
(* the node holds: each handler updates every copy its change concerns.     *)
ShownAsStored ==
    ghost.plain /\ reqs = {} =>
        /\ \A t \in Tabs : page.feed[t] = Feed(node, t)
        /\ \A p \in Posts : node[p].there /\ page.comments[p] # None => page.comments[p] = node[p].comments

(* Whoever is shown the button to delete a post or a comment of this node   *)
(* is permitted to: the page and the node agree on who a node operator is.  *)
OperatorDeletes ==
    \A p \in Posts \ Remote :
        /\ DeleteOffered(p) => MayDelete(p)
        /\ \A by \in People : UncommentOffered(p, by) => MayUncomment(p, by)

(* Where a post shows that nobody has commented on it yet, the number of    *)
(* comments beside it is zero.                                              *)
NoCommentsTrue ==
    \A p \in Posts : ShowsNoComments(p) => page.feed[page.tab][p].count = 0

(* A post that was announced as deleted is not shown any more.              *)
DeletedGone == \A p \in ghost.deleted : ~Shown(p)

-----------------------------------------------------------------------------
(***************************************************************************)
(* The box in which a GSN post is written (gsn/GsnPostComposer.jsx): its   *)
(* text, an image that is encrypted and uploaded as soon as it is chosen,  *)
(* the preview of that image (an object URL), and the post that is shared  *)
(* again.  While a post is on its way the box stays open for changes.      *)
(***************************************************************************)
CONSTANTS SentPosts,       \* posts that can be shared again
          MaxImages,   \* bound: images chosen
          MaxPosts     \* bound: posts shared

ComposerAssumption == Fails \in BOOLEAN /\ {MaxImages, MaxPosts} \subseteq Nat

VARIABLES box,      \* text written, uploadedImageMeta, imagePreviewUrl, repostOfPostId
          upload,   \* image being uploaded, 0 for none; its preview has the same number
          urls,     \* object URLs created and not revoked
          images,   \* images chosen so far
          sends,    \* posts on their way, with the closure of handleCreatePost
          sent, composerGhost
composerVars == <<box, upload, urls, images, sends, sent, composerGhost>>

Images == 0..MaxImages
Empty == [text |-> FALSE, image |-> 0, preview |-> 0, repost |-> None]
Boxes == [text : BOOLEAN, image : Images, preview : Images, repost : SentPosts \cup {None}]

ComposerTypeOK ==
    /\ box \in Boxes /\ upload \in Images /\ urls \subseteq 1..MaxImages /\ images \in Images
    /\ sends \in [1..MaxPosts -> Boxes \cup {None}] /\ sent \in 0..MaxPosts
    /\ composerGhost \in [plain : BOOLEAN]

ComposerInit ==
    /\ box = Empty /\ upload = 0 /\ urls = {} /\ images = 0
    /\ sends = [i \in 1..MaxPosts |-> None] /\ sent = 0 /\ composerGhost = [plain |-> TRUE]

Posting == \E i \in 1..MaxPosts : sends[i] # None

(* Typing and the emoji picker. *)
Write ==
    /\ \E x \in BOOLEAN : x # box.text /\ box' = [box EXCEPT !.text = x]
    /\ UNCHANGED <<upload, urls, images, sends, sent, composerGhost>>

(* handleImageUpload: the preview at once, the image when it is uploaded. *)
HandleImageUpload ==
    /\ upload = 0 /\ images < MaxImages
    /\ images' = images + 1 /\ upload' = images' /\ urls' = urls \cup {images'}
    /\ box' = [box EXCEPT !.preview = images']
    /\ composerGhost' = [composerGhost EXCEPT !.plain = @ /\ ~Posting]
    /\ UNCHANGED <<sends, sent>>

ImageUploaded ==
    /\ upload # 0
    /\ box' = [box EXCEPT !.image = upload] /\ upload' = 0
    /\ UNCHANGED <<urls, images, sends, sent, composerGhost>>

ImageUploadFails ==
    /\ Fails /\ upload # 0
    /\ urls' = urls \ {upload} /\ upload' = 0
    /\ box' = [box EXCEPT !.preview = 0]
    /\ composerGhost' = [composerGhost EXCEPT !.plain = FALSE]
    /\ UNCHANGED <<images, sends, sent>>

(* The image and the button that removes it are shown together. *)
ImageShown == box.image # 0 /\ box.preview # 0

RemoveImage ==
    /\ ImageShown
    /\ box' = [box EXCEPT !.image = 0, !.preview = 0] /\ urls' = urls \ {box.preview}
    /\ composerGhost' = [composerGhost EXCEPT !.plain = @ /\ upload = 0]
    /\ UNCHANGED <<upload, images, sends, sent>>

HandleRepost(p) ==
    /\ box.repost # p /\ box' = [box EXCEPT !.repost = p]
    /\ UNCHANGED <<upload, urls, images, sends, sent, composerGhost>>

CancelRepost ==
    /\ box.repost # None /\ box' = [box EXCEPT !.repost = None, !.text = FALSE]
    /\ UNCHANGED <<upload, urls, images, sends, sent, composerGhost>>

HandleCreatePost ==
    /\ (box.text = FALSE => box.image # 0) /\ upload = 0 /\ sent < MaxPosts
    /\ sent' = sent + 1 /\ sends' = [sends EXCEPT ![sent'] = box]
    /\ UNCHANGED <<box, upload, urls, images, composerGhost>>

(* The box is emptied of whatever it holds by then; the preview only if *)
(* there was one when the post was sent.                                *)
PostShared(i) ==
    /\ sends[i] # None
    /\ box' = [Empty EXCEPT !.preview = IF sends[i].preview # 0 THEN 0 ELSE box.preview]
    /\ urls' = IF sends[i].preview # 0 THEN urls \ {sends[i].preview} ELSE urls
    /\ sends' = [sends EXCEPT ![i] = None]
    /\ UNCHANGED <<upload, images, sent, composerGhost>>

PostFails(i) ==
    /\ Fails /\ sends[i] # None /\ sends' = [sends EXCEPT ![i] = None]
    /\ UNCHANGED <<box, upload, urls, images, sent, composerGhost>>

ComposerNext ==
    \/ Write \/ HandleImageUpload \/ ImageUploaded \/ ImageUploadFails \/ RemoveImage
    \/ CancelRepost \/ HandleCreatePost
    \/ \E p \in SentPosts : HandleRepost(p)
    \/ \E i \in 1..MaxPosts : PostShared(i) \/ PostFails(i)

-----------------------------------------------------------------------------
(* The preview the box shows is never an object URL that was revoked, though *)
(* posts, uploads and removals revoke URLs from their own closures.          *)
PreviewLive == box.preview # 0 => box.preview \in urls

(* A post is shared with an image only if the box showed that image.         *)
SharedAsShown ==
    \A i \in 1..MaxPosts : sends[i] # None /\ sends[i].image # 0 => sends[i].preview = sends[i].image

(* The same as long as no upload fails, no image is chosen while a post is   *)
(* on its way, and none is removed while another is being uploaded.          *)
SharedAsShownPlain == composerGhost.plain => SharedAsShown

-----------------------------------------------------------------------------
vars == <<feedVars, composerVars>>

Init == FeedInit /\ ComposerInit

Next ==
  \/ FeedNext /\ UNCHANGED composerVars
  \/ ComposerNext /\ UNCHANGED feedVars

Spec == Init /\ [][Next]_vars
=============================================================================
