---------------------------- MODULE MCCommunity ----------------------------
(***************************************************************************)
(* What people do together: chats, rooms and their channels, public        *)
(* channels, the feed of GaiaNet, its profiles, the abuse centre and the   *)
(* security centre with its registry of nodes.  Each part is a component   *)
(* with small constants; the parts have no state in common, so they are    *)
(* explored one at a time, in the same slots s1...                         *)
(***************************************************************************)
EXTENDS Naturals, FiniteSets, Sequences, TLC

CONSTANTS Parts,      \* the parts to explore
          None, Off,
          owner, member,    \* of a room
          c1, c2, p1, p2    \* public channels and their posts

VARIABLES part,   \* the part that is explored
          s1, s2, s3, s4, s5, s6, s7, s8, s9, s10, s11, s12, s13, s14, s15   \* its variables

rest15 == <<s15>>
rest14 == <<s14, rest15>>
rest13 == <<s13, rest14>>
rest12 == <<s12, rest13>>
rest11 == <<s11, rest12>>
rest10 == <<s10, rest11>>
rest9 == <<s9, rest10>>
rest8 == <<s8, rest9>>
rest7 == <<s7, rest8>>
rest6 == <<s6, rest7>>
rest5 == <<s5, rest6>>
rest4 == <<s4, rest5>>
rest3 == <<s3, rest4>>
vars == <<part, s1, s2, rest3>>

off15 == s15 = Off
off14 == s14 = Off /\ off15
off13 == s13 = Off /\ off14
off12 == s12 = Off /\ off13
off11 == s11 = Off /\ off12
off10 == s10 = Off /\ off11
off9 == s9 = Off /\ off10
off8 == s8 = Off /\ off9
off7 == s7 = Off /\ off8
off6 == s6 = Off /\ off7
off5 == s5 = Off /\ off6
off4 == s4 = Off /\ off5
off3 == s3 = Off /\ off4

-----------------------------------------------------------------------------
ChannelsOf(r) == <<"d1">>

\* One message of each, edited and deleted.
Messages == INSTANCE ChatMessages WITH
  Users <- {"ann", "ben"}, MaxSends <- 1, MaxEnvelopes <- 8, MaxTasks <- 1,
  MaxEdits <- 2, MaxDeletes <- 1, MaxPolls <- 3, envs <- s1, shown <- s2,
  open <- s3, hidden <- s4, polls <- s5, tasks <- s6, count <- s7,
  ghost <- s8

\* Two messages and operations that overlap.
Both == INSTANCE ChatMessages WITH
  Users <- {"ann", "ben"}, MaxSends <- 2, MaxEnvelopes <- 6, MaxTasks <- 2,
  MaxEdits <- 1, MaxDeletes <- 1, MaxPolls <- 1, envs <- s1, shown <- s2,
  open <- s3, hidden <- s4, polls <- s5, tasks <- s6, count <- s7,
  ghost <- s8

\* A message with its pin, star, reactions and notes.
Meta == INSTANCE ChatMeta WITH
  MaxTasks <- 2, MaxOps <- 3, MaxPolls <- 2, MaxPeer <- 1, MaxReloads <- 1,
  server <- s1, copy <- s2, loaded <- s3, meta <- s4, stored <- s5,
  tasks <- s6, polls <- s7, count <- s8, ghost <- s9

\* Two chats and a file.
Writer == INSTANCE ChatComposer WITH
  Peers <- {"p1", "p2"}, NoPeer <- None, MaxFiles <- 1, MaxTasks <- 2,
  MaxOps <- 4, active <- s1, text <- s2, staged <- s3, reply <- s4,
  rec <- s5, secret <- s6, blocked <- s7, capable <- s8, uploads <- s9,
  tasks <- s10, sent <- s11, ops <- s12, files <- s13, ghost <- s14

\* A direct chat, two channels; a day of six minutes.
Notify == INSTANCE ChatNotify WITH
  Direct <- {"ann"}, Channels <- {"general", "random"}, NoChat <- "none",
  MaxMessages <- 3, MaxOps <- 3, Minutes <- 6, DefaultStart <- 5,
  DefaultEnd <- 2, Invalid <- 99, node <- s1, read <- s2, list <- s3,
  readHere <- s4, open <- s5, window <- s6, enabled <- s7, known <- s8,
  stored <- s9, primed <- s10, lastIn <- s11, marker <- s12,
  snapshot <- s13, ops <- s14, ghost <- s15, pref <- s1, now <- s2

\* An image and two avatars; the timelines of two chats.
Pane == INSTANCE ChatPane WITH
  Places <- {"image", "avatar", "avatar2"}, Files <- {"f", "g"},
  NoFile <- "none", Avatars <- {"avatar", "avatar2"}, MaxLoads <- 4,
  MaxOps <- 5, Chats <- {"ann", "ben"}, Group <- FALSE, MaxMessages <- 4,
  MaxRequests <- 3, file <- s1, view <- s2, made <- s3, loads <- s4,
  live <- s5, cache <- s6, mediaOps <- s7, msgs <- s1, open <- s2,
  query <- s3, near <- s4, pending <- s5, prev <- s6, count <- s7,
  timelineOps <- s8, fresh <- s9, writing <- s1, updates <- s2,
  signal <- s3, here <- s4, asks <- s5, label <- s6, typingOps <- s7

\* An owner and a member.
Membership == INSTANCE Rooms WITH
  Ids <- {owner, member}, Creator <- owner, Able <- {owner}, MaxUses <- 1,
  MaxTasks <- 2, MaxOps <- 5, MaxRows <- 2, rows <- s1, alive <- s2,
  secret <- s3, invite <- s4, ask <- s5, view <- s6, form <- s7,
  tasks <- s8, ops <- s9, ghost <- s10

\* One channel in slow mode; members with names that resemble each other.
Spacing == INSTANCE RoomChannels WITH
  Rooms <- {"r1"}, Channels <- ChannelsOf, Members <- {"i", "m"},
  Privileged <- FALSE, Slow <- 2, MaxOps <- 4, MaxCalls <- 1,
  MaxSends <- 2, Names <- {<<"x">>, <<"x", "2">>, <<"x", "2", "2">>},
  MaxMembers <- 4, MaxText <- 3, MaxSteps <- 5, active <- s1,
  channel <- s2, listed <- s3, calls <- s4, readOnly <- s5, cool <- s6,
  half <- s7, last <- s8, sends <- s9, ops <- s10, ghost <- s11,
  members <- s1, text <- s2, caret <- s3, start <- s4, query <- s5,
  picked <- s6, steps <- s7, lastWord <- s8

\* Two channels, one of them administered by this user; the post editor.
Public == INSTANCE PublicChannels WITH
  Channels <- {c1, c2}, Posts <- {p1, p2},
  PostOf <- (p1 :> c1) @@ (p2 :> c2), AdminOf <- {c2}, Operator <- TRUE,
  Start <- {c1}, Foreign <- TRUE, MaxOps <- 5, MaxReqs <- 2, MaxTexts <- 2,
  ch <- s1, po <- s2, page <- s3, reqs <- s4, ops <- s5, ghost <- s6,
  active <- s1, body <- s2, drafts <- s3, picture <- s4, choosing <- s5,
  planned <- s6, busy <- s7, pub <- s8, listing <- s9, posts <- s10,
  written <- s11, composerOps <- s12

\* Two posts, one of them by this user; a post with pictures.
Feed == INSTANCE GsnFeed WITH
  Posts <- {"p1", "p2"}, Mine <- {"p1"}, Remote <- {}, Followed <- {"p2"},
  Later <- {"p1"}, Roles <- {"none"}, Fails <- TRUE, Foreign <- TRUE,
  MaxOps <- 2, SentPosts <- {"p1"}, MaxImages <- 3, MaxPosts <- 3,
  node <- s1, role <- s2, page <- s3, reqs <- s4, ops <- s5, ghost <- s6,
  box <- s1, upload <- s2, urls <- s3, images <- s4, sends <- s5,
  sent <- s6, composerGhost <- s7

\* The profiles of three people.
Person == INSTANCE GsnProfile WITH
  Me <- "me", Others <- {"a", "b"}, Fails <- TRUE, MaxReqs <- 3,
  MaxData <- 1, node <- s1, drawer <- s2, page <- s3, report <- s4,
  reqs <- s5, count <- s6, ghost <- s7

\* Two cases, one against this user.
Abuse == INSTANCE AbuseCenter WITH
  Cases <- {"c1", "c2"}, MyCases <- {"c1"},
  Roles <- {"trusted_reviewer", "senior_reviewer", "node_operator"},
  Fails <- TRUE, MaxReqs <- 5, MaxFlight <- 2, node <- s1, page <- s2,
  reqs <- s3, count <- s4, ghost <- s5

\* Two security events; two nodes in the registry.
Security == INSTANCE SecurityCenter WITH
  Events <- {"e1", "e2"}, Before <- {"e1"},
  Roles <- {"user", "node_operator"}, Fails <- TRUE, MaxAcks <- 1,
  MaxFlight <- 2, Domains <- {"d1", "d2"}, Known <- {"d1"},
  Authority <- TRUE, MaxOps <- 3, node <- s1, role <- s2, page <- s3,
  reqs <- s4, acks <- s5, ghost <- s6, entry <- s1, server <- s2,
  secrets <- s3, registry <- s4, registryReqs <- s5, ops <- s6,
  registryGhost <- s7

ASSUME PartsAssumption ==
  Messages!ChatMessagesAssumption /\ Both!ChatMessagesAssumption /\
  Meta!ChatMetaAssumption /\ Writer!ChatComposerAssumption /\
  Notify!ChatNotifyAssumption /\ Notify!QuietHoursAssumption /\
  Pane!DecryptedMediaAssumption /\ Pane!ChatTimelineAssumption /\
  Pane!ChatTypingAssumption /\ Membership!RoomsAssumption /\
  Spacing!ChannelsAssumption /\ Spacing!GroupMentionsAssumption /\
  Public!PublicAssumption /\ Public!ComposerAssumption /\
  Feed!FeedAssumption /\ Feed!ComposerAssumption /\ Person!ProfileAssumption
  /\ Abuse!AbuseAssumption /\ Security!CentreAssumption /\
  Security!RegistryAssumption

-----------------------------------------------------------------------------
Init ==
  /\ part \in Parts
  /\ \/ part = "messages" /\ Messages!Init /\ off9
     \/ part = "both" /\ Both!Init /\ off9
     \/ part = "meta" /\ Meta!Init /\ off10
     \/ part = "writer" /\ Writer!Init /\ off15
     \/ part = "notify" /\ Notify!ChatsInit
     \/ part = "quiet" /\ Notify!QuietInit /\ off3
     \/ part = "media" /\ Pane!MediaInit /\ off8
     \/ part = "timeline" /\ Pane!TimelineInit /\ off10
     \/ part = "rooms" /\ Membership!Init /\ off11
     \/ part = "slow" /\ Spacing!ChannelsInit /\ off12
     \/ part = "mentions" /\ Spacing!MentionsInit /\ off9
     \/ part = "public" /\ Public!PublicInit /\ off7
     \/ part = "post" /\ Public!ComposerInit /\ off13
     \/ part = "feed" /\ Feed!FeedInit /\ off7
     \/ part = "share" /\ Feed!ComposerInit /\ off8
     \/ part = "person" /\ Person!Init /\ off8
     \/ part = "abuse" /\ Abuse!Init /\ off6
     \/ part = "security" /\ Security!CenterInit /\ off7
     \/ part = "registry" /\ Security!RegistryInit /\ off8

MessagesNext == part = "messages" /\ Messages!Next /\ UNCHANGED <<part, rest9>>
BothNext == part = "both" /\ Both!Next /\ UNCHANGED <<part, rest9>>
MetaNext == part = "meta" /\ Meta!Next /\ UNCHANGED <<part, rest10>>
WriterNext == part = "writer" /\ Writer!Next /\ UNCHANGED <<part, rest15>>
NotifyNext == part = "notify" /\ Notify!ChatsNext /\ UNCHANGED part
QuietNext == part = "quiet" /\ Notify!QuietNext /\ UNCHANGED <<part, rest3>>
MediaNext == part = "media" /\ Pane!MediaNext /\ UNCHANGED <<part, rest8>>
TimelineNext == part = "timeline" /\ Pane!TimelineNext /\ UNCHANGED <<part, rest10>>
RoomsNext == part = "rooms" /\ Membership!Next /\ UNCHANGED <<part, rest11>>
SlowNext == part = "slow" /\ Spacing!ChannelsNext /\ UNCHANGED <<part, rest12>>
MentionsNext == part = "mentions" /\ Spacing!MentionsNext /\ UNCHANGED <<part, rest9>>
PublicNext == part = "public" /\ Public!PublicNext /\ UNCHANGED <<part, rest7>>
PostNext == part = "post" /\ Public!ComposerNext /\ UNCHANGED <<part, rest13>>
FeedNext == part = "feed" /\ Feed!FeedNext /\ UNCHANGED <<part, rest7>>
ShareNext == part = "share" /\ Feed!ComposerNext /\ UNCHANGED <<part, rest8>>
PersonNext == part = "person" /\ Person!Next /\ UNCHANGED <<part, rest8>>
AbuseNext == part = "abuse" /\ Abuse!Next /\ UNCHANGED <<part, rest6>>
SecurityNext == part = "security" /\ Security!CenterNext /\ UNCHANGED <<part, rest7>>
RegistryNext == part = "registry" /\ Security!RegistryNext /\ UNCHANGED <<part, rest8>>

Next ==
  \/ MessagesNext \/ BothNext \/ MetaNext \/ WriterNext \/ NotifyNext
  \/ QuietNext \/ MediaNext \/ TimelineNext \/ RoomsNext \/ SlowNext
  \/ MentionsNext \/ PublicNext \/ PostNext \/ FeedNext \/ ShareNext
  \/ PersonNext \/ AbuseNext \/ SecurityNext \/ RegistryNext

Spec == Init /\ [][Next]_vars

-----------------------------------------------------------------------------

\* The state of every part has the type its component gives it.
Types ==
  /\ part = "messages" => Messages!TypeOK
  /\ part = "both" => Both!TypeOK
  /\ part = "meta" => Meta!TypeOK
  /\ part = "writer" => Writer!TypeOK
  /\ part = "notify" => Notify!ChatsTypeOK
  /\ part = "media" => Pane!MediaTypeOK
  /\ part = "timeline" => Pane!TimelineTypeOK
  /\ part = "rooms" => Membership!TypeOK
  /\ part = "slow" => Spacing!ChannelsTypeOK
  /\ part = "public" => Public!PublicTypeOK
  /\ part = "post" => Public!ComposerTypeOK
  /\ part = "feed" => Feed!FeedTypeOK
  /\ part = "share" => Feed!ComposerTypeOK
  /\ part = "person" => Person!TypeOK
  /\ part = "abuse" => Abuse!TypeOK
  /\ part = "security" => Security!CenterTypeOK
  /\ part = "registry" => Security!RegistryTypeOK

\* Messages arrive as they were written, and where: a message is shown once,
\* in its newest version, until it is deleted; a reply stays in its chat, its
\* files open for the recipient and its protection is not lowered; a mention
\* is inserted whole and names one member; a post of a channel or of the feed
\* is published where it was written and with the pictures shown; a member of
\* a room in slow mode waits.
WrittenArrives ==
  /\ part = "messages" => /\ Messages!ShownOnce /\ Messages!VersionKept
                          /\ Messages!DeletedReceived /\ Messages!ReadTrue /\ Messages!UnreadListed
  /\ part = "both" => Both!ShownOnce /\ Both!VersionKept /\ Both!DeletedReceived
  /\ part = "writer" => Writer!ReplySameChat /\ Writer!TopSecretKept /\ Writer!FilesGranted
  /\ part = "mentions" => Spacing!HandlesDistinct /\ Spacing!MentionWritten
  /\ part = "post" => Public!PublishedWhereWritten
  /\ part = "share" => Feed!SharedAsShownPlain
  /\ part = "slow" => Spacing!Spaced

\* Rights are respected: a room has one owner and stays top secret, every
\* control that is offered is one the node permits (in the feed: to users
\* without a credential), only the own profile is edited, a report is filed
\* once and an appeal offered once (to users with a role).
RightsRespected ==
  /\ part = "rooms" => Membership!OwnerOne /\ Membership!SecretLowered /\ Membership!OfferedPermitted
  /\ part = "public" => Public!OfferedPermitted
  /\ part = "feed" => Feed!OperatorDeletes
  /\ part = "person" => Person!EditorOwn /\ Person!ReportedOnce
  /\ part = "abuse" => Abuse!AppealOfferedOnce

\* The screen shows what the node or the device holds: pins and stars, the
\* picture of the message and no other, the pending message, channels, posts,
\* profiles, cases, snapshots, events and nodes; and a message is announced
\* once, unless it is on screen or the quiet hours are on.
ShownTrue ==
  /\ part = "meta" => Meta!ChoiceStored
  /\ part = "notify" => Notify!HookOnce /\ Notify!Announced
  /\ part = "quiet" => Notify!QuietRight
  /\ part = "media" => Pane!ShowsItsFile /\ Pane!UrlsReleased
  /\ part = "timeline" => Pane!PendingShown
  /\ part = "public" => Public!ShownAsStored
  /\ part = "feed" => Feed!ShownAsStored
  /\ part = "share" => Feed!PreviewLive
  /\ part = "person" => Person!ShownAsStored
  /\ part = "abuse" => Abuse!ActsOnShownPlain /\ Abuse!SnapshotShown
  /\ part = "security" => Security!AckShownPlain /\ Security!PanelsTrue
  /\ part = "registry" => Security!StatusShown /\ Security!ServerFollows /\ Security!SecretsSavedPlain

\* What a step does no more than: the divider before unread messages moves
\* only with the open chat, an up-to-date poll settles pins and stars, a draft
\* changes for the channel it is written in, announcements begin and end at
\* the edges of the quiet hours.
NoMoreThan ==
  [][/\ part = "notify" => Notify!DividerStays
     /\ part = "meta" => Meta!PollSettles
     /\ part = "post" => Public!DraftOwn
     /\ part = "quiet" => Notify!ChangesAtEdges]_vars
=============================================================================
