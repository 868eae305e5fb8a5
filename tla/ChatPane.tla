----------------------------- MODULE ChatPane -----------------------------
(***************************************************************************)
(* What the chat pane does beside sending: pictures, the scrolled timeline *)
(* with its search, and the signal that somebody types.  The three have no *)
(* state in common.                                                        *)
(***************************************************************************)
EXTENDS Naturals, FiniteSets, Sequences

-----------------------------------------------------------------------------
(***************************************************************************)
(* Pictures that are downloaded, decrypted and shown by way of an object   *)
(* URL: images of a chat (DecryptedImage of ChatPane.jsx) and of GaiaNet   *)
(* posts (DecryptedGsnImage), which release their URL when they go, and    *)
(* avatars (DecryptedAvatar), which keep it in a cache all of them share.  *)
(*                                                                         *)
(* A place on the page shows one file at a time; the file may be replaced  *)
(* while the download of the former one is under way.                      *)
(***************************************************************************)
CONSTANTS Places, Files, NoFile, Avatars, MaxLoads, MaxOps

DecryptedMediaAssumption ==
  NoFile \notin Files /\ Avatars \subseteq Places /\ {MaxLoads, MaxOps} \subseteq Nat

Urls == 1..MaxLoads
VARIABLES file,    \* file[p]: what the place is to show, NoFile when it is not on the page
          view,    \* view[p]: imgUrl (0: none), loading, error (or expired)
          made,    \* made[p]: createdUrl of the effect under way, 0 before
          loads,   \* downloads under way: [p, file, active]
          live,    \* live[u]: the file of an object URL that exists, else NoFile
          cache,   \* avatarUrlCache: file -> URL (0: none)
          mediaOps
mediaVars == <<file, view, made, loads, live, cache, mediaOps>>

Blank == [url |-> 0, loading |-> TRUE, error |-> FALSE]
Load == [p : Places, file : Files, active : BOOLEAN]
Unused == {u \in Urls : live[u] = NoFile}

\* The one type invariant: only one download per place is still wanted, that of its file.
MediaTypeOK ==
  /\ file \in [Places -> Files \union {NoFile}]
  /\ view \in [Places -> [url : 0..MaxLoads, loading : BOOLEAN, error : BOOLEAN]]
  /\ made \in [Places -> 0..MaxLoads] /\ loads \subseteq Load
  /\ live \in [Urls -> Files \union {NoFile}] /\ cache \in [Files -> 0..MaxLoads]
  /\ \A l \in loads : l.active => l.file = file[l.p]

MediaInit ==
  /\ file = [p \in Places |-> NoFile] /\ view = [p \in Places |-> Blank]
  /\ made = [p \in Places |-> 0] /\ loads = {} /\ live = [u \in Urls |-> NoFile]
  /\ cache = [f \in Files |-> 0] /\ mediaOps = 0

\* The cleanup of the effect: an image gives its URL back.
Cleanup(p) == IF p \notin Avatars /\ made[p] # 0 THEN [live EXCEPT ![made[p]] = NoFile] ELSE live
\* The download of the former file is no longer wanted.
Inactive(p) == {[l EXCEPT !.active = (@ /\ l.p # p)] : l \in loads}

\* The place comes onto the page (or is given another file): the effect starts a
\* download, an avatar looks in the cache first.
Show(p, f) ==
  /\ f # file[p] /\ mediaOps < MaxOps /\ mediaOps' = mediaOps + 1
  /\ file' = [file EXCEPT ![p] = f] /\ made' = [made EXCEPT ![p] = 0]
  /\ live' = Cleanup(p)
  /\ IF p \in Avatars /\ cache[f] # 0
     THEN /\ view' = [view EXCEPT ![p].url = cache[f], ![p].loading = FALSE]
          /\ loads' = Inactive(p)
     ELSE /\ UNCHANGED view
          /\ loads' = Inactive(p) \union {[p |-> p, file |-> f, active |-> TRUE]}
  /\ UNCHANGED cache

\* The place leaves the page.
Unmount(p) ==
  /\ file[p] # NoFile /\ file' = [file EXCEPT ![p] = NoFile] /\ view' = [view EXCEPT ![p] = Blank]
  /\ made' = [made EXCEPT ![p] = 0] /\ live' = Cleanup(p) /\ loads' = Inactive(p)
  /\ UNCHANGED <<cache, mediaOps>>

\* The file is there and decrypted; a URL is made only if it is still wanted.
Loaded(l) ==
  /\ l \in loads /\ loads' = loads \ {l}
  /\ IF ~l.active THEN UNCHANGED <<live, made, view, cache>>
     ELSE /\ Unused # {}
          /\ LET u == CHOOSE x \in Unused : TRUE IN
             /\ live' = [live EXCEPT ![u] = l.file] /\ made' = [made EXCEPT ![l.p] = u]
             /\ view' = [view EXCEPT ![l.p].url = u, ![l.p].loading = FALSE]
             /\ cache' = IF l.p \in Avatars THEN [cache EXCEPT ![l.file] = u] ELSE cache
  /\ UNCHANGED <<file, mediaOps>>
LoadFails(l) ==
  /\ l \in loads /\ loads' = loads \ {l}
  /\ view' = IF l.active THEN [view EXCEPT ![l.p].error = TRUE, ![l.p].loading = FALSE] ELSE view
  /\ UNCHANGED <<file, made, live, cache, mediaOps>>

\* What the place shows.
Rendered(p) ==
  IF view[p].loading THEN "loading" ELSE IF view[p].error THEN "error"
  ELSE IF view[p].url = 0 THEN "none" ELSE live[view[p].url]

MediaNext ==
  \/ \E p \in Places : Unmount(p) \/ \E f \in Files : Show(p, f)
  \/ \E l \in Load : Loaded(l) \/ LoadFails(l)

-----------------------------------------------------------------------------
(* Properties.                                                              *)

\* As long as no avatar has been loaded (avatars keep theirs), every URL that exists is
\* one that a place on the page made for its file: none outlives its picture.
UrlsReleased ==
  (\A p \in Avatars : file[p] = NoFile) /\ (\A f \in Files : cache[f] = 0) =>
    \A u \in Urls : live[u] # NoFile => \E p \in Places \ Avatars : made[p] = u /\ file[p] = live[u]

\* A place whose download is over shows its own file, or says that there was an error;
\* a late download of a former file never replaces it.
ShowsItsFile ==
  \A p \in Places :
    file[p] # NoFile /\ (\A l \in loads : l.p = p => ~l.active) =>
      Rendered(p) \in {"error", file[p]}

-----------------------------------------------------------------------------
(***************************************************************************)
(* The timeline of a conversation: which messages a search leaves, whether *)
(* it is scrolled to its end and the button that counts what came since    *)
(* (ChatPane.jsx; GroupChatPane.jsx has the same effects for a channel,    *)
(* and keeps the search when the channel changes).                         *)
(*                                                                         *)
(* Effects run with the render a step leads to and are part of the step.   *)
(***************************************************************************)
CONSTANTS Chats, Group, MaxMessages

ChatTimelineAssumption == Group \in BOOLEAN /\ {MaxMessages, MaxOps} \subseteq Nat

VARIABLES msgs,    \* msgs[c]: the messages of a conversation, with whether the search finds them
          open,    \* the conversation on screen
          query,   \* localSearchQuery is not empty
          near,    \* isNearBottom
          pending, \* pendingMessageCount
          prev,    \* previousLastMessageIdRef, 0 when empty
          count, timelineOps, fresh  \* fresh: messages that came since the end was in view
timelineVars == <<msgs, open, query, near, pending, prev, count, timelineOps, fresh>>

Message == [id : 1..MaxMessages, hit : BOOLEAN]
Filtered(s, q) == IF q THEN SelectSeq(s, LAMBDA m : m.hit) ELSE s
LastId(s) == IF s = <<>> THEN 0 ELSE s[Len(s)].id

\* The one type invariant: what is counted is not in view.
TimelineTypeOK ==
  /\ \A c \in Chats : \A i \in 1..Len(msgs[c]) : msgs[c][i] \in Message
  /\ open \in Chats /\ query \in BOOLEAN /\ near \in BOOLEAN
  /\ pending \in 0..(MaxMessages + MaxOps) /\ prev \in 0..MaxMessages
  /\ (near => pending = 0)

TimelineInit ==
  /\ msgs = [c \in Chats |-> <<>>] /\ open \in Chats /\ query = FALSE /\ near = TRUE
  /\ pending = 0 /\ prev = 0 /\ count = 0 /\ timelineOps = 0 /\ fresh = {}

Move == timelineOps < MaxOps /\ timelineOps' = timelineOps + 1

\* The effect on lastMessageId: the end is scrolled to, or one more is counted.
LastMessageEffect(s) ==
  /\ prev' = LastId(s)
  /\ IF LastId(s) \in {0, prev} THEN UNCHANGED <<near, pending>>
     ELSE IF prev = 0 \/ near THEN near' = TRUE /\ pending' = 0
     ELSE near' = near /\ pending' = pending + 1

\* Messages k arrive at once in conversation c with a poll.
Arrive(c, k, h) ==
  /\ count + k <= MaxMessages /\ count' = count + k
  /\ msgs' = [msgs EXCEPT ![c] = @ \o [i \in 1..k |-> [id |-> count + i, hit |-> h]]]
  /\ IF c = open
     THEN /\ LastMessageEffect(Filtered(msgs'[c], query))
          /\ fresh' = IF near' THEN {} ELSE fresh \union {count + i : i \in 1..k}
     ELSE UNCHANGED <<near, pending, prev, fresh>>
  /\ UNCHANGED <<open, query, timelineOps>>

\* The last message of the conversation is deleted or replaced by an edited one.
RemoveLast ==
  /\ msgs[open] # <<>> /\ Move
  /\ msgs' = [msgs EXCEPT ![open] = SubSeq(@, 1, Len(@) - 1)]
  /\ LastMessageEffect(Filtered(msgs'[open], query))
  /\ fresh' = IF near' THEN {} ELSE fresh \ {LastId(msgs[open])}
  /\ UNCHANGED <<open, query, count>>

\* The search field.
Search ==
  /\ Move /\ query' = ~query /\ LastMessageEffect(Filtered(msgs[open], query'))
  /\ fresh' = IF near' THEN {} ELSE fresh
  /\ UNCHANGED <<msgs, open, count>>

\* syncScrollState.
ScrollUp ==
  /\ near /\ msgs[open] # <<>> /\ Move /\ near' = FALSE
  /\ UNCHANGED <<msgs, open, query, pending, prev, count, fresh>>
\* syncScrollState at the end, or the button (scrollToLatest).
ScrollDown ==
  /\ ~near /\ near' = TRUE /\ pending' = 0 /\ fresh' = {}
  /\ UNCHANGED <<msgs, open, query, prev, count, timelineOps>>

\* GroupChatPane's effect on the channel leaves the search alone.
KeptQuery == Group /\ query
\* Another conversation: the timeline starts at its end; a direct chat forgets the
\* search, a channel keeps it.
Open(c) ==
  /\ c # open /\ Move /\ open' = c /\ query' = KeptQuery
  /\ near' = TRUE /\ pending' = 0 /\ fresh' = {} /\ prev' = LastId(Filtered(msgs[c], query'))
  /\ UNCHANGED <<msgs, count>>

TimelineNext ==
  \/ \E c \in Chats, k \in 1..2, h \in BOOLEAN : Arrive(c, k, h)
  \/ \E c \in Chats : Open(c)
  \/ RemoveLast \/ Search \/ ScrollUp \/ ScrollDown

-----------------------------------------------------------------------------
(* Properties.                                                              *)

\* A message that came while the person was reading further up is pointed out by the
\* button, whatever was searched or deleted meanwhile.
PendingShown == ~near /\ ~query /\ fresh # {} => pending > 0

\* "`${count} neue Nachrichten`": the button counts messages that came since the end
\* was in view, and no more.
PendingTrue == pending <= Cardinality(fresh)

-----------------------------------------------------------------------------
(***************************************************************************)
(* "tippt gerade...": one person writes, another looks at the chat. The    *)
(* writer's page tells the node with every change of the input and every   *)
(* 2.5 seconds, the node forgets after six seconds, the viewer's page asks *)
(* every two (effects of ChatPane.jsx and GroupChatPane.jsx;               *)
(* Backend/presence/service.go). Requests overtake each other and get      *)
(* lost; the viewer may look at another chat in between.                   *)
(***************************************************************************)
CONSTANT MaxRequests

ChatTypingAssumption == {MaxRequests, MaxOps} \subseteq Nat

\* The writer writes in one chat; the viewer looks at this one or at the other.
VARIABLES writing,   \* the writer's input is not empty and not blocked
          updates,   \* in flight: updates[b] requests that say b
          signal,    \* the node's signal for the viewer
          here,      \* the viewer has the writer's chat open
          asks,      \* in flight: asks[x], x = answered for a chat that is still open, and what it says
          label,     \* contactTyping of the viewer's page
          typingOps
typingVars == <<writing, updates, signal, here, asks, label, typingOps>>

Asks == [live : BOOLEAN, chat : BOOLEAN]

\* The one type invariant: an answer that is still wanted is about the chat that is
\* open (the stopped flag of the effect).
TypingTypeOK ==
  /\ writing \in BOOLEAN /\ signal \in BOOLEAN /\ here \in BOOLEAN /\ label \in BOOLEAN
  /\ updates \in [BOOLEAN -> 0..MaxRequests] /\ asks \subseteq Asks /\ typingOps \in 0..MaxOps
  /\ \A a \in asks : a.live => a.chat = here

TypingInit ==
  /\ writing = FALSE /\ updates = [b \in BOOLEAN |-> 0] /\ signal = FALSE /\ here = TRUE
  /\ asks = {[live |-> TRUE, chat |-> TRUE]} /\ label = FALSE /\ typingOps = 0

Step == typingOps < MaxOps /\ typingOps' = typingOps + 1
Sum == updates[TRUE] + updates[FALSE]

\* The input is filled or changed: the cleanup of the former effect takes the signal
\* back and the new effect gives it.
Write ==
  /\ Step /\ writing' = TRUE
  /\ Sum + 2 <= MaxRequests
  /\ updates' = [b \in BOOLEAN |-> IF b \/ writing THEN updates[b] + 1 ELSE updates[b]]
  /\ UNCHANGED <<signal, here, asks, label>>
\* The interval of 2.5 seconds.
Repeat ==
  /\ writing /\ Sum < MaxRequests /\ updates' = [updates EXCEPT ![TRUE] = @ + 1] /\ Step
  /\ UNCHANGED <<writing, signal, here, asks, label>>
\* The message is sent, the input emptied or the chat left.
StopWriting ==
  /\ writing /\ Sum < MaxRequests /\ Step /\ writing' = FALSE
  /\ updates' = [updates EXCEPT ![FALSE] = @ + 1]
  /\ UNCHANGED <<signal, here, asks, label>>

\* UpdateTyping: requests arrive in any order, or not at all.
UpdateTyping(b) ==
  /\ updates[b] > 0 /\ updates' = [updates EXCEPT ![b] = @ - 1] /\ signal' = b
  /\ UNCHANGED <<writing, here, asks, label, typingOps>>
UpdateLost(b) ==
  /\ updates[b] > 0 /\ updates' = [updates EXCEPT ![b] = @ - 1]
  /\ UNCHANGED <<writing, signal, here, asks, label, typingOps>>

\* pruneExpired: the signal is older than six seconds.
Prune ==
  /\ signal /\ signal' = FALSE
  /\ UNCHANGED <<writing, updates, here, asks, label, typingOps>>

\* loadTyping at the start of the effect and every two seconds.
LoadTyping ==
  /\ [live |-> TRUE, chat |-> here] \notin asks
  /\ asks' = asks \union {[live |-> TRUE, chat |-> here]}
  /\ UNCHANGED <<writing, updates, signal, here, label, typingOps>>
\* The answer; the other chat's contact never types.
TypingStatus(a) ==
  /\ a \in asks /\ asks' = asks \ {a}
  /\ label' = IF a.live THEN a.chat /\ signal ELSE label
  /\ UNCHANGED <<writing, updates, signal, here, typingOps>>
\* The catch block.
TypingFails(a) ==
  /\ a \in asks /\ asks' = asks \ {a} /\ label' = (label /\ ~a.live)
  /\ UNCHANGED <<writing, updates, signal, here, typingOps>>

\* The viewer opens the other chat, or comes back: the answers of the chat that is
\* left are no longer wanted; the label stays until the first answer.
SwitchChat ==
  /\ Step /\ here' = ~here
  /\ asks' = {[a EXCEPT !.live = FALSE] : a \in asks} \union {[live |-> TRUE, chat |-> ~here]}
  /\ UNCHANGED <<writing, updates, signal, label>>

AskEnds(a) == TypingStatus(a) \/ TypingFails(a)

TypingNext ==
  \/ Write \/ Repeat \/ StopWriting \/ Prune \/ LoadTyping \/ SwitchChat
  \/ \E b \in BOOLEAN : UpdateTyping(b) \/ UpdateLost(b)
  \/ \E a \in Asks : AskEnds(a)

-----------------------------------------------------------------------------
(* Properties.                                                              *)

\* The other person writes; the label says so.
Writes == writing
Labelled == label

\* An answer turns the label on only for the chat that is on screen.
LabelOfChat == ~label /\ label' => here'

-----------------------------------------------------------------------------
vars == <<mediaVars, timelineVars, typingVars>>

Init == MediaInit /\ TimelineInit /\ TypingInit

Next ==
  \/ MediaNext /\ UNCHANGED <<timelineVars, typingVars>>
  \/ TimelineNext /\ UNCHANGED <<mediaVars, typingVars>>
  \/ TypingNext /\ UNCHANGED <<mediaVars, timelineVars>>

Spec == Init /\ [][Next]_vars
=============================================================================
