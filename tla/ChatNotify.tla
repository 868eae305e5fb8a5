----------------------------- MODULE ChatNotify -----------------------------
(***************************************************************************)
(* Notifications of chat messages, and the quiet hours in which they are   *)
(* held back.  The two have no state in common.                            *)
(***************************************************************************)
EXTENDS Naturals, FiniteSets

-----------------------------------------------------------------------------
(***************************************************************************)
(* What a person is told of new chat messages: system notifications        *)
(* (hooks/useChatNotifications.js, the effect of ChatPane.jsx), the        *)
(* unread divider of an open conversation and read receipts                *)
(* (hooks/useUnreadMarkers.js).                                            *)
(*                                                                         *)
(* A conversation is a direct chat or a channel of the one group room.     *)
(* Effects run with the render that a step leads to, so they are part of   *)
(* the step: Effects(...) below.                                           *)
(***************************************************************************)
CONSTANTS Direct, Channels, NoChat, MaxMessages, MaxOps

ChatNotifyAssumption ==
  /\ NoChat \notin Direct \union Channels /\ Direct \cap Channels = {}
  /\ {MaxMessages, MaxOps} \subseteq Nat

Chats == Direct \union Channels
Ids == 1..MaxMessages

VARIABLES node,     \* node[i]: the conversation of the i-th message, NoChat before it exists
          read,     \* messages the node has a read receipt of
          list,     \* chatMessages
          readHere, \* those of list that count as read
          open,     \* the conversation on screen
          window,   \* "focus", "behind" (visible without focus) or "hidden"
          enabled,  \* notificationPreferences.enabled (or outside the quiet hours)
          known,    \* knownChatNotificationIdsRef
          stored,   \* its copy in sessionStorage
          primed,   \* chatNotificationsPrimedRef
          lastIn,   \* lastIncomingMessageIdRef of ChatPane, 0 when it is empty
          marker,   \* the unread divider: [first, n]
          snapshot, \* the conversation the divider was computed for
          ops, ghost
chatsVars == <<node, read, list, readHere, open, window, enabled, known, stored, primed, lastIn, marker, snapshot, ops, ghost>>

Exists == {i \in Ids : node[i] # NoChat}
Of(S, c) == {i \in S : node[i] = c}
Least(S) == IF S = {} THEN 0 ELSE CHOOSE i \in S : \A j \in S : i <= j
Last(S) == IF S = {} THEN 0 ELSE CHOOSE i \in S : \A j \in S : j <= i
NoMarker == [first |-> 0, n |-> 0]

\* The one type invariant: the divider belongs to the conversation on screen, and the
\* ids in sessionStorage are those of the page.
ChatsTypeOK ==
  /\ node \in [Ids -> Chats \union {NoChat}] /\ open \in Chats \union {NoChat}
  /\ list \subseteq Exists /\ readHere \subseteq list /\ read \subseteq Exists /\ known \subseteq Exists
  /\ window \in {"focus", "behind", "hidden"} /\ enabled \in BOOLEAN /\ primed \in BOOLEAN
  /\ lastIn \in 0..MaxMessages /\ snapshot = open /\ (open = NoChat => marker = NoMarker)
  /\ stored = known /\ ops \in 0..MaxOps

ChatsInit ==
  /\ node = [i \in Ids |-> NoChat] /\ read = {} /\ list = {} /\ readHere = {} /\ open = NoChat
  /\ window = "focus" /\ enabled = TRUE /\ known = {} /\ stored = {} /\ primed = FALSE
  /\ lastIn = 0 /\ marker = NoMarker /\ snapshot = NoChat /\ ops = 0
  /\ ghost = [hook |-> [i \in Ids |-> 0], muted |-> FALSE, missed |-> FALSE, unseen |-> FALSE, divider |-> FALSE, before |-> {}]

-----------------------------------------------------------------------------
(* The effects of a render with list l, read marks r and conversation o.     *)

Fresh(l, r) == IF primed THEN (l \ known) \ r ELSE {}

\* The conversation of the message is on screen and the window has the focus.
OnScreen(i, o) == node[i] = o /\ window = "focus"

\* Every message of the list becomes known, announced or not.
Known(l, r, o) == known \union l

\* useChatNotifications: fresh messages that are not on screen, if allowed.
Announces(l, r, o) == {i \in Fresh(l, r) : enabled /\ ~OnScreen(i, o)}

\* ChatPane's own effect, while a direct chat is open: its latest message has changed
\* and the window is hidden.
PaneAnnounces(l, o) ==
  o \in Direct /\ Of(l, o) # {} /\ lastIn \notin {0, Last(Of(l, o))} /\ window = "hidden"

\* The messages that count as read with the conversation on screen: a channel marks
\* those of every channel of its room.
MarkedRead(l, r, o) ==
  CASE o \in Direct -> Of(l, o) \ r
    [] o \in Channels -> {i \in l : node[i] \in Channels} \ r
    [] OTHER -> {}

\* Deviant: the divider is computed anew with every list.
MarkerAlways(l, r, o) == IF o = NoChat THEN NoMarker ELSE [first |-> Least(Of(l, o) \ r), n |-> Cardinality(Of(l, o) \ r)]
\* The divider is computed when a conversation comes on screen, and kept.
Marker(l, r, o) ==
  IF o = NoChat THEN NoMarker
  ELSE IF snapshot = o THEN marker
  ELSE [first |-> Least(Of(l, o) \ r), n |-> Cardinality(Of(l, o) \ r)]

Effects(l, r, o) ==
  LET m == MarkedRead(l, r, o) IN
  /\ list' = l /\ open' = o /\ readHere' = r \union m /\ read' = read \union m
  /\ known' = Known(l, r, o) /\ stored' = Known(l, r, o)
  /\ primed' = (primed \/ l # {})
  /\ lastIn' = (IF o \notin Direct THEN 0 ELSE IF Of(l, o) = {} THEN lastIn ELSE Last(Of(l, o)))
  /\ marker' = Marker(l, r, o) /\ snapshot' = o
  /\ ghost' = [ghost EXCEPT
       !.hook = [i \in Ids |-> @[i] + (IF i \in Announces(l, r, o) THEN 1 ELSE 0)],
       !.missed = @ \/ \E i \in (l \ list) \ r : list # {} /\ enabled /\ i \notin Announces(l, r, o) /\ ~(node[i] = o /\ window = "focus"),
       !.muted = @ \/ (PaneAnnounces(l, o) /\ ~enabled),
       !.unseen = @ \/ \E i \in m : node[i] # o,
       !.divider = @ \/ (snapshot = o /\ marker.n = 0 /\ m \cap Of(l, o) \cap ghost.before # {}),
       !.before = IF snapshot = o THEN @ ELSE Of(Exists, o) \ read]

Step == ops < MaxOps /\ ops' = ops + 1

-----------------------------------------------------------------------------
(* Steps.                                                                   *)

MessageArrives(i, c) ==
  /\ i \notin Exists /\ \A j \in Ids : j < i => j \in Exists
  /\ node' = [node EXCEPT ![i] = c]
  /\ UNCHANGED <<read, list, readHere, open, window, enabled, known, stored, primed, lastIn, marker, snapshot, ops, ghost>>

\* The list of messages arrives with the read marks of the node; a mark just made here
\* is not taken back (the node has it).
Poll ==
  /\ (list # Exists \/ readHere # read) /\ Effects(Exists, read, open)
  /\ UNCHANGED <<node, window, enabled, ops>>

\* A conversation is opened or left.
Open(c) ==
  /\ c # open /\ window = "focus" /\ Step /\ Effects(list, readHere, c)
  /\ UNCHANGED <<node, window, enabled>>

WindowChanges(w) ==
  /\ w # window /\ Step /\ window' = w
  /\ UNCHANGED <<node, read, list, readHere, open, enabled, known, stored, primed, lastIn, marker, snapshot, ghost>>

\* The switch in the profile, or quiet hours beginning and ending.
TogglePreference ==
  /\ Step /\ enabled' = ~enabled
  /\ UNCHANGED <<node, read, list, readHere, open, window, known, stored, primed, lastIn, marker, snapshot, ghost>>

\* useChatNotificationPrimer: after three seconds everything unknown is new.
PrimerTimer ==
  /\ ~primed /\ primed' = TRUE
  /\ UNCHANGED <<node, read, list, readHere, open, window, enabled, known, stored, lastIn, marker, snapshot, ops, ghost>>

\* A reload, or another login in this tab: the primer starts from sessionStorage.
Reload ==
  /\ Step /\ list' = {} /\ readHere' = {} /\ open' = NoChat /\ window' = "focus" /\ known' = stored
  /\ primed' = FALSE /\ lastIn' = 0 /\ marker' = NoMarker /\ snapshot' = NoChat
  /\ UNCHANGED <<node, read, enabled, stored, ghost>>

ChatsNext ==
  \/ \E i \in Ids, c \in Chats : MessageArrives(i, c)
  \/ \E c \in Chats \union {NoChat} : Open(c)
  \/ \E w \in {"focus", "behind", "hidden"} : WindowChanges(w)
  \/ Poll \/ TogglePreference \/ PrimerTimer \/ Reload

-----------------------------------------------------------------------------
(* Properties.                                                              *)

\* useChatNotifications announces a message at most once, also when the page is
\* reloaded or another conversation is opened in between.
HookOnce == \A i \in Ids : ghost.hook[i] <= 1

\* A message that joins a list already loaded, unread and not in front of the person,
\* is announced when notifications are on, whatever was open or reloaded before.
Announced == ~ghost.missed

\* The divider stays where it was while the conversation is on screen: the messages
\* being marked as read does not move it.
DividerStays == open' = open /\ open # NoChat => marker' = marker

\* "Diese Einstellungen steuern GaiaCom-Benachrichtigungen für Chat und Mail auf diesem
\* Gerät.": switched off, no chat message is announced.
MutedSilent == ~ghost.muted

\* "marks messages as read when they enter view": a message gets its read mark while
\* its conversation is on screen.
ReadInView == ~ghost.unseen

\* "Tracks the first unread message position for the active direct chat and active group
\* channel": messages that were unread when a conversation was opened have a divider,
\* also when they are loaded after it was opened.
DividerFound == ~ghost.divider

-----------------------------------------------------------------------------
(***************************************************************************)
(* utils/notificationPreferences.js: whether a notification may be shown   *)
(* at a time of day, given the switch and the quiet hours. The day has     *)
(* Minutes minutes; a time that is not one (an emptied field) is replaced  *)
(* by the default.                                                         *)
(***************************************************************************)
CONSTANTS Minutes, DefaultStart, DefaultEnd, Invalid

QuietHoursAssumption ==
  /\ Minutes \in Nat \ {0} /\ {DefaultStart, DefaultEnd} \subseteq 0..(Minutes - 1)
  /\ Invalid \notin 0..(Minutes - 1)

Times == 0..(Minutes - 1)
VARIABLES pref, now
quietVars == <<pref, now>>

\* normalizeNotificationPreferences.
Normalized(p) ==
  [p EXCEPT !.start = IF @ \in Times THEN @ ELSE DefaultStart,
            !.end = IF @ \in Times THEN @ ELSE DefaultEnd]

\* notificationsAllowed.
NotificationsAllowed(p, t) ==
  LET c == Normalized(p) IN
  IF ~c.enabled \/ ~c.quiet THEN c.enabled
  ELSE IF c.start = c.end THEN FALSE
  ELSE IF c.start < c.end THEN ~(t >= c.start /\ t < c.end) ELSE ~(t >= c.start \/ t < c.end)

QuietInit ==
  /\ pref = [enabled |-> TRUE, quiet |-> FALSE, start |-> DefaultStart, end |-> DefaultEnd]
  /\ now \in Times

\* The fields of the notification section of the profile.
SetPreference ==
  \E e \in BOOLEAN, q \in BOOLEAN, s \in Times \union {Invalid}, f \in Times \union {Invalid} :
    pref' = [enabled |-> e, quiet |-> q, start |-> s, end |-> f] /\ UNCHANGED now
Tick == now' = (now + 1) % Minutes /\ UNCHANGED pref
QuietNext == SetPreference \/ Tick

-----------------------------------------------------------------------------
\* Quiet from the start up to, not including, the end, also over midnight: a minute is
\* quiet when counting forward from it the end comes before, or with, the next start.
QuietRight ==
  LET c == Normalized(pref)
      toEnd == (c.end + Minutes - now - 1) % Minutes
      toStart == (c.start + Minutes - now - 1) % Minutes
  IN NotificationsAllowed(pref, now) <=> c.enabled /\ (c.quiet => toStart < toEnd)

\* A quiet window opens once and closes once a day: the answer changes only at its
\* start and at its end.
ChangesAtEdges ==
  pref' = pref /\ (NotificationsAllowed(pref, now) # NotificationsAllowed(pref', now')) =>
    now' \in {Normalized(pref).start, Normalized(pref).end}

-----------------------------------------------------------------------------
vars == <<chatsVars, quietVars>>

Init == ChatsInit /\ QuietInit

Next ==
  \/ ChatsNext /\ UNCHANGED quietVars
  \/ QuietNext /\ UNCHANGED chatsVars

Spec == Init /\ [][Next]_vars
=============================================================================
