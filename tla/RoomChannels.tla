----------------------------- MODULE RoomChannels -----------------------------
(***************************************************************************)
(* The channels of a room, and the mentions written in them.  The two have *)
(* no state in common.                                                     *)
(***************************************************************************)
EXTENDS Naturals, Sequences, FiniteSets, SequencesExt, Integers

-----------------------------------------------------------------------------
(***************************************************************************)
(* The open group room of one page: its channels, which arrive after the   *)
(* room was switched (fetchRooms and fetchChannels of hooks/useChat.js),   *)
(* and sending into the channel that is shown, one request per member,     *)
(* under the read-only and the slow mode that page and node both apply     *)
(* (handleSendGroupMessage, GroupChatPane.jsx, messaging_service.go).      *)
(* A second is two units of time: the page counts whole seconds by a timer *)
(* that runs on its own, the node compares times.                          *)
(***************************************************************************)
CONSTANTS Rooms, None,
          Channels(_),   \* channels of a room, first the one it is created with
          Members,       \* members of every room, the page's own one included
          Privileged,    \* this member is an admin or the owner
          Slow,          \* seconds of the slow mode, 0 for none
          MaxOps,        \* bound: switches, choices, sends and settings
          MaxCalls,      \* bound: channel requests in flight
          MaxSends       \* bound: messages sent

ChannelsAssumption ==
    /\ None \notin Rooms /\ Privileged \in BOOLEAN
    /\ {Slow, MaxOps, MaxCalls, MaxSends} \subseteq Nat
    /\ \A r \in Rooms : Channels(r) # <<>>

VARIABLES active,    \* the open room
          channel,   \* the open channel
          listed,    \* the room whose channels the sidebar lists
          calls,     \* fetchChannels in flight, with the channel its render had
          readOnly,  \* read_only at the node, and as the page last got it
          cool,      \* slowModeCooldowns, by channel, in seconds
          half,      \* half a second has passed since the timer fired
          last,      \* node: time left until a channel takes the member again
          sends,     \* messages: where to, and how far the copies are
          ops, ghost
channelsVars == <<active, channel, listed, calls, readOnly, cool, half, last, sends, ops, ghost>>

AllChannels == UNION {Range(Channels(r)) : r \in Rooms}
RoomOf(c) == CHOOSE r \in Rooms : c \in Range(Channels(r))
CopyStates == {"sent", "checked", "stored", "refused"}

ChannelsTypeOK ==
    /\ active \in Rooms \cup {None} /\ listed \in Rooms \cup {None}
    /\ channel \in AllChannels \cup {None}
    /\ \A n \in DOMAIN calls : calls[n].room \in Rooms
    /\ readOnly \in [node : BOOLEAN, page : BOOLEAN]
    /\ cool \in [AllChannels -> 0..Slow] /\ last \in [AllChannels -> 0..2*Slow]
    /\ half \in BOOLEAN
    /\ \A n \in DOMAIN sends : /\ sends[n].room \in Rooms
                               /\ sends[n].channel \in AllChannels
                               /\ sends[n].copies \in [Members -> CopyStates]
    /\ ops \in 0..MaxOps

ChannelsInit ==
    /\ active = None /\ channel = None /\ listed = None /\ calls = <<>>
    /\ readOnly = [node |-> FALSE, page |-> FALSE]
    /\ cool = [c \in AllChannels |-> 0] /\ last = [c \in AllChannels |-> 0]
    /\ half = FALSE /\ sends = <<>> /\ ops = 0
    /\ ghost = [overlap |-> FALSE, close |-> FALSE, wrong |-> FALSE]

Op == ops < MaxOps /\ ops' = ops + 1

-----------------------------------------------------------------------------
(* Rooms and channels of the page. *)

(* The effect on activeRoom: it keeps the channel of its render. *)
FetchChannels(r, c) ==
    /\ Len(calls) < MaxCalls
    /\ calls' = Append(calls, [room |-> r, seen |-> c])

OpenRoom(r) ==
    /\ Op /\ active # r
    /\ active' = r
    /\ FetchChannels(r, channel)
    /\ ghost' = [ghost EXCEPT !.overlap = @ \/ calls # <<>>]
    /\ UNCHANGED <<channel, listed, readOnly, cool, half, last, sends>>

(* Back to the list: the effect empties channels and channel. *)
CloseRoom ==
    /\ Op /\ active # None
    /\ active' = None /\ channel' = None /\ listed' = None
    /\ UNCHANGED <<calls, readOnly, cool, half, last, sends, ghost>>

(* fetchRooms replaces the open room by the fresh one, which runs the *)
(* effect again.                                                      *)
FetchRooms ==
    /\ active # None
    /\ FetchChannels(active, channel)
    /\ readOnly' = [readOnly EXCEPT !.page = readOnly.node]
    /\ UNCHANGED <<active, channel, listed, cool, half, last, sends, ops, ghost>>

(* An answer of fetchChannels is applied whatever room is open by now. *)
ChannelsReturn(n) ==
    LET call == calls[n]
        chans == Channels(call.room)
    IN  /\ listed' = call.room
        /\ channel' = IF call.seen \in Range(chans) THEN channel ELSE Head(chans)
        /\ calls' = RemoveAt(calls, n)
        /\ UNCHANGED <<active, readOnly, cool, half, last, sends, ops, ghost>>

(* The n-th of the calls under way is answered. *)
CallAnswered(n) == n \in DOMAIN calls /\ ChannelsReturn(n)

ChooseChannel(c) ==
    /\ Op /\ listed # None /\ c \in Range(Channels(listed)) /\ c # channel
    /\ channel' = c
    /\ UNCHANGED <<active, listed, calls, readOnly, cool, half, last, sends, ghost>>

(* Another admin switches the read-only mode. *)
SetReadOnly ==
    /\ Op /\ ~readOnly.node
    /\ readOnly' = [readOnly EXCEPT !.node = TRUE]
    /\ UNCHANGED <<active, channel, listed, calls, cool, half, last, sends, ghost>>

-----------------------------------------------------------------------------
(* Sending. *)

(* The pane looks the cooldown up by the room, the handler by the channel. *)
SlowModeCooldown == IF active \in DOMAIN cool THEN cool[active] ELSE 0
IsComposerDisabled == (readOnly.page /\ ~Privileged) \/ SlowModeCooldown > 0

InputRow == active # None /\ channel # None /\ ~IsComposerDisabled

Pending(n) == \E m \in Members : sends[n].copies[m] \in {"sent", "checked"}
Sending == \E n \in DOMAIN sends : ~sends[n].done

HandleSendGroupMessage ==
    /\ Op /\ InputRow /\ Len(sends) < MaxSends
    /\ cool[channel] = 0
    /\ sends' = Append([n \in DOMAIN sends |->
                          [sends[n] EXCEPT !.alone = @ /\ sends[n].done]],
                       [room |-> active, channel |-> channel,
                        copies |-> [m \in Members |-> "sent"],
                        alone |-> ~Sending, done |-> FALSE])
    /\ ghost' = [ghost EXCEPT !.wrong = @ \/ active # RoomOf(channel)]
    /\ UNCHANGED <<active, channel, listed, calls, readOnly, cool, half, last>>

(* SendMessage of the node checks a copy against the newest stored one of *)
(* the sender in the channel ...                                          *)
CopyChecked(n, m) ==
    LET s == sends[n]
        refused == ~Privileged /\ (readOnly.node \/ last[s.channel] > 0)
    IN  /\ s.copies[m] = "sent"
        /\ sends' = [sends EXCEPT ![n].copies[m] = IF refused THEN "refused" ELSE "checked"]
        /\ UNCHANGED <<active, channel, listed, calls, readOnly, cool, half, last, ops, ghost>>

(* ... and stores it. *)
CopyStored(n, m) ==
    LET s == sends[n]
        others == {k \in DOMAIN sends \ {n} : sends[k].channel = s.channel /\
                                              \E x \in Members : sends[k].copies[x] = "stored"}
    IN  /\ s.copies[m] = "checked"
        /\ sends' = [sends EXCEPT ![n].copies[m] = "stored"]
        /\ last' = [last EXCEPT ![s.channel] = 2 * Slow]
        /\ ghost' = [ghost EXCEPT !.close = @ \/ (s.alone /\ ~Privileged /\ others # {} /\
                                                  last[s.channel] > 0 /\
                                                  \A x \in Members : s.copies[x] # "stored")]
        /\ UNCHANGED <<active, channel, listed, calls, readOnly, cool, half, ops>>

(* All answers are in; the refused ones were only logged. *)
SendEnds(n) ==
    /\ ~sends[n].done /\ ~Pending(n)
    /\ sends' = [sends EXCEPT ![n].done = TRUE]
    /\ cool' = IF Privileged THEN cool ELSE [cool EXCEPT ![sends[n].channel] = Slow]
    /\ UNCHANGED <<active, channel, listed, calls, readOnly, half, last, ops, ghost>>

(* Half a second passes; every second time the page's timer fires. *)
Tick ==
    /\ half' = ~half
    /\ cool' = IF half THEN [c \in AllChannels |-> IF cool[c] = 0 THEN 0 ELSE cool[c] - 1]
               ELSE cool
    /\ last' = [c \in AllChannels |-> IF last[c] = 0 THEN 0 ELSE last[c] - 1]
    /\ UNCHANGED <<active, channel, listed, calls, readOnly, sends, ops, ghost>>

ChannelsNext ==
    \/ \E r \in Rooms : OpenRoom(r)
    \/ CloseRoom \/ FetchRooms \/ SetReadOnly \/ HandleSendGroupMessage \/ Tick
    \/ \E n \in 1..MaxCalls : n <= Len(calls) /\ ChannelsReturn(n)
    \/ \E c \in AllChannels : ChooseChannel(c)
    \/ \E n \in DOMAIN sends : SendEnds(n) \/ \E m \in Members : CopyChecked(n, m) \/ CopyStored(n, m)

-----------------------------------------------------------------------------
(* Once the answers are in, the open channel and the listed ones are those  *)
(* of the open room, whatever channels were chosen and whichever answers of *)
(* polls came out of order, unless a room was opened while the channels of  *)
(* another were still on their way (fetchChannels).                         *)
Settled ==
    (calls = <<>> /\ ~ghost.overlap /\ active # None) =>
        listed = active /\ RoomOf(channel) = active

(* The page shows a channel of its room.                                   *)
Consistent == active = None \/ (channel # None /\ RoomOf(channel) = active)

(* Two messages of a plain member that were not on their way together are   *)
(* stored at least the slow mode apart, although the page's seconds may be  *)
(* short.                                                                   *)
Spaced == ~ghost.close

(* The input row says "Slow Mode: Bitte warten Sie ..." while the open      *)
(* channel cools down, so it is disabled then.                              *)
SlowShown == channel # None /\ cool[channel] > 0 => IsComposerDisabled

(* A message is stored for every member of the room or for none ("Fanout an *)
(* Raum-Inboxes").                                                          *)
SlowFanout ==
    \A n \in DOMAIN sends : sends[n].done =>
        Cardinality({sends[n].copies[m] : m \in Members}) = 1

(* After the seconds the page asks to wait, the node takes the message:     *)
(* without other messages on their way some copy is stored.                 *)
WaitEnough ==
    \A n \in DOMAIN sends : (sends[n].done /\ sends[n].alone /\ ~readOnly.node) =>
        \E m \in Members : sends[n].copies[m] = "stored"

(* A message written under "Nachricht an #channel" goes to the members of   *)
(* the channel's room.                                                      *)
SentWhereShown == ~ghost.wrong

-----------------------------------------------------------------------------
(***************************************************************************)
(* Mentioning a member while writing in a group: the handles the members   *)
(* get, the menu that follows the text before the caret, and the choice    *)
(* (GroupChatPane.jsx: mentionDirectory, the effect on chatInputText,      *)
(* handleComposerKeyDown, applyMention).                                   *)
(*                                                                         *)
(* Text is a sequence of "@", " " (any separator), "x" (a letter) and "2". *)
(* Each of the first two members has a name of letters; another may have   *)
(* one that looks like a numbered handle.                                  *)
(***************************************************************************)
CONSTANTS Names, MaxMembers, MaxText, MaxSteps

GroupMentionsAssumption ==
  /\ \A n \in Names : n \in Seq({"x", "2"}) /\ Len(n) > 0
  /\ {MaxMembers, MaxText, MaxSteps} \subseteq Nat

VARIABLES members, \* the names of the room's members
          text, caret, \* chatInputText and the caret (0: at the front)
          start,   \* mentionStartIndex: index of the @, 0 when there is no menu
          query,   \* mentionQuery
          picked,  \* the selected line of the menu
          steps, lastWord  \* last: the handle just inserted and where
mentionsVars == <<members, text, caret, start, query, picked, steps, lastWord>>

\* The suffixes 2, 3, ... (written 2, 22, ... here).
Numeral(k) == [i \in 1..(k - 1) |-> "2"]

\* The while loop: the first suffix that makes the handle new.
Handle(seen, base) ==
  IF base \notin seen THEN base
  ELSE LET k == CHOOSE k \in 2..(MaxMembers + 2) :
                  /\ base \o Numeral(k) \notin seen
                  /\ \A j \in 2..(k - 1) : base \o Numeral(j) \in seen
       IN base \o Numeral(k)

\* mentionDirectory.
MentionDirectory(names) ==
  FoldLeft(LAMBDA acc, n : Append(acc, Handle(ToSet(acc), n)), <<>>, names)

\* The effect on chatInputText: the last @ before the caret, after a separator, with
\* only handle characters behind it.
MentionStart(t, c) ==
  LET ats == {i \in 1..c : t[i] = "@"}
      at == CHOOSE i \in ats : \A j \in ats : j <= i
  IN IF ats = {} \/ ~(at = 1 \/ t[at - 1] = " ") \/ \E i \in (at + 1)..c : t[i] = " " THEN 0 ELSE at

Includes(h, q) == \E i \in 0..(Len(h) - Len(q)) : SubSeq(h, i + 1, i + Len(q)) = q
\* mentionSuggestions: the members whose handle contains the query.
Suggestions == SelectSeq(MentionDirectory(members), LAMBDA h : Includes(h, query))
MenuOpen == start > 0 /\ Suggestions # <<>>

MentionsInit ==
  /\ members \in UNION {[1..n -> Names] : n \in 1..MaxMembers}
  /\ text = <<>> /\ caret = 0 /\ start = 0 /\ query = <<>> /\ picked = 1 /\ steps = 0 /\ lastWord = <<>>

Step == steps < MaxSteps /\ steps' = steps + 1

\* A character is typed at the caret; the effect runs.
Type(ch) ==
  /\ Step /\ Len(text) < MaxText
  /\ text' = SubSeq(text, 1, caret) \o <<ch>> \o SubSeq(text, caret + 1, Len(text))
  /\ caret' = caret + 1 /\ start' = MentionStart(text', caret')
  /\ query' = (IF start' = 0 THEN <<>> ELSE SubSeq(text', start' + 1, caret')) /\ picked' = 1 /\ lastWord' = <<>>
  /\ UNCHANGED members

\* The caret is moved, which no effect notices.
MoveCaret(c) ==
  /\ c # caret /\ Step /\ caret' = c /\ lastWord' = <<>> /\ UNCHANGED <<members, text, start, query, picked>>

\* ArrowDown and ArrowUp.
Arrow(d) ==
  /\ MenuOpen /\ Step
  /\ LET n == Len(Suggestions) IN
     picked' = ((picked - 1 + d + n) % n) + 1
  /\ lastWord' = <<>> /\ UNCHANGED <<members, text, caret, start, query>>

\* applyMention: the token gives way to the handle.
ApplyMention(h) == SubSeq(text, 1, start - 1) \o <<"@">> \o h \o <<" ">> \o SubSeq(text, caret + 1, Len(text))

\* Enter or Tab: the selected suggestion, or the first.
Enter ==
  /\ MenuOpen /\ Step
  /\ LET s == Suggestions
         h == IF picked \in 1..Len(s) THEN s[picked] ELSE s[1] IN
     /\ text' = ApplyMention(h) /\ caret' = start + Len(h) + 1 /\ lastWord' = h
  /\ start' = 0 /\ query' = <<>> /\ picked' = 1 /\ UNCHANGED members

\* Escape closes the menu; a change of the channel does too.
Escape ==
  /\ start > 0 /\ Step /\ start' = 0 /\ query' = <<>> /\ picked' = 1 /\ lastWord' = <<>>
  /\ UNCHANGED <<members, text, caret>>

\* The room's members change while the menu is open; the selected line stays.
MembersChange(ns) ==
  /\ ns # members /\ Step /\ members' = ns /\ lastWord' = <<>> /\ UNCHANGED <<text, caret, start, query, picked>>

MentionsNext ==
  \/ \E ch \in {"@", " ", "x", "2"} : Type(ch)
  \/ \E d \in {1, -1} : Arrow(d)
  \/ \E c \in 0..Len(text) : MoveCaret(c)
  \/ Enter \/ Escape
  \/ \E ns \in {SubSeq(members, 1, Len(members) - 1)} \ {<<>>} : MembersChange(ns)

-----------------------------------------------------------------------------
(* Properties.                                                              *)

\* No two members have the same handle, also when a name looks like the numbered
\* handle of another.
HandlesDistinct ==
  LET d == MentionDirectory(members) IN \A i, j \in 1..Len(d) : i # j => d[i] # d[j]

\* A handle that was chosen is one of a member, stands in the text behind an @ that
\* begins a word, and is followed by a space.
MentionWritten ==
  lastWord # <<>> =>
    /\ lastWord \in ToSet(MentionDirectory(members))
    /\ \E i \in 1..(Len(text) - Len(lastWord) - 1) :
         /\ text[i] = "@" /\ (i = 1 \/ text[i - 1] = " ")
         /\ SubSeq(text, i + 1, i + Len(lastWord) + 1) = lastWord \o <<" ">> /\ caret = i + Len(lastWord) + 1

-----------------------------------------------------------------------------
vars == <<channelsVars, mentionsVars>>

Init == ChannelsInit /\ MentionsInit

Next ==
  \/ ChannelsNext /\ UNCHANGED mentionsVars
  \/ MentionsNext /\ UNCHANGED channelsVars

Spec == Init /\ [][Next]_vars
=============================================================================
