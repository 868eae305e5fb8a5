---------------------------- MODULE MCSettling ----------------------------
(***************************************************************************)
(* What must come about: calls settle, loading ends, dialogs finish, copies *)
(* catch up with the node.  The parts are components with small constants  *)
(* and no state in common, explored one at a time in the same slots s1...  *)
(* Fair(i) gathers the i-th weakly fair action of every part, Steady(i)    *)
(* the i-th strongly fair one; only those of the explored part can occur.  *)
(***************************************************************************)
EXTENDS Naturals, FiniteSets, Sequences, TLC

CONSTANTS Parts,      \* the parts to explore
          None, Off

VARIABLES part,   \* the part that is explored
          s1, s2, s3, s4, s5, s6, s7, s8, s9, s10, s11   \* its variables

rest11 == <<s11>>
rest10 == <<s10, rest11>>
rest9 == <<s9, rest10>>
rest8 == <<s8, rest9>>
rest7 == <<s7, rest8>>
rest6 == <<s6, rest7>>
rest5 == <<s5, rest6>>
rest4 == <<s4, rest5>>
vars == <<part, s1, s2, s3, rest4>>

off11 == s11 = Off
off10 == s10 = Off /\ off11
off9 == s9 = Off /\ off10
off8 == s8 = Off /\ off9
off7 == s7 = Off /\ off8
off6 == s6 = Off /\ off7
off5 == s5 = Off /\ off6
off4 == s4 = Off /\ off5

-----------------------------------------------------------------------------
ChannelsOf(r) == IF r = "r1" THEN <<"c1", "c2">> ELSE <<"d1">>

\* A send and the logout of a desktop client.
Session == INSTANCE ApiSession WITH
  Call <- 1..2, EndpointOf <- <<"sendMessage", "logout">>, MaxSession <- 1,
  Desktop <- TRUE, LoseAnswers <- TRUE, tok <- s1, user <- s2, req <- s3,
  refresh <- s4, login <- s5, srv <- s6, expired <- s7, executed <- s8,
  ended <- s9

\* Three calls of the desktop provider.
Native == INSTANCE NativeProvider WITH
  Calls <- 1..3, call <- s1, readiness <- s2, step <- s3

\* The proof dialog of a profile.
Proof == INSTANCE HumanProof WITH
  Me <- "me", Others <- {"o1"}, Center <- FALSE, Fails <- TRUE,
  MaxWorkers <- 3, dialog <- s1, ref <- s2, workers <- s3, node <- s4,
  summary <- s5, local <- s6, card <- s7, loading <- s8, ghost <- s9

\* The proof dialog of the security centre.
Centre == INSTANCE HumanProof WITH
  Me <- "me", Others <- {}, Center <- TRUE, Fails <- TRUE, MaxWorkers <- 3,
  dialog <- s1, ref <- s2, workers <- s3, node <- s4, summary <- s5,
  local <- s6, card <- s7, loading <- s8, ghost <- s9

\* Two names and two texts of a profile, and one change of them.
Pane == INSTANCE Profile WITH
  Names <- {"n1", "n2"}, Texts <- {"t1", "t2"}, Name0 <- "n1",
  Text0 <- "t1", MaxLoads <- 2, MaxSaves <- 1, MaxVer <- 2, MaxEdits <- 1,
  Requests <- {}, Displays <- {"d1"}, Standard <- "d1", MayLeave <- FALSE,
  node <- s1, form <- s2, stored <- s3, user <- s4, loads <- s5,
  saves <- s6, upload <- s7, edits <- s8, ghost <- s9, allow <- s1,
  shown <- s2, pane <- s3, reqs <- s4, storedDisplay <- s5, applied <- s6,
  unsure <- s7

\* One security event.
Security == INSTANCE SecurityCenter WITH
  Events <- {"e1"}, Before <- {"e1"}, Roles <- {"user", "node_operator"},
  Fails <- TRUE, MaxAcks <- 1, MaxFlight <- 2, Domains <- {}, Known <- {},
  Authority <- FALSE, MaxOps <- 0, node <- s1, role <- s2, page <- s3,
  reqs <- s4, acks <- s5, ghost <- s6, entry <- s1, server <- s2,
  secrets <- s3, registry <- s4, registryReqs <- s5, ops <- s6,
  registryGhost <- s7

\* A reviewer with two cases.
Abuse == INSTANCE AbuseCenter WITH
  Cases <- {"c1", "c2"}, MyCases <- {"c1"}, Roles <- {"trusted_reviewer"},
  Fails <- TRUE, MaxReqs <- 3, MaxFlight <- 2, node <- s1, page <- s2,
  reqs <- s3, count <- s4, ghost <- s5

\* One account that has no identity yet, and one address.
Wizard == INSTANCE SetupWizard WITH
  Accounts <- {"a"}, Names <- {"n1"}, Fetches <- 1..2,
  Creates <- {"c1"}, MayFail <- FALSE, owner <- s1, known <- s2, who <- s3,
  wiz <- s4, identities <- s5, fetches <- s6, creates <- s7, agreed <- s8

\* One mail.
Box == INSTANCE Mailbox WITH
  Threads <- {{"m1"}}, Latest <- {"m1"} :> "m1", Labels <- {},
  RuleMails <- {"m1"}, MaxPolls <- 2, MaxWrites <- 1, MaxOps <- 1,
  Subjects <- {""}, MaxMails <- 0, rows <- s1, cache <- s2, polls <- s3,
  writes <- s4, rule <- s5, processed <- s6, sel <- s7, ops <- s8,
  ghost <- s9, mails <- s1

\* Two rooms, the first with two channels.
Room == INSTANCE RoomChannels WITH
  Rooms <- {"r1", "r2"}, Channels <- ChannelsOf, Members <- {"i"},
  Privileged <- FALSE, Slow <- 1, MaxOps <- 3, MaxCalls <- 3,
  MaxSends <- 1, Names <- {<<"x">>}, MaxMembers <- 1, MaxText <- 0,
  MaxSteps <- 0, active <- s1, channel <- s2, listed <- s3, calls <- s4,
  readOnly <- s5, cool <- s6, half <- s7, last <- s8, sends <- s9,
  ops <- s10, ghost <- s11, members <- s1, text <- s2, caret <- s3,
  start <- s4, query <- s5, picked <- s6, steps <- s7, lastWord <- s8

\* Five changes of the input and of the chat on screen.
Typing == INSTANCE ChatPane WITH
  Places <- {}, Files <- {}, NoFile <- "none", Avatars <- {},
  MaxLoads <- 0, MaxOps <- 5, Chats <- {"ann"}, Group <- FALSE,
  MaxMessages <- 0, MaxRequests <- 3, file <- s1, view <- s2, made <- s3,
  loads <- s4, live <- s5, cache <- s6, mediaOps <- s7, msgs <- s1,
  open <- s2, query <- s3, near <- s4, pending <- s5, prev <- s6,
  count <- s7, timelineOps <- s8, fresh <- s9, writing <- s1,
  updates <- s2, signal <- s3, here <- s4, asks <- s5, label <- s6,
  typingOps <- s7

\* Reviews of a case and uses of a disclosure key.
Board == INSTANCE Governance WITH
  Cases <- {"c1"}, Reviewers <- {"r1", "r2"}, Seniors <- {"r1"},
  UserCount <- 5, Recommendations <- {"suspend"},
  Severities <- {"critical"}, Ops <- {"review", "consume"}, MaxCalls <- 3,
  Crashes <- TRUE, status <- s1, reviews <- s2, appeals <- s3,
  actions <- s4, suspended <- s5, grant <- s6, mu <- s7, calls <- s8,
  count <- s9, ghost <- s10

ASSUME PartsAssumption ==
  Session!CallAssumption /\ Proof!ProofAssumption /\ Centre!ProofAssumption
  /\ Pane!ProfileAssumption /\ Pane!StandardAssumption /\
  Security!CentreAssumption /\ Security!RegistryAssumption /\
  Abuse!AbuseAssumption /\ Wizard!NoneAssumption /\ Box!ThreadsAssumption /\
  Box!SubjectsAssumption /\ Room!ChannelsAssumption /\
  Room!GroupMentionsAssumption /\ Typing!DecryptedMediaAssumption /\
  Typing!ChatTimelineAssumption /\ Typing!ChatTypingAssumption /\
  Board!GovernanceAssumption

-----------------------------------------------------------------------------
Init ==
  /\ part \in Parts
  /\ \/ part = "session" /\ Session!Init /\ off10
     \/ part = "native" /\ Native!Init /\ off4
     \/ part = "proof" /\ Proof!Init /\ off10
     \/ part = "centre" /\ Centre!Init /\ off10
     \/ part = "profile" /\ Pane!ProfileInit /\ off10
     \/ part = "security" /\ Security!CenterInit /\ off7
     \/ part = "abuse" /\ Abuse!Init /\ off6
     \/ part = "wizard" /\ Wizard!Init /\ off9
     \/ part = "mailbox" /\ Box!BoxInit /\ off10
     \/ part = "room" /\ Room!ChannelsInit
     \/ part = "typing" /\ Typing!TypingInit /\ off8
     \/ part = "board" /\ Board!Init /\ off11

SessionNext == part = "session" /\ Session!Next /\ UNCHANGED <<part, rest10>>
NativeNext == part = "native" /\ Native!Next /\ UNCHANGED <<part, rest4>>
ProofNext == part = "proof" /\ Proof!Next /\ UNCHANGED <<part, rest10>>
CentreNext == part = "centre" /\ Centre!Next /\ UNCHANGED <<part, rest10>>
ProfileNext == part = "profile" /\ Pane!ProfileNext /\ UNCHANGED <<part, rest10>>
SecurityNext == part = "security" /\ Security!CenterNext /\ UNCHANGED <<part, rest7>>
AbuseNext == part = "abuse" /\ Abuse!Next /\ UNCHANGED <<part, rest6>>
WizardNext == part = "wizard" /\ Wizard!Next /\ UNCHANGED <<part, rest9>>
MailboxNext == part = "mailbox" /\ Box!BoxNext /\ UNCHANGED <<part, rest10>>
RoomNext == part = "room" /\ Room!ChannelsNext /\ UNCHANGED part
TypingNext == part = "typing" /\ Typing!TypingNext /\ UNCHANGED <<part, rest8>>
BoardNext == part = "board" /\ Board!Next /\ UNCHANGED <<part, rest11>>

Next ==
  \/ SessionNext \/ NativeNext \/ ProofNext \/ CentreNext \/ ProfileNext
  \/ SecurityNext \/ AbuseNext \/ WizardNext \/ MailboxNext \/ RoomNext
  \/ TypingNext \/ BoardNext

(* The node and the native host answer or the network reports a failure,   *)
(* intervals fire, workers reach their deadline, and the event loop runs   *)
(* the continuations.                                                      *)
Fair(i) ==
  \/ SessionNext /\ i \in 1..2 /\ (Session!Serve(i) \/ Session!Answered(i))
  \/ SessionNext /\ i = 3 /\ (Session!RefreshServe \/ Session!RefreshReturnOk \/ Session!RefreshReturnBad)
  \/ NativeNext /\ i \in 1..3 /\ (Native!Returns(i) \/ Native!Fails(i))
  \/ NativeNext /\ i = 4 /\ (Native!TestGoesOn \/ Native!TestPasses \/ Native!TestFails)
  \/ ProofNext /\ i \in 1..3 /\ Proof!WorkerGoesOn(i)
  \/ CentreNext /\ i \in 1..3 /\ Centre!WorkerGoesOn(i)
  \/ ProfileNext /\ i \in 1..2 /\ (Pane!LoadServed(i) \/ Pane!Loaded(i) \/ Pane!LoadDropped(i))
  \/ ProfileNext /\ i = 3 /\ (Pane!UpdateServed(1) \/ Pane!UpdateAnswered(1) \/ Pane!UpdateFails(1))
  \/ SecurityNext /\ Security!LoadGoesOn(i - 1)
  \/ AbuseNext /\ ((i = 1 /\ Abuse!Served) \/ (i = 2 /\ Abuse!Answers))
  \/ WizardNext /\ i \in 1..2 /\ (Wizard!GetMyIdentities(i) \/ Wizard!IdentitiesListed(i))
  \/ MailboxNext /\ i \in 1..2 /\ Box!PollEmails(i)
  \/ MailboxNext /\ i = 3 /\ (Box!UpsertMailboxStates(1) \/ Box!Answered(1) \/ Box!WriteFails(1))
  \/ RoomNext /\ i = 1 /\ Room!FetchRooms
  \/ TypingNext /\ \/ i = 1 /\ Typing!Prune
                   \/ i = 2 /\ Typing!LoadTyping
                   \/ i \in 3..4 /\ Typing!AskEnds([live |-> TRUE, chat |-> i = 3])

(* Polls go on for ever, so their answers arrive sooner or later although  *)
(* any one of them may be lost; sync.Mutex passes over no waiting          *)
(* goroutine for ever.                                                     *)
Steady(i) ==
  \/ MailboxNext /\ i \in 1..2 /\ Box!PollReturns(i)
  \/ RoomNext /\ Room!CallAnswered(i)
  \/ BoardNext /\ Board!HandlerRuns(i)

Spec ==
  /\ Init /\ [][Next]_vars
  /\ \A i \in 1..4 : WF_vars(Fair(i))
  /\ \A i \in 1..3 : SF_vars(Steady(i))

-----------------------------------------------------------------------------

(* Somebody waits: for a call, a command, a ceremony, a profile, an        *)
(* overview, a tab, the offer of the wizard, or the mutex of ReviewCase.   *)
Waiting ==
  \/ part = "session" /\ Session!Unsettled # {}
  \/ part = "native" /\ Native!Unsettled # {}
  \/ part = "proof" /\ Proof!Running
  \/ part = "centre" /\ Centre!Running
  \/ part = "profile" /\ Pane!Loading
  \/ part = "security" /\ Security!Loading
  \/ part = "abuse" /\ Abuse!TabLoading
  \/ part = "wizard" /\ Wizard!Unoffered
  \/ part = "board" /\ Board!Busy

(* Nobody waits for ever: every call settles, also when the access token   *)
(* has to be rotated first, the self-test fails, an answer is lost or a    *)
(* newer run of an effect overtakes an older one.                          *)
WaitingEnds == []<>(~Waiting)

(* Once people stop, the copies of the mails become and stay what the node *)
(* has, the page comes to show a channel of its room for good, and the     *)
(* label of a writing person goes away, whatever polls and answers         *)
(* overlapped, came out of order or were lost.                             *)
Converges ==
  /\ <>[](part = "mailbox" => Box!InStep)
  /\ <>[](part = "room" => Room!Consistent)
  /\ <>[](part = "typing" => ~Typing!Writes) => <>[](part = "typing" => ~Typing!Labelled)

(* No step goes backwards or ahead: a profile loaded earlier never         *)
(* replaces a newer one, the label is turned on only for the open chat,    *)
(* and a call of the desktop provider settles once, and succeeds only      *)
(* after the self-test (the steps of CryptoCalls).                         *)
InOrder ==
  [][/\ part = "profile" => Pane!LoadsForward
     /\ part = "typing" => Typing!LabelOfChat
     /\ part = "native" => Native!PromiseStep]_vars
=============================================================================
