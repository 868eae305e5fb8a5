---------------------------- MODULE MCPersonal ----------------------------
(***************************************************************************)
(* What a person does alone, or with their own devices: mail, the drive,   *)
(* contacts, drops, settings, the profile, signing in, the session, device *)
(* keys, the wizard for an address and the proof of being human.  Each     *)
(* part is a component with small constants; the parts have no state in    *)
(* common, so they are explored one at a time, in the same slots s1...     *)
(***************************************************************************)
EXTENDS Naturals, FiniteSets, Sequences, TLC

CONSTANTS Parts,      \* the parts to explore
          None, Off

VARIABLES part,   \* the part that is explored
          s1, s2, s3, s4, s5, s6, s7, s8, s9, s10, s11, s12, s13   \* its variables

rest13 == <<s13>>
rest12 == <<s12, rest13>>
rest11 == <<s11, rest12>>
rest10 == <<s10, rest11>>
rest9 == <<s9, rest10>>
rest8 == <<s8, rest9>>
rest7 == <<s7, rest8>>
rest6 == <<s6, rest7>>
rest5 == <<s5, rest6>>
rest4 == <<s4, rest5>>
rest3 == <<s3, rest4>>
rest2 == <<s2, rest3>>
vars == <<part, s1, rest2>>

off13 == s13 = Off
off12 == s12 = Off /\ off13
off11 == s11 = Off /\ off12
off10 == s10 = Off /\ off11
off9 == s9 = Off /\ off10
off8 == s8 = Off /\ off9
off7 == s7 = Off /\ off8
off6 == s6 = Off /\ off7
off5 == s5 = Off /\ off6
off4 == s4 = Off /\ off5
off3 == s3 = Off /\ off4
off2 == s2 = Off /\ off3

-----------------------------------------------------------------------------
Form == ("m1" :> "gaia") @@ ("m2" :> "display")

\* Two mails, written to @name:node and to name@node, and their drafts.
Composer == INSTANCE MailComposer WITH
  Mails <- {"m1", "m2"}, Files <- {}, Form <- Form, NoMail <- None,
  NoFile <- None, MaxDrafts <- 1, MaxSaves <- 1, MaxSends <- 1, comp <- s1,
  timer <- s2, ref <- s3, pill <- s4, meta <- s5, uploads <- s6,
  saves <- s7, sends <- s8, drafts <- s9, made <- s10, job <- s11,
  copies <- s12, ghost <- s13

\* One mail, planned, and sends of it that overlap.
Sends == INSTANCE MailComposer WITH
  Mails <- {"m1"}, Files <- {}, Form <- "m1" :> "gaia", NoMail <- None,
  NoFile <- None, MaxDrafts <- 1, MaxSaves <- 0, MaxSends <- 2, comp <- s1,
  timer <- s2, ref <- s3, pill <- s4, meta <- s5, uploads <- s6,
  saves <- s7, sends <- s8, drafts <- s9, made <- s10, job <- s11,
  copies <- s12, ghost <- s13

\* Mails with a file.
Attached == INSTANCE MailComposer WITH
  Mails <- {"m1", "m2"}, Files <- {"f1"}, Form <- Form, NoMail <- None,
  NoFile <- None, MaxDrafts <- 0, MaxSaves <- 0, MaxSends <- 2, comp <- s1,
  timer <- s2, ref <- s3, pill <- s4, meta <- s5, uploads <- s6,
  saves <- s7, sends <- s8, drafts <- s9, made <- s10, job <- s11,
  copies <- s12, ghost <- s13

\* One mail, with a label and a rule; and lists of three mails.
Box == INSTANCE Mailbox WITH
  Threads <- {{"m1"}}, Latest <- {"m1"} :> "m1", Labels <- {"l1"},
  RuleMails <- {"m1"}, MaxPolls <- 1, MaxWrites <- 2, MaxOps <- 2,
  Subjects <- {"", "a"}, MaxMails <- 3, rows <- s1, cache <- s2,
  polls <- s3, writes <- s4, rule <- s5, processed <- s6, sel <- s7,
  ops <- s8, ghost <- s9, mails <- s1

\* A thread of two mails.
Pair == INSTANCE Mailbox WITH
  Threads <- {{"m1", "m2"}}, Latest <- {"m1", "m2"} :> "m2", Labels <- {},
  RuleMails <- {}, MaxPolls <- 1, MaxWrites <- 1, MaxOps <- 2,
  Subjects <- {""}, MaxMails <- 0, rows <- s1, cache <- s2, polls <- s3,
  writes <- s4, rule <- s5, processed <- s6, sel <- s7, ops <- s8,
  ghost <- s9, mails <- s1

\* Two people on one device, one operation at a time.
Cabinet == INSTANCE Drive WITH
  Users <- {"u1", "u2"}, NoUser <- None, Notes <- {"n1"}, Files <- {"f1"},
  Large <- {}, MaxTasks <- 1, MaxKeys <- 2, MaxCloud <- 1, MaxReloads <- 0,
  MaxSwitches <- 1, user <- s1, unlocked <- s2, pwd <- s3, records <- s4,
  selected <- s5, index <- s6, opfs <- s7, cloud <- s8, tasks <- s9,
  ghost <- s10

\* One person and operations that overlap.
Overlap == INSTANCE Drive WITH
  Users <- {"u1"}, NoUser <- None, Notes <- {}, Files <- {"f1"},
  Large <- {}, MaxTasks <- 2, MaxKeys <- 1, MaxCloud <- 1, MaxReloads <- 1,
  MaxSwitches <- 0, user <- s1, unlocked <- s2, pwd <- s3, records <- s4,
  selected <- s5, index <- s6, opfs <- s7, cloud <- s8, tasks <- s9,
  ghost <- s10

\* One contact, whose key changes.
Known == INSTANCE Contacts WITH
  Peers <- {"p1"}, NoPeer <- None, PqCapable <- {"p1"},
  Recipients <- {<<"p1">>}, Others <- FALSE, MaxKey <- 2, MaxTasks <- 2,
  MaxReloads <- 1, MaxOps <- 3, dir <- s1, server <- s2, contacts <- s3,
  cache <- s4, active <- s5, profile <- s6, checked <- s7, looked <- s8,
  warning <- s9, tasks <- s10, ops <- s11, ghost <- s12

\* Messages to two contacts.
Group == INSTANCE Contacts WITH
  Peers <- {"p1", "p2"}, NoPeer <- None, PqCapable <- {"p1"},
  Recipients <- {<<"p1">>, <<"p1", "p2">>}, Others <- FALSE, MaxKey <- 2,
  MaxTasks <- 1, MaxReloads <- 0, MaxOps <- 2, dir <- s1, server <- s2,
  contacts <- s3, cache <- s4, active <- s5, profile <- s6, checked <- s7,
  looked <- s8, warning <- s9, tasks <- s10, ops <- s11, ghost <- s12

\* A contact that other accounts of the node share.
Shared == INSTANCE Contacts WITH
  Peers <- {"p1"}, NoPeer <- None, PqCapable <- {}, Recipients <- {<<"p1">>},
  Others <- TRUE, MaxKey <- 1, MaxTasks <- 1, MaxReloads <- 1, MaxOps <- 3,
  dir <- s1, server <- s2, contacts <- s3, cache <- s4, active <- s5,
  profile <- s6, checked <- s7, looked <- s8, warning <- s9, tasks <- s10,
  ops <- s11, ghost <- s12

\* The settings and the tour of one account.
Settings == INSTANCE MailSettings WITH
  Accounts <- {"a"}, Loads <- {"l"}, Saves <- {"s"}, node <- s1, who <- s2,
  locked <- s3, settings <- s4, form <- s5, loads <- s6, saves <- s7,
  doneHere <- s8, tour <- s9

\* The inbox of two drops.
Drop == INSTANCE GaiaDrop WITH
  MaxDrops <- 2, MaxTexts <- 1, MaxOps <- 3, MaxFlight <- 2,
  Complete <- {TRUE}, Fails <- TRUE, node <- s1, record <- s2,
  sender <- s3, page <- s4, reqs <- s5, ops <- s6, ghost <- s7

\* Two texts written for a drop.
Write == INSTANCE GaiaDrop WITH
  MaxDrops <- 2, MaxTexts <- 2, MaxOps <- 1, MaxFlight <- 1,
  Complete <- BOOLEAN, Fails <- TRUE, node <- s1, record <- s2,
  sender <- s3, page <- s4, reqs <- s5, ops <- s6, ghost <- s7

\* Two accounts on one device.
Auth == INSTANCE ClientAuth WITH
  Account <- {"a1", "a2"}, Password <- {"p1", "p2"}, MaxChange <- 0,
  srvPw <- s1, sess <- s2, ls <- s3, mem <- s4, fails <- s5, chk <- s6,
  auth <- s7, unl <- s8, out <- s9, pair <- s10, changes <- s11,
  ghost <- s12

\* One account, and a change of its password.
Alone == INSTANCE ClientAuth WITH
  Account <- {"a1"}, Password <- {"p1", "p2"}, MaxChange <- 1, srvPw <- s1,
  sess <- s2, ls <- s3, mem <- s4, fails <- s5, chk <- s6, auth <- s7,
  unl <- s8, out <- s9, pair <- s10, changes <- s11, ghost <- s12

\* A device and one that is added to it.
Keyring == INSTANCE DeviceKeys WITH
  Devices <- {"d1", "d2"}, NewDevices <- {"d2"}, Keys <- {"k1", "k2"},
  Slots <- {1}, MaxLost <- 1, MaxSends <- 0, keys <- s1, pairing <- s2,
  session <- s3, page <- s4, ops <- s5, lost <- s6, sends <- s7,
  ghost <- s8

\* One device and rotations that overlap.
Rotating == INSTANCE DeviceKeys WITH
  Devices <- {"d1"}, NewDevices <- {}, Keys <- {"k1", "k2"},
  Slots <- {1, 2}, MaxLost <- 1, MaxSends <- 1, keys <- s1, pairing <- s2,
  session <- s3, page <- s4, ops <- s5, lost <- s6, sends <- s7,
  ghost <- s8

\* A freshly loaded browser page: a send, an upload and the status question.
Web == INSTANCE ApiSession WITH
  Call <- {"c1", "c2", "c3"},
  EndpointOf <- ("c1" :> "sendMessage") @@ ("c2" :> "uploadChunk") @@ ("c3" :> "getStatus"),
  MaxSession <- 2, Desktop <- FALSE, LoseAnswers <- FALSE, tok <- s1,
  user <- s2, req <- s3, refresh <- s4, login <- s5, srv <- s6,
  expired <- s7, executed <- s8, ended <- s9

\* A desktop page that only works: a send, a read and an upload.
Work == INSTANCE ApiSession WITH
  Call <- {"c1", "c2", "c3"},
  EndpointOf <- ("c1" :> "sendMessage") @@ ("c2" :> "getInbox") @@ ("c3" :> "uploadChunk"),
  MaxSession <- 2, Desktop <- TRUE, LoseAnswers <- FALSE, tok <- s1,
  user <- s2, req <- s3, refresh <- s4, login <- s5, srv <- s6,
  expired <- s7, executed <- s8, ended <- s9

\* A send and the logout, whose answers may be lost.
Leave == INSTANCE ApiSession WITH
  Call <- {"c1", "c2"},
  EndpointOf <- ("c1" :> "sendMessage") @@ ("c2" :> "logout"),
  MaxSession <- 1, Desktop <- TRUE, LoseAnswers <- TRUE, tok <- s1,
  user <- s2, req <- s3, refresh <- s4, login <- s5, srv <- s6,
  expired <- s7, executed <- s8, ended <- s9

\* Two accounts that want the same address.
Named == INSTANCE SetupWizard WITH
  Accounts <- {"a", "b"}, Names <- {"n1"}, Fetches <- {"f1"},
  Creates <- {"c1", "c2"}, MayFail <- TRUE, owner <- s1, known <- s2,
  who <- s3, wiz <- s4, identities <- s5, fetches <- s6, creates <- s7,
  agreed <- s8

\* One account and two addresses.
Wizard == INSTANCE SetupWizard WITH
  Accounts <- {"a"}, Names <- {"n1", "n2"}, Fetches <- {"f1", "f2"},
  Creates <- {"c1", "c2"}, MayFail <- TRUE, owner <- s1, known <- s2,
  who <- s3, wiz <- s4, identities <- s5, fetches <- s6, creates <- s7,
  agreed <- s8

\* The proof of being human on profiles, and in the security centre.
Proof == INSTANCE HumanProof WITH
  Me <- "me", Others <- {"o1", "o2"}, Center <- FALSE, Fails <- TRUE,
  MaxWorkers <- 3, dialog <- s1, ref <- s2, workers <- s3, node <- s4,
  summary <- s5, local <- s6, card <- s7, loading <- s8, ghost <- s9

Centre == INSTANCE HumanProof WITH
  Me <- "me", Others <- {}, Center <- TRUE, Fails <- TRUE, MaxWorkers <- 3,
  dialog <- s1, ref <- s2, workers <- s3, node <- s4, summary <- s5,
  local <- s6, card <- s7, loading <- s8, ghost <- s9

\* Two names and two texts; two changes of the privacy switch.
Pane == INSTANCE Profile WITH
  Names <- {"n1", "n2"}, Texts <- {"t1", "t2"}, Name0 <- "n1",
  Text0 <- "t1", MaxLoads <- 2, MaxSaves <- 1, MaxVer <- 2, MaxEdits <- 2,
  Requests <- {"r1", "r2"}, Displays <- {"d1", "d2", "d3"},
  Standard <- "d1", MayLeave <- FALSE, node <- s1, form <- s2,
  stored <- s3, user <- s4, loads <- s5, saves <- s6, upload <- s7,
  edits <- s8, ghost <- s9, allow <- s1, shown <- s2, pane <- s3,
  reqs <- s4, storedDisplay <- s5, applied <- s6, unsure <- s7

ASSUME PartsAssumption ==
  Composer!FormAssumption /\ Sends!FormAssumption /\ Attached!FormAssumption
  /\ Box!ThreadsAssumption /\ Box!SubjectsAssumption /\
  Pair!ThreadsAssumption /\ Pair!SubjectsAssumption /\
  Cabinet!DriveAssumption /\ Overlap!DriveAssumption /\
  Known!ContactsAssumption /\ Group!ContactsAssumption /\
  Shared!ContactsAssumption /\ Settings!NoneAssumption /\
  Drop!DropAssumption /\ Write!DropAssumption /\ Auth!NoneAssumption /\
  Auth!BoundAssumption /\ Alone!NoneAssumption /\ Alone!BoundAssumption /\
  Web!CallAssumption /\ Work!CallAssumption /\ Leave!CallAssumption /\
  Named!NoneAssumption /\ Wizard!NoneAssumption /\ Proof!ProofAssumption /\
  Centre!ProofAssumption /\ Pane!ProfileAssumption /\
  Pane!StandardAssumption /\ Keyring!Ringed /\ Rotating!Ringed /\
  None \notin Proof!People \cup Centre!People

-----------------------------------------------------------------------------
Init ==
  /\ part \in Parts
  /\ \/ part = "composer" /\ Composer!Init
     \/ part = "sends" /\ Sends!Init
     \/ part = "files" /\ Attached!Init
     \/ part = "mailbox" /\ Box!BoxInit /\ off10
     \/ part = "threads" /\ Box!ThreadsInit /\ off2
     \/ part = "pair" /\ Pair!BoxInit /\ off10
     \/ part = "drive" /\ Cabinet!Init /\ off11
     \/ part = "overlap" /\ Overlap!Init /\ off11
     \/ part = "contacts" /\ Known!Init /\ off13
     \/ part = "group" /\ Group!Init /\ off13
     \/ part = "shared" /\ Shared!Init /\ off13
     \/ part = "settings" /\ Settings!Init /\ off10
     \/ part = "drop" /\ Drop!Init /\ off8
     \/ part = "write" /\ Write!Init /\ off8
     \/ part = "auth" /\ Auth!Init /\ off13
     \/ part = "alone" /\ Alone!Init /\ off13
     \/ part = "devices" /\ Keyring!Init /\ off9
     \/ part = "rotations" /\ Rotating!Init /\ off9
     \/ part = "web" /\ Web!Init /\ off10
     \/ part = "work" /\ Work!Init /\ off10
     \/ part = "leave" /\ Leave!Init /\ off10
     \/ part = "names" /\ Named!Init /\ off9
     \/ part = "wizard" /\ Wizard!Init /\ off9
     \/ part = "proof" /\ Proof!Init /\ off10
     \/ part = "centre" /\ Centre!Init /\ off10
     \/ part = "profile" /\ Pane!ProfileInit /\ off10
     \/ part = "privacy" /\ Pane!PrivacyInit /\ off8

ComposerNext == part = "composer" /\ Composer!Next /\ UNCHANGED part
SendsNext == part = "sends" /\ Sends!Next /\ UNCHANGED part
FilesNext == part = "files" /\ Attached!Next /\ UNCHANGED part
MailboxNext == part = "mailbox" /\ Box!BoxNext /\ UNCHANGED <<part, rest10>>
ThreadsNext == part = "threads" /\ Box!ThreadsNext /\ UNCHANGED <<part, rest2>>
PairNext == part = "pair" /\ Pair!BoxNext /\ UNCHANGED <<part, rest10>>
DriveNext == part = "drive" /\ Cabinet!Next /\ UNCHANGED <<part, rest11>>
OverlapNext == part = "overlap" /\ Overlap!Next /\ UNCHANGED <<part, rest11>>
ContactsNext == part = "contacts" /\ Known!Next /\ UNCHANGED <<part, rest13>>
GroupNext == part = "group" /\ Group!Next /\ UNCHANGED <<part, rest13>>
SharedNext == part = "shared" /\ Shared!Next /\ UNCHANGED <<part, rest13>>
SettingsNext == part = "settings" /\ Settings!Next /\ UNCHANGED <<part, rest10>>
DropNext == part = "drop" /\ Drop!Next /\ UNCHANGED <<part, rest8>>
WriteNext == part = "write" /\ Write!Next /\ UNCHANGED <<part, rest8>>

\* Nothing is claimed once sign-ins have overlapped or been abandoned.
AuthNext == part = "auth" /\ ~Auth!Abandoned /\ Auth!Next /\ UNCHANGED <<part, rest13>>
AloneNext == part = "alone" /\ ~Alone!Abandoned /\ Alone!Next /\ UNCHANGED <<part, rest13>>
DevicesNext == part = "devices" /\ Keyring!Next /\ UNCHANGED <<part, rest9>>
RotationsNext == part = "rotations" /\ Rotating!Next /\ UNCHANGED <<part, rest9>>
WebNext == part = "web" /\ Web!Next /\ UNCHANGED <<part, rest10>>
WorkNext == part = "work" /\ Work!Next /\ UNCHANGED <<part, rest10>>
LeaveNext == part = "leave" /\ Leave!Next /\ UNCHANGED <<part, rest10>>
NamesNext == part = "names" /\ Named!Next /\ UNCHANGED <<part, rest9>>
WizardNext == part = "wizard" /\ Wizard!Next /\ UNCHANGED <<part, rest9>>
ProofNext == part = "proof" /\ Proof!Next /\ UNCHANGED <<part, rest10>>
CentreNext == part = "centre" /\ Centre!Next /\ UNCHANGED <<part, rest10>>
ProfileNext == part = "profile" /\ Pane!ProfileNext /\ UNCHANGED <<part, rest10>>
PrivacyNext == part = "privacy" /\ Pane!PrivacyNext /\ UNCHANGED <<part, rest8>>

Next ==
  \/ ComposerNext \/ SendsNext \/ FilesNext \/ MailboxNext \/ ThreadsNext
  \/ PairNext \/ DriveNext \/ OverlapNext \/ ContactsNext \/ GroupNext
  \/ SharedNext \/ SettingsNext \/ DropNext \/ WriteNext \/ AuthNext
  \/ AloneNext \/ DevicesNext \/ RotationsNext \/ WebNext \/ WorkNext
  \/ LeaveNext \/ NamesNext \/ WizardNext \/ ProofNext \/ CentreNext
  \/ ProfileNext \/ PrivacyNext

Spec == Init /\ [][Next]_vars

-----------------------------------------------------------------------------

\* The state of every part has the type its component gives it.
Types ==
  /\ part = "composer" => Composer!TypeOK
  /\ part = "sends" => Sends!TypeOK
  /\ part = "files" => Attached!TypeOK
  /\ part = "mailbox" => Box!BoxTypeOK
  /\ part = "pair" => Pair!BoxTypeOK
  /\ part = "drive" => Cabinet!TypeOK
  /\ part = "overlap" => Overlap!TypeOK
  /\ part = "contacts" => Known!TypeOK
  /\ part = "group" => Group!TypeOK
  /\ part = "shared" => Shared!TypeOK
  /\ part = "settings" => Settings!TypeOK
  /\ part = "drop" => Drop!TypeOK
  /\ part = "write" => Write!TypeOK
  /\ part = "auth" => Auth!TypeOK
  /\ part = "alone" => Alone!TypeOK
  /\ part = "devices" => Keyring!TypeOK
  /\ part = "rotations" => Rotating!TypeOK
  /\ part = "web" => Web!TypeOK
  /\ part = "work" => Work!TypeOK
  /\ part = "leave" => Leave!TypeOK
  /\ part = "names" => Named!TypeOK
  /\ part = "wizard" => Wizard!TypeOK
  /\ part = "proof" => Proof!TypeOK
  /\ part = "centre" => Centre!TypeOK
  /\ part = "profile" => Pane!ProfileTypeOK
  /\ part = "privacy" => Pane!PrivacyTypeOK

\* Nothing a person made is lost: a mail is sent or still a draft, what the
\* drive announced as stored is in the index and opens, a change of a mail is
\* kept by the node, a text written for a drop stays until it is there.
WorkKept ==
  /\ part = "composer" => Composer!KeptUntilSent
  /\ part = "drive" => Cabinet!SavedOpens
  /\ part = "overlap" => Overlap!IndexOpens
  /\ part = "mailbox" => Box!ChangeKept
  /\ part = "pair" => Pair!ChangeKept
  /\ part = "write" => Write!TextKept

\* What goes out is what the person wants: a mail goes out once, with the
\* files shown, messages go to keys the person has accepted, and a call that
\* is repeated after a rotation is carried out once.
SentRight ==
  /\ part = "sends" => Sends!SentOnce
  /\ part = "files" => Attached!SentShown
  /\ part = "contacts" => Known!SentAccepted
  /\ part = "group" => Group!SentAccepted
  /\ part = "shared" => Shared!SentAccepted
  /\ part = "web" => Web!AtMostOnce
  /\ part = "work" => Work!AtMostOnce
  /\ part = "leave" => Leave!AtMostOnce

\* The screen tells the truth: the drive shows its index, the inbox of drops
\* what the node has, threads partition the mails and are read when all their
\* mails are, a blocked contact is listed as blocked, a proof is shown for its
\* owner only, the statistics switch shows what the node stored (to a user who
\* stays on the pane).
ShownTrue ==
  /\ part = "drive" => Cabinet!ShowsIndex
  /\ part = "drop" => Drop!InboxTrue
  /\ part = "threads" => Box!Partition /\ Box!ReadIffAll /\ Box!SubjectTogether
  /\ part = "contacts" => Known!BlockStored
  /\ part = "proof" => Proof!CardShowsOwner
  /\ part = "centre" => Centre!CardShowsOwner
  /\ part = "privacy" => Pane!OptOutTrue

\* Sessions and keys stay with their account: the keys in memory are those of
\* the user, a locked page can be unlocked, the client is not taken for a
\* replay, keeps its session while it only works and has none after a logout,
\* a rotation ends no session and leaves the device an active key.
KeysAndSessions ==
  /\ part = "auth" => Auth!KeysOfUser /\ Auth!DeviceKeyOfUser /\ Auth!LockRecoverable
  /\ part = "alone" => Alone!KeysOfUser /\ Alone!DeviceKeyOfUser /\ Alone!LockRecoverable
  /\ part = "web" => Web!NoReplay
  /\ part = "work" => Work!SessionKept
  /\ part = "leave" => Leave!LogoutFinal
  /\ part = "devices" => Keyring!SessionKept
  /\ part = "rotations" => Rotating!RotationKeepsKey

\* What needs the person's consent has it, and ends with it: an address needs
\* the terms accepted (where one account uses the device), the last step of
\* the tour a confirmed backup, a tour that was closed does not come back, a
\* closed dialog computes no proof.
AskedFirst ==
  /\ part = "wizard" => Wizard!TermsFirst
  /\ part = "settings" => Settings!TourOnce /\ Settings!LaunchConfirmed
  /\ part = "proof" => Proof!ClosedStops
  /\ part = "centre" => Centre!ClosedStops

\* What no step takes back: the password a drive was set up with, the
\* revocation of a device key, the owner of a registered address.
NeverTakenBack ==
  [][/\ part = "drive" => Cabinet!PasswordKept
     /\ part = "devices" => Keyring!RevokedStays
     /\ part = "rotations" => Rotating!RevokedStays
     /\ part = "names" => Named!NameKept
     /\ part = "wizard" => Wizard!NameKept]_vars
=============================================================================
