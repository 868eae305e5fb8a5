-------------------------------- MODULE Drive --------------------------------
(***************************************************************************)
(* GaiaDrive: the encrypted index of a person's notes and files in         *)
(* localStorage, the encrypted files themselves in the browser's private   *)
(* file system (OPFS), their copies in the cloud, and what the page holds  *)
(* of them while the drive is unlocked (hooks/useDrive.jsx, DrivePane.jsx, *)
(* ListPane.jsx, ChatPane.jsx).                                            *)
(*                                                                         *)
(* Every operation computes the next list from the records its closure saw *)
(* when it was started, and stores it after its awaits.  An operation      *)
(* under way is a task.  A file's encryption keys are numbered: a key      *)
(* opens exactly the blobs written with it.                                *)
(***************************************************************************)
EXTENDS Naturals, FiniteSets, TLC

CONSTANTS Users, NoUser,
          Notes, Files,  \* the entries that can be created
          Large,         \* the files of more than 20 MB (MAX_CLOUD_BYTES)
          MaxTasks, MaxKeys, MaxCloud, MaxReloads, MaxSwitches

Entries == Notes \union Files

DriveAssumption ==
  /\ Notes \cap Files = {} /\ Large \subseteq Files /\ NoUser \notin Users
  /\ {MaxTasks, MaxKeys, MaxCloud, MaxReloads, MaxSwitches} \subseteq Nat

VARIABLES user, unlocked, pwd, records, selected, index, opfs, cloud, tasks, ghost

vars == <<user, unlocked, pwd, records, selected, index, opfs, cloud, tasks, ghost>>

\* keyHex and ivHex (0: a note), and cloudFileId (0: undefined).
Record == [key : 0..MaxKeys, cloud : 0..MaxCloud]
Lists == UNION {[s -> Record] : s \in SUBSET Entries}
Empty == [e \in {} |-> 0]
NoIndex == [pwd |-> NoUser, recs |-> Empty]
Nothing == [id |-> "none", rec |-> [key |-> 0, cloud |-> 0]]
Idle == [op |-> "idle", at |-> "idle", u |-> NoUser, pwd |-> NoUser, base |-> Empty,
         arg |-> Nothing, key |-> 0]

Ops == {"idle", "setup", "open", "note", "file", "upload", "download", "expired", "delete"}

\* The one type invariant: lists hold whole records, files have a key, notes none.
TypeOK ==
  /\ user \in Users \union {NoUser} /\ pwd \in Users \union {NoUser} /\ unlocked \in BOOLEAN
  /\ records \in Lists /\ \A e \in DOMAIN records : (e \in Files) <=> (records[e].key > 0)
  /\ selected.id \in Entries \union {"none"} /\ selected.rec \in Record
  /\ \A u \in Users : index[u].recs \in Lists /\ index[u].pwd \in Users \union {NoUser}
  /\ opfs \in [Files -> 0..MaxKeys]
  /\ \A c \in 1..MaxCloud : cloud[c].key \in 0..MaxKeys /\ cloud[c].live \in BOOLEAN
  /\ \A t \in 1..MaxTasks : tasks[t].op \in Ops /\ tasks[t].base \in Lists

Init ==
  /\ user \in Users /\ unlocked = FALSE /\ pwd = NoUser /\ records = Empty /\ selected = Nothing
  /\ index = [u \in Users |-> NoIndex] /\ opfs = [f \in Files |-> 0]
  /\ cloud = [c \in 1..MaxCloud |-> [key |-> 0, live |-> FALSE]]
  /\ tasks = [t \in 1..MaxTasks |-> Idle]
  /\ ghost = [keys |-> 0, made |-> {}, saved |-> {}, overlap |-> FALSE, torn |-> FALSE, reopened |-> FALSE, carried |-> FALSE,
              reloads |-> 0, switches |-> 0, restored |-> "none", shared |-> {}]

Busy == {t \in 1..MaxTasks : tasks[t].op # "idle"}
MayStart == Cardinality(Busy) < MaxTasks

\* An operation starts in the first free task: it keeps the user, the password and
\* the records of the render it was started from.
Start(op, at, arg) ==
  LET t == CHOOSE s \in 1..MaxTasks : s \notin Busy IN
  tasks' = [tasks EXCEPT ![t] = [op |-> op, at |-> at, u |-> user, pwd |-> pwd,
                                 base |-> records, arg |-> arg, key |-> 0]]

\* Two operations that end by storing a list are under way at once.
Overlaps == Busy # {}

-----------------------------------------------------------------------------
(* The screens of DrivePane, one at a time.                                 *)

LockScreen == user # NoUser /\ ~unlocked
DetailView(e) == user # NoUser /\ unlocked /\ selected.id = e /\ e # "none"
MainView == user # NoUser /\ unlocked /\ selected = Nothing

\* The controls of the detail view for the cloud copy of a file.
OffersUpload == selected.id \in Files \ Large /\ selected.rec.cloud = 0
OffersDownload == selected.id \in Files /\ selected.rec.cloud # 0

-----------------------------------------------------------------------------
(* Unlocking and locking.                                                   *)

\* handleUnlockDrive, with the password of p typed: nothing stored is a first-time
\* setup, otherwise the stored index (read now) is decrypted with the password.
HandleUnlockDrive(p) ==
  /\ LockScreen /\ MayStart
  /\ pwd' = p
  /\ LET t == CHOOSE s \in 1..MaxTasks : s \notin Busy IN
     tasks' = [tasks EXCEPT ![t] =
       [Idle EXCEPT !.op = IF index[user] = NoIndex THEN "setup" ELSE "open",
                    !.at = "index", !.u = user, !.pwd = p, !.base = index[user].recs]]
  /\ ghost' = [ghost EXCEPT !.overlap = @ \/ Overlaps, !.reopened = @ \/ Overlaps]
  /\ UNCHANGED <<user, unlocked, records, selected, index, opfs, cloud>>

\* The decryption ends: the wrong password only shows an error.
Opens(t) ==
  /\ tasks[t].op = "open"
  /\ LET ok == index[tasks[t].u].pwd = tasks[t].pwd IN
     /\ records' = IF ok THEN tasks[t].base ELSE records
     /\ unlocked' = (ok \/ unlocked)
  /\ tasks' = [tasks EXCEPT ![t] = Idle]
  /\ UNCHANGED <<user, pwd, selected, index, opfs, cloud, ghost>>

\* handleLockDrive.
HandleLockDrive ==
  /\ MainView
  /\ unlocked' = FALSE /\ pwd' = NoUser /\ records' = Empty /\ selected' = Nothing
  /\ UNCHANGED <<user, index, opfs, cloud, tasks, ghost>>

-----------------------------------------------------------------------------
(* Operations on entries.                                                   *)

\* handleAddNote: a note not made before is added to the list.
HandleAddNote(n) ==
  /\ MainView /\ MayStart /\ n \notin ghost.made
  /\ Start("note", "index", [Nothing EXCEPT !.id = n])
  /\ ghost' = [ghost EXCEPT !.made = @ \union {n}, !.overlap = @ \/ Overlaps]
  /\ UNCHANGED <<user, unlocked, pwd, records, selected, index, opfs, cloud>>

\* handleAddFile: a file is encrypted with a new key and written before the list is.
HandleAddFile(e) ==
  /\ MainView /\ MayStart /\ e \notin ghost.made
  /\ Start("file", "encrypt", [Nothing EXCEPT !.id = e])
  /\ ghost' = [ghost EXCEPT !.made = @ \union {e}, !.overlap = @ \/ Overlaps]
  /\ UNCHANGED <<user, unlocked, pwd, records, selected, index, opfs, cloud>>

\* setSelectedDriveRecord, from the list of the pane or of the side bar: the detail
\* view keeps the record as it is in the list now.
Select(e) ==
  /\ unlocked /\ user # NoUser /\ e \in DOMAIN records
  /\ selected' = [id |-> e, rec |-> records[e]]
  /\ ghost' = [ghost EXCEPT !.restored = "none"]
  /\ UNCHANGED <<user, unlocked, pwd, records, index, opfs, cloud, tasks>>

\* "Zurück".
Back ==
  /\ \E e \in Entries : DetailView(e)
  /\ selected' = Nothing /\ ghost' = [ghost EXCEPT !.restored = "none"]
  /\ UNCHANGED <<user, unlocked, pwd, records, index, opfs, cloud, tasks>>

\* "In Cloud hochladen", offered for a selected file of at most 20 MB without a copy.
HandleCloudUpload ==
  /\ DetailView(selected.id) /\ OffersUpload /\ MayStart
  /\ Start("upload", "read", selected)
  /\ ghost' = [ghost EXCEPT !.overlap = @ \/ Overlaps]
  /\ UNCHANGED <<user, unlocked, pwd, records, selected, index, opfs, cloud>>

\* prepareDriveRecordForChatShare, from the list of the chat: an existing copy is
\* shared with the keys of the record, otherwise the file is uploaded.
PrepareDriveRecordForChatShare(e) ==
  /\ unlocked /\ user # NoUser /\ e \in DOMAIN records \cap Files
  /\ LET r == records[e] IN
     IF r.cloud # 0 /\ cloud[r.cloud].live
     THEN /\ ghost' = [ghost EXCEPT !.shared = @ \union {<<r.cloud, r.key>>}]
          /\ UNCHANGED tasks
     ELSE /\ MayStart /\ e \notin Large
          /\ Start("upload", "read", [id |-> e, rec |-> r])
          /\ ghost' = [ghost EXCEPT !.overlap = @ \/ Overlaps]
  /\ UNCHANGED <<user, unlocked, pwd, records, selected, index, opfs, cloud>>

\* "Von Cloud laden", offered for a selected file whose copy has not expired here.
HandleCloudDownload ==
  /\ DetailView(selected.id) /\ OffersDownload /\ MayStart
  /\ Start("download", "fetch", selected)
  /\ ghost' = [ghost EXCEPT !.overlap = @ \/ Overlaps]
  /\ UNCHANGED <<user, unlocked, pwd, records, selected, index, opfs, cloud>>

\* handleDeleteRecord, from a card of the list or the detail view.
HandleDeleteRecord(e) ==
  /\ (MainView /\ e \in DOMAIN records) \/ DetailView(e)
  /\ MayStart
  /\ Start("delete", IF e \in DOMAIN records \cap Files THEN "remove" ELSE "index", [Nothing EXCEPT !.id = e])
  /\ ghost' = [ghost EXCEPT !.saved = @ \ {<<user, e>>}, !.overlap = @ \/ Overlaps]
  /\ UNCHANGED <<user, unlocked, pwd, records, selected, index, opfs, cloud>>

-----------------------------------------------------------------------------
(* Steps of a task.                                                         *)

Step(t, at, key) == tasks' = [tasks EXCEPT ![t].at = at, ![t].key = key]

\* The blob of a new file, or of a file restored from the cloud, is written to the
\* file system with a new key (encryptFileSymmetric, writeOPFSFile).
WriteOPFSFile(t) ==
  /\ tasks[t].at = "encrypt" /\ ghost.keys < MaxKeys
  /\ opfs' = [opfs EXCEPT ![tasks[t].arg.id] = ghost.keys + 1]
  /\ Step(t, "index", ghost.keys + 1)
  /\ ghost' = [ghost EXCEPT !.keys = @ + 1]
  /\ UNCHANGED <<user, unlocked, pwd, records, selected, index, cloud>>

\* deleteOPFSFile.
DeleteOPFSFile(t) ==
  /\ tasks[t].at = "remove"
  /\ opfs' = [opfs EXCEPT ![tasks[t].arg.id] = 0]
  /\ Step(t, "index", 0)
  /\ UNCHANGED <<user, unlocked, pwd, records, selected, index, cloud, ghost>>

\* The encrypted blob is read and goes, chunk by chunk, to the node: a new cloud
\* file, which opens with the key the blob was written with.
Uploads(t) ==
  /\ tasks[t].at = "read" /\ opfs[tasks[t].arg.id] # 0
  /\ \E c \in 1..MaxCloud :
       /\ cloud[c].key = 0 /\ \A d \in 1..(c - 1) : cloud[d].key # 0
       /\ cloud' = [cloud EXCEPT ![c] = [key |-> opfs[tasks[t].arg.id], live |-> TRUE]]
       /\ Step(t, "index", c)
  /\ UNCHANGED <<user, unlocked, pwd, records, selected, index, opfs, ghost>>

\* The copy is fetched and opened with the key of the record; it is then encrypted
\* anew for the file system.  A copy that is gone is taken off the record.
Fetches(t) ==
  /\ tasks[t].at = "fetch"
  /\ LET a == tasks[t].arg IN
     \/ /\ cloud[a.rec.cloud].live /\ cloud[a.rec.cloud].key = a.rec.key
        /\ Step(t, "encrypt", 0)
     \/ /\ cloud[a.rec.cloud].live /\ cloud[a.rec.cloud].key # a.rec.key
        /\ tasks' = [tasks EXCEPT ![t] = Idle]
     \/ /\ ~cloud[a.rec.cloud].live
        /\ tasks' = [tasks EXCEPT ![t].op = "expired", ![t].at = "index"]
  /\ UNCHANGED <<user, unlocked, pwd, records, selected, index, opfs, cloud, ghost>>

\* The list an operation stores: made from the records it started with.
NextList(k) ==
  CASE k.op = "setup" -> Empty
    [] k.op \in {"note", "file"} -> (k.arg.id :> [key |-> k.key, cloud |-> 0]) @@ k.base
    [] k.op = "upload" -> [k.base EXCEPT ![k.arg.id] = [k.arg.rec EXCEPT !.cloud = k.key]]
    [] k.op = "download" -> [k.base EXCEPT ![k.arg.id] = [k.arg.rec EXCEPT !.key = k.key]]
    [] k.op = "expired" -> [k.base EXCEPT ![k.arg.id].cloud = 0]
    [] k.op = "delete" -> [e \in DOMAIN k.base \ {k.arg.id} |-> k.base[e]]

\* Deviant: the page is not told what was stored.
PersistRecordsSilently(t) ==
  /\ tasks[t].at = "index" /\ tasks[t].op # "open"
  /\ index' = [index EXCEPT ![tasks[t].u] = [pwd |-> tasks[t].pwd, recs |-> NextList(tasks[t])]]
  /\ unlocked' = (unlocked \/ tasks[t].op = "setup")
  /\ tasks' = [tasks EXCEPT ![t] = Idle]
  /\ UNCHANGED <<user, pwd, records, selected, opfs, cloud, ghost>>

\* persistRecords, and what the operation does after it: the index of the user the
\* operation was started by is replaced, and so are the records of the page.
PersistRecords(t) ==
  /\ tasks[t].at = "index" /\ tasks[t].op # "open"
  /\ LET k == tasks[t]
         next == NextList(k)
     IN /\ index' = [index EXCEPT ![k.u] = [pwd |-> k.pwd, recs |-> next]]
        /\ records' = next
        /\ unlocked' = (unlocked \/ k.op = "setup")
        /\ selected' = IF k.op = "delete" /\ selected.id = k.arg.id THEN Nothing ELSE selected
        /\ ghost' = [ghost EXCEPT
             !.saved = IF k.op \in {"note", "file"} THEN @ \union {<<k.u, k.arg.id>>} ELSE @,
             !.restored = IF k.op = "download" THEN k.arg.id ELSE @]
  /\ tasks' = [tasks EXCEPT ![t] = Idle]
  /\ UNCHANGED <<user, pwd, opfs, cloud>>

\* A step of a task fails (no file system, no network, a full localStorage): the
\* operation ends with an error.
Fails(t) ==
  /\ tasks[t].op # "idle"
  /\ tasks' = [tasks EXCEPT ![t] = Idle]
  /\ ghost' = [ghost EXCEPT !.torn = @ \/ (tasks[t].op = "download" /\ tasks[t].at = "index")]
  /\ UNCHANGED <<user, unlocked, pwd, records, selected, index, opfs, cloud>>

-----------------------------------------------------------------------------
(* The rest of the world.                                                   *)

\* The page is reloaded: what it held is gone, and so are the tasks.
Reload ==
  /\ ghost.reloads < MaxReloads
  /\ unlocked' = FALSE /\ pwd' = NoUser /\ records' = Empty /\ selected' = Nothing
  /\ tasks' = [t \in 1..MaxTasks |-> Idle]
  /\ ghost' = [ghost EXCEPT !.reloads = @ + 1, !.restored = "none",
       !.torn = @ \/ \E t \in Busy : tasks[t].op = "download" /\ tasks[t].at = "index"]
  /\ UNCHANGED <<user, index, opfs, cloud>>

\* The retention sweeper of the node deletes a copy after 14 days.
Expires(c) ==
  /\ cloud[c].live /\ cloud' = [cloud EXCEPT ![c].live = FALSE]
  /\ ghost' = [ghost EXCEPT !.shared = {s \in @ : s[1] # c}]
  /\ UNCHANGED <<user, unlocked, pwd, records, selected, index, opfs, tasks>>

\* The person logs out; somebody logs in.  Neither touches the state of useDrive.
Logout ==
  /\ user # NoUser /\ ghost.switches < MaxSwitches /\ user' = NoUser
  /\ ghost' = [ghost EXCEPT !.switches = @ + 1, !.carried = @ \/ unlocked \/ Busy # {}]
  /\ UNCHANGED <<unlocked, pwd, records, selected, index, opfs, cloud, tasks>>

Login(u) ==
  /\ user = NoUser /\ user' = u
  /\ UNCHANGED <<unlocked, pwd, records, selected, index, opfs, cloud, tasks, ghost>>

Next ==
  \/ \E p \in Users : HandleUnlockDrive(p) \/ Login(p)
  \/ HandleLockDrive \/ HandleCloudUpload \/ HandleCloudDownload \/ Back \/ Reload \/ Logout
  \/ \E n \in Notes : HandleAddNote(n)
  \/ \E f \in Files : HandleAddFile(f)
  \/ \E e \in Entries : \/ Select(e) \/ HandleDeleteRecord(e)
                        \/ PrepareDriveRecordForChatShare(e)
  \/ \E t \in 1..MaxTasks : \/ Opens(t) \/ WriteOPFSFile(t) \/ DeleteOPFSFile(t) \/ Uploads(t)
                            \/ Fetches(t) \/ PersistRecords(t) \/ Fails(t)
  \/ \E c \in 1..MaxCloud : Expires(c)

Spec == Init /\ [][Next]_vars

-----------------------------------------------------------------------------
(* Properties.                                                              *)

\* Operations one after the other, with the drive unlocked and locked, the page
\* reloaded and operations failing at any point: what was announced as stored and
\* was not deleted is in the index of its owner, and the index holds the key that
\* opens the blob of the file (persistRecords, handleAddFile, handleCloudDownload).
\* Left out: an interruption between the blob and the index of a restored file.
SavedOpens ==
  ~ghost.overlap /\ ~ghost.torn /\ ~ghost.carried =>
    \A s \in ghost.saved :
      /\ s[2] \in DOMAIN index[s[1]].recs
      /\ s[2] \in Files /\ (\A t \in Busy : tasks[t].arg.id # s[2])
           => opfs[s[2]] = index[s[1]].recs[s[2]].key

\* However operations overlap, as long as no file was restored from the cloud: the
\* key an index has for a file opens its blob, unless the blob is deleted, and every
\* unexpired copy it names opens with that key (the blob is written before the index,
\* and deleted before it; an upload sends the blob as it is).
IndexOpens ==
  ghost.keys <= Cardinality(ghost.made \cap Files) =>
    \A u \in Users : \A f \in DOMAIN index[u].recs \cap Files :
      LET r == index[u].recs[f] IN
      opfs[f] \in {0, r.key} /\ (r.cloud # 0 => cloud[r.cloud].key = r.key)

\* While the drive is unlocked and nothing is under way, the records shown are the
\* ones in the index of the user (persistRecords sets both, handleUnlockDrive reads).
ShowsIndex ==
  unlocked /\ user # NoUser /\ Busy = {} /\ ~ghost.overlap /\ ~ghost.carried
    => records = index[user].recs

\* A drive keeps the password it was set up with: a wrong password at the lock
\* screen never replaces the index (handleUnlockDrive, persistRecords).
PasswordKept ==
  \A u \in Users : index[u] # NoIndex /\ ~ghost.overlap /\ ~ghost.carried
                    => index'[u].pwd = index[u].pwd

\* Claim: what was announced as "lokal verschlüsselt gespeichert" and was not deleted
\* is in the index (handleAddNote, handleAddFile).
SavedKept ==
  ~ghost.reopened => \A s \in ghost.saved : s[2] \in DOMAIN index[s[1]].recs

\* Claim: once a copy from the cloud has been restored, the local download of the
\* open view works (handleCloudDownload, handleDownloadFile).
RestoredOpens ==
  ~ghost.overlap /\ ghost.restored # "none" /\ selected.id = ghost.restored /\ Busy = {}
    => opfs[selected.id] = selected.rec.key

\* Claim: a file shared in a chat opens with the keys that are sent along
\* (prepareDriveRecordForChatShare, attachDriveRecord).
SharedOpens ==
  ~ghost.overlap /\ ~ghost.torn => \A s \in ghost.shared : cloud[s[1]].key = s[2]

\* Claim: the memory of the drive is cleared upon logout (handleLockDrive is the
\* only function that does).
LogoutClears == [][user # NoUser /\ user' = NoUser => records' = Empty /\ ~unlocked']_vars
=============================================================================
