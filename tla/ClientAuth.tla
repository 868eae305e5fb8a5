----------------------------- MODULE ClientAuth -----------------------------
(***************************************************************************)
(* Signing in, locking, unlocking and signing out on one device            *)
(* (useGaiaAuth.js, useProfileActions.js, useInactivityLock.js and the     *)
(* auth, unlock and profile screens).                                      *)
(*                                                                         *)
(* localStorage holds four sealed copies of key material.  A sealed copy   *)
(* is [of, pw]: whose keys they are and which password opens them.  The    *)
(* handlers are asynchronous; each await splits a handler, and reloads,    *)
(* locks, logouts and other handlers run in between.  At most one handler  *)
(* of each kind is in flight (bound).                                      *)
(***************************************************************************)
EXTENDS Naturals, FiniteSets

CONSTANTS
  Account,   \* accounts used on this device
  Password,  \* passwords
  MaxChange, \* password changes (bound)
  None

NoneAssumption == None \notin Account \cup Password
BoundAssumption == MaxChange \in Nat /\ Cardinality(Password) > 1

VARIABLES
  srvPw,   \* the node: the login password of each registered account
  sess,    \* the node: whose session the page's credential opens
  ls,      \* localStorage: mn, pin, wa (mnemonic), hqc, dev
  mem,     \* React state: user, keys, hqc, locked, temp, dev, shown
  fails,   \* PIN guard: failures, and whether it is holding
  chk,     \* checkAuth in flight
  auth,    \* handleAuthSubmit in flight
  unl,     \* handleUnlock in flight
  out,     \* handleLogout in flight
  pair,    \* device pairing in progress
  changes, \* password changes so far
  ghost    \* history: sign-ins overlapped (raced), a session ended, or a
           \* pairing or sign-in was cut off, without a logout (stale); password typed
           \* since the last lock or logout (proved); a logout was the last sign-in event (out)

vars == <<srvPw, sess, ls, mem, fails, chk, auth, unl, out, pair, changes, ghost>>

Nobody == None
Sealed == [of : Account, pw : Password] \cup {[of |-> None, pw |-> None]}
Empty == [of |-> None, pw |-> None]
Holds(v) == v # Empty

MaxFails == 3
Idle == [st |-> "idle"]

EmptyMem == [user |-> None, keys |-> None, hqc |-> None, locked |-> FALSE,
             temp |-> None, dev |-> None, shown |-> FALSE]

TypeOK ==
  /\ srvPw \in [Account -> Password \cup {None}]
  /\ sess \in Account \cup {None}
  /\ ls \in [mn : Sealed, pin : Account \cup {None}, wa : Account \cup {None},
             hqc : Sealed, dev : Sealed]
  /\ mem \in [user : Account \cup {None}, keys : Account \cup {None},
              hqc : Account \cup {None}, locked : BOOLEAN,
              temp : Account \cup {None}, dev : Account \cup {None},
              shown : BOOLEAN]
  /\ fails \in [n : 0..MaxFails, held : BOOLEAN]
  /\ chk \in BOOLEAN /\ out \in BOOLEAN
  /\ auth.st \in {"idle", "vault", "server", "seal", "hydrate"}
  /\ unl.st \in {"idle", "decrypt", "hqc", "hydrate"}
  /\ pair.st \in {"idle", "shown", "approved", "taking"}
  /\ changes \in 0..MaxChange
  /\ ghost \in [raced : BOOLEAN, stale : BOOLEAN, proved : Account \cup {None}, out : BOOLEAN]

\* Sign-ins have overlapped, or one was given up half-way.
Abandoned == ghost.raced \/ ghost.stale

\* A page is opened on a device that has never been used.
Init ==
  /\ srvPw = [a \in Account |-> None] /\ sess = None
  /\ ls = [mn |-> Empty, pin |-> None, wa |-> None, hqc |-> Empty, dev |-> Empty]
  /\ mem = EmptyMem /\ fails = [n |-> 0, held |-> FALSE]
  /\ chk = TRUE /\ auth = Idle /\ unl = Idle /\ out = FALSE /\ pair = Idle
  /\ changes = 0 /\ ghost = [raced |-> FALSE, stale |-> FALSE, proved |-> None, out |-> FALSE]

\* The screens of App.jsx, in the order they are tested.
OnUnlockScreen == mem.locked
OnAuthScreen == ~mem.locked /\ (mem.user = None \/ mem.keys = None)
OnMain == ~mem.locked /\ mem.user # None /\ mem.keys # None

-----------------------------------------------------------------------------
(* Page load *)

\* A reload forgets everything but localStorage and the session credential:
\* the crypto session is a variable of the module and does not survive either.
Reload ==
  /\ mem' = EmptyMem /\ chk' = TRUE
  /\ auth' = Idle /\ unl' = Idle /\ out' = FALSE /\ pair' = Idle
  /\ ghost' = [ghost EXCEPT !.proved = None, !.out = FALSE,
                            !.stale = @ \/ pair # Idle \/ auth.st = "seal"]
  /\ UNCHANGED <<srvPw, sess, ls, fails, changes>>

\* checkAuth: a live session with a sealed mnemonic asks for the password,
\* one without a sealed mnemonic is logged out.
CheckAuth ==
  /\ chk /\ chk' = FALSE
  /\ IF sess # None /\ Holds(ls.mn)
     THEN mem' = [mem EXCEPT !.temp = sess, !.locked = TRUE] /\ UNCHANGED out
     ELSE out' = (out \/ sess # None) /\ UNCHANGED mem
  /\ UNCHANGED <<srvPw, sess, ls, fails, auth, unl, pair, changes, ghost>>

-----------------------------------------------------------------------------
(* handleAuthSubmit *)

\* The user fills in the form: their account, a password, their mnemonic.
SubmitAuth(mode, a, pw) ==
  /\ OnAuthScreen /\ auth.st = "idle"
  /\ auth' = [st |-> "vault", mode |-> mode, acc |-> a, pw |-> pw,
              hqc |-> None, dev |-> None]
  /\ ghost' = [ghost EXCEPT !.out = FALSE, !.raced = @ \/ chk \/ out]
  /\ UNCHANGED <<srvPw, sess, ls, mem, fails, chk, unl, out, pair, changes>>

\* createSovereignKeys seals a fresh HQC key pair in the device's one slot,
\* before the node has heard of the account.
CreateVault ==
  /\ auth.st = "vault" /\ auth.mode = "register"
  /\ ls' = [ls EXCEPT !.hqc = [of |-> auth.acc, pw |-> auth.pw]]
  /\ auth' = [auth EXCEPT !.st = "server", !.hqc = auth.acc]
  /\ UNCHANGED <<srvPw, sess, mem, fails, chk, unl, out, pair, changes, ghost>>

\* loadSovereignKeys: an empty slot is fine, a slot the password does not open
\* ends the login before the node is asked.
LoadVault ==
  /\ auth.st = "vault" /\ auth.mode = "login"
  /\ auth' = IF Holds(ls.hqc) /\ ls.hqc.pw # auth.pw THEN Idle
             ELSE [auth EXCEPT !.st = "server", !.hqc = ls.hqc.of]
  /\ UNCHANGED <<srvPw, sess, ls, mem, fails, chk, unl, out, pair, changes, ghost>>

\* What hydrateDeviceKeyVault will decrypt with this password.
Hydrated(pw) == IF ls.dev.pw = pw THEN ls.dev.of ELSE None

\* The node accepts: a new name is registered and logged in, a known one is
\* logged in with its password.
AuthAccepted ==
  /\ auth.st = "server"
  /\ IF auth.mode = "register"
     THEN srvPw[auth.acc] = None /\ srvPw' = [srvPw EXCEPT ![auth.acc] = auth.pw]
     ELSE srvPw[auth.acc] = auth.pw /\ UNCHANGED srvPw
  /\ sess' = auth.acc /\ auth' = [auth EXCEPT !.st = "seal"]
  /\ UNCHANGED <<ls, mem, fails, chk, unl, out, pair, changes, ghost>>

\* The name is registered, and the login that follows fails.
RegisteredOnly ==
  /\ auth.st = "server" /\ auth.mode = "register" /\ srvPw[auth.acc] = None
  /\ srvPw' = [srvPw EXCEPT ![auth.acc] = auth.pw] /\ auth' = Idle
  /\ UNCHANGED <<sess, ls, mem, fails, chk, unl, out, pair, changes, ghost>>

\* encryptMnemonic has finished: the sealed mnemonic is stored, keys and user
\* are set.
AuthSeals ==
  /\ auth.st = "seal"
  /\ ls' = [ls EXCEPT !.mn = [of |-> auth.acc, pw |-> auth.pw]]
  /\ mem' = [mem EXCEPT !.user = auth.acc, !.keys = auth.acc, !.hqc = auth.hqc,
                        !.temp = IF auth.mode = "register" THEN auth.acc ELSE @]
  /\ auth' = [auth EXCEPT !.st = "hydrate", !.dev = Hydrated(auth.pw)]
  /\ ghost' = [ghost EXCEPT !.proved = auth.acc]
  /\ UNCHANGED <<srvPw, sess, fails, chk, unl, out, pair, changes>>

\* The node refuses, or cannot be reached.
AuthRefused ==
  /\ auth.st = "server" /\ auth' = Idle
  /\ UNCHANGED <<srvPw, sess, ls, mem, fails, chk, unl, out, pair, changes, ghost>>

AuthFinish ==
  /\ auth.st = "hydrate" /\ auth' = Idle
  /\ mem' = [mem EXCEPT !.dev = auth.dev]
  /\ UNCHANGED <<srvPw, sess, ls, fails, chk, unl, out, pair, changes, ghost>>

-----------------------------------------------------------------------------
(* Lock and unlock *)

\* handleLock, by the user or by inactivity: key material leaves the page.
Lock ==
  /\ OnMain
  /\ mem' = [mem EXCEPT !.keys = None, !.hqc = None, !.dev = None,
                        !.temp = mem.user, !.locked = TRUE]
  /\ ghost' = [ghost EXCEPT !.proved = None]
  /\ UNCHANGED <<srvPw, sess, ls, fails, chk, auth, unl, out, pair, changes>>

\* handleUnlock reads the sealed copy at once and opens it after an await.
\* A held PIN guard refuses.
StartUnlock(mode, pw) ==
  /\ OnUnlockScreen /\ unl.st = "idle"
  /\ mode = "pin" => ls.pin # None /\ ~fails.held
  /\ mode = "wa" => ls.wa # None
  /\ mode = "password" => Holds(ls.mn)
  /\ unl' = [st |-> "decrypt", mode |-> mode, pw |-> pw, temp |-> mem.temp,
             of |-> CASE mode = "pin" -> ls.pin [] mode = "wa" -> ls.wa
                      [] OTHER -> ls.mn.of,
             opens |-> mode # "password" \/ ls.mn.pw = pw, hqc |-> None, dev |-> None]
  /\ ghost' = [ghost EXCEPT !.raced = @ \/ out]
  /\ UNCHANGED <<srvPw, sess, ls, mem, fails, chk, auth, out, pair, changes>>

\* The copy does not open (wrong password or code, authenticator cancelled).
UnlockFails ==
  /\ unl.st = "decrypt" /\ (~unl.opens \/ unl.mode # "password")
  /\ unl' = Idle
  /\ fails' = IF unl.mode # "pin" THEN fails
              ELSE [n |-> IF fails.n < MaxFails THEN fails.n + 1 ELSE MaxFails,
                    held |-> fails.n + 1 >= MaxFails]
  /\ UNCHANGED <<srvPw, sess, ls, mem, chk, auth, out, pair, changes, ghost>>

\* It opens.  With the password, the HQC slot is opened too.
UnlockOpens ==
  /\ unl.st = "decrypt" /\ unl.opens
  /\ unl' = IF unl.mode # "password" THEN [unl EXCEPT !.st = "hqc"]
            ELSE IF Holds(ls.hqc) /\ ls.hqc.pw # unl.pw THEN Idle
            ELSE [unl EXCEPT !.st = "hqc", !.hqc = ls.hqc.of]
  /\ UNCHANGED <<srvPw, sess, ls, mem, fails, chk, auth, out, pair, changes, ghost>>

\* Keys and user are set; the page stays on the unlock screen until the
\* device key record has been read.
UnlockSets ==
  /\ unl.st = "hqc"
  /\ mem' = [mem EXCEPT !.user = unl.temp, !.keys = unl.of, !.hqc = unl.hqc,
                        !.dev = IF unl.mode = "password" THEN @ ELSE None]
  /\ unl' = [unl EXCEPT !.st = "hydrate",
                        !.dev = IF unl.mode = "password" THEN Hydrated(unl.pw) ELSE None]
  /\ UNCHANGED <<srvPw, sess, ls, fails, chk, auth, out, pair, changes, ghost>>

UnlockFinish ==
  /\ unl.st = "hydrate" /\ unl' = Idle
  /\ mem' = [mem EXCEPT !.dev = unl.dev, !.locked = FALSE]
  /\ fails' = IF unl.mode = "pin" THEN [n |-> 0, held |-> FALSE] ELSE fails
  /\ ghost' = [ghost EXCEPT !.proved = IF unl.mode = "password" THEN unl.temp ELSE @]
  /\ UNCHANGED <<srvPw, sess, ls, chk, auth, out, pair, changes>>

\* The guard's two, ten or sixty minutes pass.
GuardExpires ==
  /\ fails.held /\ fails' = [fails EXCEPT !.held = FALSE]
  /\ UNCHANGED <<srvPw, sess, ls, mem, chk, auth, unl, out, pair, changes, ghost>>

-----------------------------------------------------------------------------
(* Logout *)

StartLogout ==
  /\ OnUnlockScreen \/ OnMain
  /\ ~out /\ out' = TRUE
  /\ ghost' = [ghost EXCEPT !.raced = @ \/ auth # Idle \/ unl # Idle]
  /\ UNCHANGED <<srvPw, sess, ls, mem, fails, chk, auth, unl, pair, changes>>

\* Deviant: the device code's copy of the mnemonic is left behind.
FinishLogoutKeepingPin ==
  /\ out /\ out' = FALSE /\ sess' = None
  /\ ls' = [ls EXCEPT !.mn = Empty, !.wa = None, !.dev = Empty]
  /\ fails' = [n |-> 0, held |-> FALSE]
  /\ mem' = [mem EXCEPT !.user = None, !.keys = None, !.hqc = None, !.dev = None,
                        !.locked = FALSE]
  /\ ghost' = [ghost EXCEPT !.out = TRUE, !.proved = None]
  /\ UNCHANGED <<srvPw, chk, auth, unl, pair, changes>>

\* The node has answered, or could not be reached, and then a browser keeps
\* its session cookies: every sealed copy but the HQC slot is removed, and the
\* page forgets user and keys.
FinishLogout ==
  /\ out /\ out' = FALSE /\ sess' \in {None, sess}
  /\ ls' = [ls EXCEPT !.mn = Empty, !.pin = None, !.wa = None, !.dev = Empty]
  /\ fails' = [n |-> 0, held |-> FALSE]
  /\ mem' = [mem EXCEPT !.user = None, !.keys = None, !.hqc = None, !.dev = None,
                        !.locked = FALSE]
  /\ ghost' = [ghost EXCEPT !.out = (auth = Idle /\ pair = Idle), !.proved = None,
                            !.stale = @ \/ sess' # None]
  /\ UNCHANGED <<srvPw, chk, auth, unl, pair, changes>>

-----------------------------------------------------------------------------
(* The profile's security pages *)

\* handleSetUnlockPin, handleRemoveUnlockPin and their WebAuthn counterparts.
SetUnlock(slot) ==
  /\ OnMain
  /\ ls' = [ls EXCEPT ![slot] = mem.keys]
  /\ UNCHANGED <<srvPw, sess, mem, fails, chk, auth, unl, out, pair, changes, ghost>>

RemoveUnlock(slot) ==
  /\ OnMain /\ ls[slot] # None
  /\ ls' = [ls EXCEPT ![slot] = None]
  /\ UNCHANGED <<srvPw, sess, mem, fails, chk, auth, unl, out, pair, changes, ghost>>

\* handleChangePassword: the node's password changes, no sealed copy does.
ChangePassword(pw) ==
  /\ OnMain /\ sess = mem.user /\ changes < MaxChange
  /\ srvPw[mem.user] \notin {None, pw}
  /\ srvPw' = [srvPw EXCEPT ![mem.user] = pw] /\ changes' = changes + 1
  /\ UNCHANGED <<sess, ls, mem, fails, chk, auth, unl, out, pair, ghost>>

\* handleUnlockProfileKeys: the password opens the key page.
ShowKeys ==
  /\ OnMain /\ ~mem.shown /\ Holds(ls.mn)
  /\ mem' = [mem EXCEPT !.shown = TRUE]
  /\ ghost' = [ghost EXCEPT !.proved = mem.user]
  /\ UNCHANGED <<srvPw, sess, ls, fails, chk, auth, unl, out, pair, changes>>

HideKeys ==
  /\ OnMain /\ mem.shown
  /\ mem' = [mem EXCEPT !.shown = FALSE]
  /\ UNCHANGED <<srvPw, sess, ls, fails, chk, auth, unl, out, pair, changes, ghost>>

\* handleImportRecoveryBackup on the sign-in screen: the mnemonic of the file
\* is sealed with a password of the user's choice, and fills the form.
ImportRecovery(a, pw) ==
  /\ OnAuthScreen /\ mem.user = None /\ srvPw[a] # None
  /\ ls' = [ls EXCEPT !.mn = [of |-> a, pw |-> pw]]
  /\ mem' = [mem EXCEPT !.keys = a]
  /\ ghost' = [ghost EXCEPT !.out = FALSE, !.raced = @ \/ chk \/ out \/ unl # Idle]
  /\ UNCHANGED <<srvPw, sess, fails, chk, auth, unl, out, pair, changes>>

\* handleDeleteAccount: the node forgets the account and its sessions.
DeleteAccount ==
  /\ OnMain /\ sess = mem.user /\ srvPw[mem.user] # None
  /\ srvPw' = [srvPw EXCEPT ![mem.user] = None] /\ sess' = None
  /\ ghost' = [ghost EXCEPT !.stale = TRUE]
  /\ UNCHANGED <<ls, mem, fails, chk, auth, unl, out, pair, changes>>

\* The session expires or is revoked from another device.
SessionEnds ==
  /\ sess # None /\ sess' = None
  /\ ghost' = [ghost EXCEPT !.stale = TRUE]
  /\ UNCHANGED <<srvPw, ls, mem, fails, chk, auth, unl, out, pair, changes>>

-----------------------------------------------------------------------------
(* Pairing this device with one that is already signed in *)

\* startDevicePairing logs in and shows the code.
StartPairing(a, pw) ==
  /\ OnAuthScreen /\ pair.st = "idle" /\ srvPw[a] = pw
  /\ sess' = a /\ pair' = [st |-> "shown", acc |-> a, pw |-> pw]
  /\ ghost' = [ghost EXCEPT !.out = FALSE, !.raced = @ \/ chk \/ out \/ unl # Idle \/ auth # Idle]
  /\ UNCHANGED <<srvPw, ls, mem, fails, chk, auth, unl, out, changes>>

\* The login succeeds but the node offers no pairing: setAuthToken('') drops
\* the desktop's session, a browser keeps the new one.
StartPairingFails(a, pw) ==
  /\ OnAuthScreen /\ pair.st = "idle" /\ srvPw[a] = pw
  /\ sess' \in {a, None}
  /\ ghost' = [ghost EXCEPT !.out = FALSE, !.stale = TRUE,
                            !.raced = @ \/ chk \/ out \/ unl # Idle \/ auth # Idle]
  /\ UNCHANGED <<srvPw, ls, mem, fails, chk, auth, unl, out, pair, changes>>

ApprovePairing ==
  /\ pair.st = "shown" /\ pair' = [pair EXCEPT !.st = "approved"]
  /\ UNCHANGED <<srvPw, sess, ls, mem, fails, chk, auth, unl, out, changes, ghost>>

\* completeDevicePairing fetches the approved payload and consumes it.
ConsumePairing ==
  /\ OnAuthScreen /\ pair.st = "approved" /\ sess = pair.acc
  /\ pair' = [pair EXCEPT !.st = "taking"]
  /\ UNCHANGED <<srvPw, sess, ls, mem, fails, chk, auth, unl, out, changes, ghost>>

\* The handed-over mnemonic and HQC keys have been sealed: all copies are
\* stored and the page is signed in, whatever it has done meanwhile.
CompletePairing ==
  /\ pair.st = "taking"
  /\ LET v == [of |-> pair.acc, pw |-> pair.pw] IN
       ls' = [ls EXCEPT !.mn = v, !.dev = v, !.hqc = v]
  /\ mem' = [mem EXCEPT !.user = pair.acc, !.keys = pair.acc, !.hqc = pair.acc,
                        !.dev = pair.acc]
  /\ pair' = Idle
  /\ ghost' = [ghost EXCEPT !.proved = pair.acc, !.raced = @ \/ auth # Idle \/ unl # Idle \/ out
                                       \/ mem.user # None \/ sess # pair.acc]
  /\ UNCHANGED <<srvPw, sess, fails, chk, auth, unl, out, changes>>

\* cancelDevicePairing: setAuthToken('') ends the session on the desktop only.
CancelPairing ==
  /\ OnAuthScreen /\ pair.st \in {"shown", "approved"} /\ pair' = Idle
  /\ sess' \in {sess, None}
  /\ ghost' = [ghost EXCEPT !.stale = TRUE]
  /\ UNCHANGED <<srvPw, ls, mem, fails, chk, auth, unl, out, changes>>

Next ==
  \/ Reload \/ CheckAuth
  \/ \E a \in Account, pw \in Password :
       \/ \E mode \in {"register", "login"} : SubmitAuth(mode, a, pw)
       \/ ImportRecovery(a, pw) \/ StartPairing(a, pw) \/ StartPairingFails(a, pw)
  \/ CreateVault \/ LoadVault \/ AuthAccepted \/ RegisteredOnly
  \/ AuthSeals \/ AuthRefused \/ AuthFinish
  \/ Lock \/ GuardExpires
  \/ \E pw \in Password : StartUnlock("password", pw) \/ ChangePassword(pw)
  \/ \E mode \in {"pin", "wa"} : StartUnlock(mode, None)
  \/ UnlockFails \/ UnlockOpens \/ UnlockSets \/ UnlockFinish
  \/ StartLogout \/ FinishLogout
  \/ \E slot \in {"pin", "wa"} : SetUnlock(slot) \/ RemoveUnlock(slot)
  \/ ShowKeys \/ HideKeys \/ DeleteAccount \/ SessionEnds
  \/ ApprovePairing \/ ConsumePairing \/ CompletePairing \/ CancelPairing

Spec == Init /\ [][Next]_vars

-----------------------------------------------------------------------------
(* Properties *)

\* The keys a signed-in page works with are the keys of the account it is
\* signed in to, through every lock, unlock, logout and change of account,
\* where each session on the device ended in a logout the node carried out, no
\* reload cut a sign-in between its login and the sealing of the mnemonic, and
\* sign-ins did not overlap with a pending status answer, logout or unlock.
KeysOfUser ==
  (mem.user # None /\ mem.keys # None /\ ~ghost.raced /\ ~ghost.stale)
    => mem.keys = mem.user

\* Under the same condition, so does the device key in memory.
DeviceKeyOfUser ==
  (mem.user # None /\ mem.dev # None /\ ~ghost.raced /\ ~ghost.stale)
    => mem.dev = mem.user

\* The device code keeps "a second locally encrypted copy of your keys": what
\* it opens are the keys of the account that is being unlocked.
CodeOpensOwnKeys ==
  (unl.st = "hydrate" /\ unl.mode = "pin" /\ ~ghost.raced) => unl.of = unl.temp

\* A locked page can be unlocked: the sealed mnemonic is there and is that of
\* the account the lock screen will sign in.
LockRecoverable ==
  (mem.locked /\ ~ghost.raced /\ ~ghost.stale /\ ~out) => ls.mn.of = mem.temp

\* "Memory references cleared upon logout": once a logout with no sign-in
\* under way has finished, and until somebody signs in, the page has neither
\* user nor keys.
LogoutClears == ghost.out => mem.user = None /\ mem.keys = None

\* "The encrypted identity HQC key survives logout; only explicit device data
\* destruction may remove it": the slot is never taken from an existing account.
HqcVaultKept ==
  [][\A a \in Account : (ls.hqc.of = a /\ srvPw[a] # None) => ls'.hqc.of = a]_vars

\* Private keys are shown only where the account's password was typed on this
\* page, on the key page or to sign in or unlock, since the last lock or logout (no sign-in overlapping).
KeysShownAfterPassword == (OnMain /\ mem.shown /\ ~ghost.raced) => ghost.proved = mem.user

=============================================================================
