---------------------------- MODULE SessionProofs ---------------------------
(***************************************************************************)
(* Proofs about signing in (ClientAuth) and about the session that a       *)
(* sign-in opens (ApiSession), for any accounts, passwords, calls and      *)
(* sessions.                                                               *)
(*                                                                         *)
(* The keys a page holds are its account's because each way in finds the   *)
(* slots empty and each way out empties them.  A call is sent again only   *)
(* after the node refused it, and the page rotates with the latest token   *)
(* it has, one rotation at a time; a login that is under way brings a      *)
(* session nobody has rotated yet.                                         *)
(***************************************************************************)
EXTENDS ApiSession, TLAPS

-----------------------------------------------------------------------------
(* Signing in, locking and signing out, for any accounts and passwords.    *)
(* As long as no sign-in overlapped with another and every session ended   *)
(* in a logout, whatever the device and the page hold belongs to the       *)
(* account of the session: each way in first finds the slots empty, and    *)
(* each way out empties them.                                              *)

CONSTANTS Account, Password, MaxChange, None
VARIABLES srvPw, sess, ls, mem, fails, chk, auth, unl, out, pair, changes,
          ghost


Auth == INSTANCE ClientAuth

(* What the proof needs of the shape of the state.                         *)
AuthShape ==
  /\ {"user", "keys", "hqc", "locked", "temp", "dev", "shown"} \subseteq DOMAIN mem
  /\ {"mn", "pin", "wa", "hqc", "dev"} \subseteq DOMAIN ls
  /\ {"raced", "stale", "proved", "out"} \subseteq DOMAIN ghost
  /\ auth # Auth!Idle => {"st", "acc", "hqc", "dev"} \subseteq DOMAIN auth /\ auth.acc # None /\ auth.st # "idle"
  /\ unl # Auth!Idle => {"st", "temp", "of", "hqc", "dev"} \subseteq DOMAIN unl /\ unl.st # "idle"
  /\ pair # Auth!Idle => {"st", "acc"} \subseteq DOMAIN pair /\ pair.acc # None /\ pair.st # "idle"

(* The page before its status request is answered: nothing has begun.      *)
FreshPage ==
  /\ mem = Auth!EmptyMem /\ auth = Auth!Idle /\ unl = Auth!Idle /\ pair = Auth!Idle /\ ~out
  /\ sess # None => ls.mn.of = sess

(* Everything the device holds but the mnemonic and the HQC slot is of the *)
(* session's account.                                                      *)
HeldBySession ==
  /\ ls.pin \in {None, sess} /\ ls.wa \in {None, sess}
  /\ ls.dev.of \in {None, sess} /\ mem.dev \in {None, sess}

SignedIn == sess = mem.user /\ ls.mn.of = mem.user /\ (~mem.locked => mem.keys = mem.user)

LockedOut ==
  /\ mem.temp = sess /\ sess # None /\ ls.mn.of = sess
  /\ mem.user \in {None, sess} /\ mem.keys \in {None, sess}
  /\ mem.user = None => pair = Auth!Idle

(* The sign-in screen: what a session left is gone, and there is a new     *)
(* session only for a sign-in or a pairing that is under way.              *)
SignedOut ==
  /\ ~out /\ ls.pin = None /\ ls.wa = None /\ ls.dev.of = None /\ mem.dev = None
  /\ sess = None \/ auth.st = "seal" \/ pair # Auth!Idle

SigningIn ==
  /\ ~out
  /\ auth.st # "hydrate" => mem.user = None /\ ~mem.locked
  /\ auth.st \in {"seal", "hydrate"} => sess = auth.acc
  /\ auth.st = "hydrate" => mem.user = auth.acc /\ auth.dev \in {None, sess}

Unlocking ==
  /\ mem.locked /\ ~out /\ unl.temp = sess /\ unl.of = sess
  /\ unl.st = "hydrate" => unl.dev \in {None, sess} /\ mem.user = sess /\ mem.keys = sess

Owned ==
  /\ HeldBySession
  /\ chk => FreshPage
  /\ mem.user # None => SignedIn
  /\ mem.locked => LockedOut
  /\ mem.user = None /\ ~mem.locked /\ ~chk => SignedOut
  /\ auth # Auth!Idle => SigningIn
  /\ unl # Auth!Idle => Unlocking

Undisturbed == ~ghost.raced /\ ~ghost.stale
AuthInv == AuthShape /\ (Undisturbed => Owned)

(* A page on a device that has never been used.                            *)
LEMMA AuthInit ==
  ASSUME Auth!Init PROVE AuthInv
<1>2. AuthShape
  BY Zenon DEF Auth!Init, Auth!EmptyMem, AuthShape
<1>3. Owned
  BY Zenon DEF Auth!Init, Auth!EmptyMem, Auth!Empty, Owned, HeldBySession, FreshPage
<1> QED
  BY <1>2, <1>3, Zenon DEF AuthInv

(* Every step keeps the shape of the state.                                *)
LEMMA ShapeKept ==
  ASSUME Auth!NoneAssumption, AuthShape, [Auth!Next]_(Auth!vars)
  PROVE  AuthShape'
<1> USE DEF AuthShape
<1>1. CASE Auth!Reload
  BY <1>1, Zenon DEF Auth!Reload, Auth!Idle, Auth!EmptyMem
<1>2. CASE Auth!CheckAuth
  BY <1>2, Zenon DEF Auth!CheckAuth, Auth!Idle, Auth!EmptyMem
<1>3. CASE Auth!CreateVault
  BY <1>3 DEF Auth!CreateVault, Auth!Idle, Auth!EmptyMem
<1>4. CASE Auth!LoadVault
  BY <1>4 DEF Auth!LoadVault, Auth!Idle, Auth!EmptyMem
<1>5. CASE Auth!AuthAccepted
  BY <1>5 DEF Auth!AuthAccepted, Auth!Idle, Auth!EmptyMem
<1>6. CASE Auth!RegisteredOnly
  BY <1>6, Zenon DEF Auth!RegisteredOnly, Auth!Idle, Auth!EmptyMem
<1>7. CASE Auth!AuthSeals
  BY <1>7 DEF Auth!AuthSeals, Auth!Idle, Auth!EmptyMem
<1>8. CASE Auth!AuthRefused
  BY <1>8, Zenon DEF Auth!AuthRefused, Auth!Idle, Auth!EmptyMem
<1>9. CASE Auth!AuthFinish
  BY <1>9, Zenon DEF Auth!AuthFinish, Auth!Idle, Auth!EmptyMem
<1>10. CASE Auth!Lock
  BY <1>10, Zenon DEF Auth!Lock, Auth!Idle, Auth!EmptyMem
<1>11. CASE Auth!GuardExpires
  BY <1>11, Zenon DEF Auth!GuardExpires, Auth!Idle, Auth!EmptyMem
<1>12. CASE Auth!UnlockFails
  BY <1>12, Zenon DEF Auth!UnlockFails, Auth!Idle, Auth!EmptyMem
<1>13. CASE Auth!UnlockOpens
  BY <1>13 DEF Auth!UnlockOpens, Auth!Idle, Auth!EmptyMem
<1>14. CASE Auth!UnlockSets
  BY <1>14 DEF Auth!UnlockSets, Auth!Idle, Auth!EmptyMem
<1>15. CASE Auth!UnlockFinish
  BY <1>15, Zenon DEF Auth!UnlockFinish, Auth!Idle, Auth!EmptyMem
<1>16. CASE Auth!StartLogout
  BY <1>16, Zenon DEF Auth!StartLogout, Auth!Idle, Auth!EmptyMem
<1>17. CASE Auth!FinishLogout
  BY <1>17, Zenon DEF Auth!FinishLogout, Auth!Idle, Auth!EmptyMem
<1>18. CASE Auth!ShowKeys
  BY <1>18, Zenon DEF Auth!ShowKeys, Auth!Idle, Auth!EmptyMem
<1>19. CASE Auth!HideKeys
  BY <1>19, Zenon DEF Auth!HideKeys, Auth!Idle, Auth!EmptyMem
<1>20. CASE Auth!DeleteAccount
  BY <1>20, Zenon DEF Auth!DeleteAccount, Auth!Idle, Auth!EmptyMem
<1>21. CASE Auth!SessionEnds
  BY <1>21, Zenon DEF Auth!SessionEnds, Auth!Idle, Auth!EmptyMem
<1>22. CASE Auth!ApprovePairing
  BY <1>22 DEF Auth!ApprovePairing, Auth!Idle, Auth!EmptyMem
<1>23. CASE Auth!ConsumePairing
  BY <1>23 DEF Auth!ConsumePairing, Auth!Idle, Auth!EmptyMem
<1>24. CASE Auth!CompletePairing
  BY <1>24, Zenon DEF Auth!CompletePairing, Auth!Idle, Auth!EmptyMem
<1>25. CASE Auth!CancelPairing
  BY <1>25, Zenon DEF Auth!CancelPairing, Auth!Idle, Auth!EmptyMem
<1>26. ASSUME NEW a \in Account, NEW pw \in Password, NEW mode, Auth!SubmitAuth(mode, a, pw)
      PROVE AuthShape'
  BY <1>26, Zenon DEF Auth!SubmitAuth, Auth!Idle, Auth!NoneAssumption
<1>27. ASSUME NEW a \in Account, NEW pw \in Password, Auth!ImportRecovery(a, pw) PROVE AuthShape'
  BY <1>27, Zenon DEF Auth!ImportRecovery, Auth!Idle, Auth!NoneAssumption
<1>28. ASSUME NEW a \in Account, NEW pw \in Password, Auth!StartPairing(a, pw) PROVE AuthShape'
  BY <1>28, Zenon DEF Auth!StartPairing, Auth!Idle, Auth!NoneAssumption
<1>29. ASSUME NEW a \in Account, NEW pw \in Password, Auth!StartPairingFails(a, pw) PROVE AuthShape'
  BY <1>29, Zenon DEF Auth!StartPairingFails, Auth!Idle, Auth!NoneAssumption
<1>30. ASSUME NEW mode \in {"password", "pin", "wa"}, NEW pw, Auth!StartUnlock(mode, pw)
      PROVE AuthShape'
  BY <1>30, Zenon DEF Auth!StartUnlock, Auth!Idle, Auth!NoneAssumption
<1>31. ASSUME NEW pw, Auth!ChangePassword(pw) PROVE AuthShape'
  BY <1>31, Zenon DEF Auth!ChangePassword, Auth!Idle, Auth!NoneAssumption
<1>32. ASSUME NEW slot \in {"pin", "wa"}, Auth!SetUnlock(slot) PROVE AuthShape'
  BY <1>32, Zenon DEF Auth!SetUnlock, Auth!Idle, Auth!NoneAssumption
<1>33. ASSUME NEW slot \in {"pin", "wa"}, Auth!RemoveUnlock(slot) PROVE AuthShape'
  BY <1>33, Zenon DEF Auth!RemoveUnlock, Auth!Idle, Auth!NoneAssumption
<1>34. CASE UNCHANGED Auth!vars
  BY <1>34, Zenon DEF Auth!vars
<1> HIDE DEF AuthShape
<1> QED
  BY <1>1, <1>2, <1>3, <1>4, <1>5, <1>6, <1>7, <1>8, <1>9, <1>10, <1>11, <1>12, <1>13, <1>14,
     <1>15, <1>16, <1>17, <1>18, <1>19, <1>20, <1>21, <1>22, <1>23, <1>24, <1>25, <1>26, <1>27,
     <1>28, <1>29, <1>30, <1>31, <1>32, <1>33, <1>34 DEF Auth!Next

(* What has been disturbed stays so.                                       *)
LEMMA DisturbedStays ==
  ASSUME AuthShape, [Auth!Next]_(Auth!vars), Undisturbed' PROVE Undisturbed
<1> USE DEF AuthShape, Undisturbed
<1>1. CASE Auth!Reload
  BY <1>1, Zenon DEF Auth!Reload
<1>2. CASE Auth!CheckAuth
  BY <1>2, Zenon DEF Auth!CheckAuth
<1>3. CASE Auth!CreateVault
  BY <1>3, Zenon DEF Auth!CreateVault
<1>4. CASE Auth!LoadVault
  BY <1>4, Zenon DEF Auth!LoadVault
<1>5. CASE Auth!AuthAccepted
  BY <1>5, Zenon DEF Auth!AuthAccepted
<1>6. CASE Auth!RegisteredOnly
  BY <1>6, Zenon DEF Auth!RegisteredOnly
<1>7. CASE Auth!AuthSeals
  BY <1>7, Zenon DEF Auth!AuthSeals
<1>8. CASE Auth!AuthRefused
  BY <1>8, Zenon DEF Auth!AuthRefused
<1>9. CASE Auth!AuthFinish
  BY <1>9, Zenon DEF Auth!AuthFinish
<1>10. CASE Auth!Lock
  BY <1>10, Zenon DEF Auth!Lock
<1>11. CASE Auth!GuardExpires
  BY <1>11, Zenon DEF Auth!GuardExpires
<1>12. CASE Auth!UnlockFails
  BY <1>12, Zenon DEF Auth!UnlockFails
<1>13. CASE Auth!UnlockOpens
  BY <1>13, Zenon DEF Auth!UnlockOpens
<1>14. CASE Auth!UnlockSets
  BY <1>14, Zenon DEF Auth!UnlockSets
<1>15. CASE Auth!UnlockFinish
  BY <1>15, Zenon DEF Auth!UnlockFinish
<1>16. CASE Auth!StartLogout
  BY <1>16, Zenon DEF Auth!StartLogout
<1>17. CASE Auth!FinishLogout
  BY <1>17, Zenon DEF Auth!FinishLogout
<1>18. CASE Auth!ShowKeys
  BY <1>18, Zenon DEF Auth!ShowKeys
<1>19. CASE Auth!HideKeys
  BY <1>19, Zenon DEF Auth!HideKeys
<1>20. CASE Auth!DeleteAccount
  BY <1>20, Zenon DEF Auth!DeleteAccount
<1>21. CASE Auth!SessionEnds
  BY <1>21, Zenon DEF Auth!SessionEnds
<1>22. CASE Auth!ApprovePairing
  BY <1>22, Zenon DEF Auth!ApprovePairing
<1>23. CASE Auth!ConsumePairing
  BY <1>23, Zenon DEF Auth!ConsumePairing
<1>24. CASE Auth!CompletePairing
  BY <1>24, Zenon DEF Auth!CompletePairing
<1>25. CASE Auth!CancelPairing
  BY <1>25, Zenon DEF Auth!CancelPairing
<1>26. ASSUME NEW a \in Account, NEW pw \in Password, NEW mode, Auth!SubmitAuth(mode, a, pw)
      PROVE Undisturbed
  BY <1>26, Zenon DEF Auth!SubmitAuth
<1>27. ASSUME NEW a \in Account, NEW pw \in Password, Auth!ImportRecovery(a, pw) PROVE Undisturbed
  BY <1>27, Zenon DEF Auth!ImportRecovery
<1>28. ASSUME NEW a \in Account, NEW pw \in Password, Auth!StartPairing(a, pw) PROVE Undisturbed
  BY <1>28, Zenon DEF Auth!StartPairing
<1>29. ASSUME NEW a \in Account, NEW pw \in Password, Auth!StartPairingFails(a, pw)
      PROVE Undisturbed
  BY <1>29, Zenon DEF Auth!StartPairingFails
<1>30. ASSUME NEW mode \in {"password", "pin", "wa"}, NEW pw, Auth!StartUnlock(mode, pw)
      PROVE Undisturbed
  BY <1>30, Zenon DEF Auth!StartUnlock
<1>31. ASSUME NEW pw, Auth!ChangePassword(pw) PROVE Undisturbed
  BY <1>31, Zenon DEF Auth!ChangePassword
<1>32. ASSUME NEW slot \in {"pin", "wa"}, Auth!SetUnlock(slot) PROVE Undisturbed
  BY <1>32, Zenon DEF Auth!SetUnlock
<1>33. ASSUME NEW slot \in {"pin", "wa"}, Auth!RemoveUnlock(slot) PROVE Undisturbed
  BY <1>33, Zenon DEF Auth!RemoveUnlock
<1>34. CASE UNCHANGED Auth!vars
  BY <1>34, Zenon DEF Auth!vars
<1> HIDE DEF AuthShape, Undisturbed
<1> QED
  BY <1>1, <1>2, <1>3, <1>4, <1>5, <1>6, <1>7, <1>8, <1>9, <1>10, <1>11, <1>12, <1>13, <1>14,
     <1>15, <1>16, <1>17, <1>18, <1>19, <1>20, <1>21, <1>22, <1>23, <1>24, <1>25, <1>26, <1>27,
     <1>28, <1>29, <1>30, <1>31, <1>32, <1>33, <1>34 DEF Auth!Next

(* While nothing is disturbed, every step leaves what is held with the     *)
(* account of the session.                                                 *)
LEMMA OwnedKept ==
  ASSUME Auth!NoneAssumption, AuthShape, Undisturbed, Owned, Undisturbed', [Auth!Next]_(Auth!vars)
  PROVE  Owned'
<1> USE DEF AuthShape, Undisturbed, Owned, HeldBySession, FreshPage, SignedIn, LockedOut, SignedOut, SigningIn,
            Unlocking, Auth!Idle
<1>1. CASE Auth!Reload
  BY <1>1, Zenon
     DEF Auth!Reload, Auth!EmptyMem, Auth!Empty, Auth!Holds, Auth!Hydrated, Auth!OnMain,
         Auth!OnAuthScreen, Auth!OnUnlockScreen
<1>2. CASE Auth!CheckAuth
  <2>1. FreshPage /\ chk' = FALSE /\ UNCHANGED <<sess, ls, auth, unl, pair>>
    BY <1>2, Zenon DEF Auth!CheckAuth
  <2>2. CASE sess # None
    <3>1. mem' = [mem EXCEPT !.temp = sess, !.locked = TRUE] /\ UNCHANGED out
      BY <1>2, <2>1, <2>2 DEF Auth!CheckAuth, Auth!Holds, Auth!Empty
    <3> QED
      BY <2>1, <2>2, <3>1, Zenon DEF Auth!EmptyMem
  <2>3. CASE sess = None
    <3>1. mem' = mem /\ out' = FALSE
      BY <1>2, <2>1, <2>3, Zenon DEF Auth!CheckAuth
    <3> QED
      BY <2>1, <2>3, <3>1, Zenon DEF Auth!EmptyMem
  <2> QED
    BY <2>2, <2>3, Zenon
<1>3. CASE Auth!CreateVault
  BY <1>3
     DEF Auth!CreateVault, Auth!EmptyMem, Auth!Empty, Auth!Holds, Auth!Hydrated, Auth!OnMain,
         Auth!OnAuthScreen, Auth!OnUnlockScreen
<1>4. CASE Auth!LoadVault
  BY <1>4
     DEF Auth!LoadVault, Auth!EmptyMem, Auth!Empty, Auth!Holds, Auth!Hydrated, Auth!OnMain,
         Auth!OnAuthScreen, Auth!OnUnlockScreen
<1>5. CASE Auth!AuthAccepted
  BY <1>5
     DEF Auth!AuthAccepted, Auth!EmptyMem, Auth!Empty, Auth!Holds, Auth!Hydrated, Auth!OnMain,
         Auth!OnAuthScreen, Auth!OnUnlockScreen
<1>6. CASE Auth!RegisteredOnly
  BY <1>6, ZenonT(30)
     DEF Auth!RegisteredOnly, Auth!EmptyMem, Auth!Empty, Auth!Holds, Auth!Hydrated, Auth!OnMain,
         Auth!OnAuthScreen, Auth!OnUnlockScreen
<1>7. CASE Auth!AuthSeals
  BY <1>7
     DEF Auth!AuthSeals, Auth!EmptyMem, Auth!Empty, Auth!Holds, Auth!Hydrated, Auth!OnMain,
         Auth!OnAuthScreen, Auth!OnUnlockScreen
<1>8. CASE Auth!AuthRefused
  BY <1>8, ZenonT(30)
     DEF Auth!AuthRefused, Auth!EmptyMem, Auth!Empty, Auth!Holds, Auth!Hydrated, Auth!OnMain,
         Auth!OnAuthScreen, Auth!OnUnlockScreen
<1>9. CASE Auth!AuthFinish
  BY <1>9
     DEF Auth!AuthFinish, Auth!EmptyMem, Auth!Empty, Auth!Holds, Auth!Hydrated, Auth!OnMain,
         Auth!OnAuthScreen, Auth!OnUnlockScreen
<1>10. CASE Auth!Lock
  BY <1>10
     DEF Auth!Lock, Auth!EmptyMem, Auth!Empty, Auth!Holds, Auth!Hydrated, Auth!OnMain,
         Auth!OnAuthScreen, Auth!OnUnlockScreen
<1>11. CASE Auth!GuardExpires
  BY <1>11
     DEF Auth!GuardExpires, Auth!EmptyMem, Auth!Empty, Auth!Holds, Auth!Hydrated, Auth!OnMain,
         Auth!OnAuthScreen, Auth!OnUnlockScreen
<1>12. CASE Auth!UnlockFails
  BY <1>12
     DEF Auth!UnlockFails, Auth!EmptyMem, Auth!Empty, Auth!Holds, Auth!Hydrated, Auth!OnMain,
         Auth!OnAuthScreen, Auth!OnUnlockScreen
<1>13. CASE Auth!UnlockOpens
  BY <1>13
     DEF Auth!UnlockOpens, Auth!EmptyMem, Auth!Empty, Auth!Holds, Auth!Hydrated, Auth!OnMain,
         Auth!OnAuthScreen, Auth!OnUnlockScreen
<1>14. CASE Auth!UnlockSets
  BY <1>14
     DEF Auth!UnlockSets, Auth!EmptyMem, Auth!Empty, Auth!Holds, Auth!Hydrated, Auth!OnMain,
         Auth!OnAuthScreen, Auth!OnUnlockScreen
<1>15. CASE Auth!UnlockFinish
  BY <1>15
     DEF Auth!UnlockFinish, Auth!EmptyMem, Auth!Empty, Auth!Holds, Auth!Hydrated, Auth!OnMain,
         Auth!OnAuthScreen, Auth!OnUnlockScreen
<1>16. CASE Auth!StartLogout
  <2>1. auth = Auth!Idle /\ unl = Auth!Idle
    BY <1>16, Zenon DEF Auth!StartLogout
  <2>2. mem.locked \/ mem.user # None
    BY <1>16, Zenon DEF Auth!StartLogout, Auth!OnMain, Auth!OnUnlockScreen
  <2>3. ~chk
    BY <2>2 DEF Auth!EmptyMem
  <2>4. UNCHANGED <<sess, ls, mem, chk, auth, unl, pair>>
    BY <1>16, Zenon DEF Auth!StartLogout
  <2> QED
    BY <2>1, <2>2, <2>3, <2>4, Zenon
<1>17. CASE Auth!FinishLogout
  BY <1>17, Zenon
     DEF Auth!FinishLogout, Auth!EmptyMem, Auth!Empty, Auth!Holds, Auth!Hydrated, Auth!OnMain,
         Auth!OnAuthScreen, Auth!OnUnlockScreen
<1>18. CASE Auth!ShowKeys
  BY <1>18
     DEF Auth!ShowKeys, Auth!EmptyMem, Auth!Empty, Auth!Holds, Auth!Hydrated, Auth!OnMain,
         Auth!OnAuthScreen, Auth!OnUnlockScreen
<1>19. CASE Auth!HideKeys
  BY <1>19
     DEF Auth!HideKeys, Auth!EmptyMem, Auth!Empty, Auth!Holds, Auth!Hydrated, Auth!OnMain,
         Auth!OnAuthScreen, Auth!OnUnlockScreen
<1>20. CASE Auth!DeleteAccount
  BY <1>20, Zenon
     DEF Auth!DeleteAccount, Auth!EmptyMem, Auth!Empty, Auth!Holds, Auth!Hydrated, Auth!OnMain,
         Auth!OnAuthScreen, Auth!OnUnlockScreen
<1>21. CASE Auth!SessionEnds
  BY <1>21, Zenon
     DEF Auth!SessionEnds, Auth!EmptyMem, Auth!Empty, Auth!Holds, Auth!Hydrated, Auth!OnMain,
         Auth!OnAuthScreen, Auth!OnUnlockScreen
<1>22. CASE Auth!ApprovePairing
  BY <1>22
     DEF Auth!ApprovePairing, Auth!EmptyMem, Auth!Empty, Auth!Holds, Auth!Hydrated, Auth!OnMain,
         Auth!OnAuthScreen, Auth!OnUnlockScreen
<1>23. CASE Auth!ConsumePairing
  BY <1>23
     DEF Auth!ConsumePairing, Auth!EmptyMem, Auth!Empty, Auth!Holds, Auth!Hydrated, Auth!OnMain,
         Auth!OnAuthScreen, Auth!OnUnlockScreen
<1>24. CASE Auth!CompletePairing
  <2>1. auth = Auth!Idle /\ unl = Auth!Idle /\ ~out /\ mem.user = None /\ sess = pair.acc
    BY <1>24, Zenon DEF Auth!CompletePairing
  <2>2. pair # Auth!Idle /\ pair' = Auth!Idle /\ UNCHANGED <<sess, chk, auth, unl, out>>
    BY <1>24 DEF Auth!CompletePairing
  <2>3. ~chk /\ ~mem.locked
    BY <2>1, <2>2, Zenon
  <2>4. /\ mem'.user = sess /\ mem'.keys = sess /\ mem'.dev = sess /\ mem'.locked = mem.locked
        /\ ls'.mn.of = sess /\ ls'.dev.of = sess /\ ls'.pin = ls.pin /\ ls'.wa = ls.wa
    BY <1>24, <2>1, Zenon DEF Auth!CompletePairing
  <2> QED
    BY <2>1, <2>2, <2>3, <2>4, Zenon
<1>25. CASE Auth!CancelPairing
  BY <1>25, Zenon
     DEF Auth!CancelPairing, Auth!EmptyMem, Auth!Empty, Auth!Holds, Auth!Hydrated, Auth!OnMain,
         Auth!OnAuthScreen, Auth!OnUnlockScreen
<1>26. ASSUME NEW a \in Account, NEW pw \in Password, NEW mode, Auth!SubmitAuth(mode, a, pw)
      PROVE Owned'
  BY <1>26, Zenon
     DEF Auth!SubmitAuth, Auth!NoneAssumption, Auth!Empty, Auth!Holds, Auth!OnMain,
         Auth!OnAuthScreen, Auth!OnUnlockScreen
<1>27. ASSUME NEW a \in Account, NEW pw \in Password, Auth!ImportRecovery(a, pw) PROVE Owned'
  BY <1>27, Zenon
     DEF Auth!ImportRecovery, Auth!NoneAssumption, Auth!Empty, Auth!Holds, Auth!OnMain,
         Auth!OnAuthScreen, Auth!OnUnlockScreen
<1>28. ASSUME NEW a \in Account, NEW pw \in Password, Auth!StartPairing(a, pw) PROVE Owned'
  BY <1>28, ZenonT(30)
     DEF Auth!StartPairing, Auth!NoneAssumption, Auth!Empty, Auth!Holds, Auth!OnMain,
         Auth!OnAuthScreen, Auth!OnUnlockScreen
<1>29. ASSUME NEW a \in Account, NEW pw \in Password, Auth!StartPairingFails(a, pw) PROVE Owned'
  BY <1>29, Zenon
     DEF Auth!StartPairingFails, Auth!NoneAssumption, Auth!Empty, Auth!Holds, Auth!OnMain,
         Auth!OnAuthScreen, Auth!OnUnlockScreen
<1>30. ASSUME NEW mode \in {"password", "pin", "wa"}, NEW pw, Auth!StartUnlock(mode, pw)
      PROVE Owned'
  <2>1. ~out /\ mem.locked /\ LockedOut
    BY <1>30, ZenonT(30) DEF Auth!StartUnlock, Auth!OnUnlockScreen
  <2>2. unl'.st = "decrypt" /\ unl'.temp = sess /\ UNCHANGED <<sess, ls, mem, chk, auth, out, pair>>
    BY <1>30, <2>1, Zenon DEF Auth!StartUnlock
  <2>3. unl'.of = sess
    BY <1>30, <2>1, Zenon DEF Auth!StartUnlock
  <2>4. ~chk
    BY <2>1 DEF Auth!EmptyMem
  <2>5. Unlocking'
    BY <2>1, <2>2, <2>3, Zenon
  <2> HIDE DEF Unlocking, SigningIn
  <2>6. auth' # Auth!Idle => SigningIn'
    BY <2>2, Zenon DEF SigningIn
  <2> QED
    BY <2>1, <2>2, <2>4, <2>5, <2>6, ZenonT(30)
<1>31. ASSUME NEW pw, Auth!ChangePassword(pw) PROVE Owned'
  BY <1>31, Zenon
     DEF Auth!ChangePassword, Auth!NoneAssumption, Auth!Empty, Auth!Holds, Auth!OnMain,
         Auth!OnAuthScreen, Auth!OnUnlockScreen
<1>32. ASSUME NEW slot \in {"pin", "wa"}, Auth!SetUnlock(slot) PROVE Owned'
  BY <1>32, Zenon
     DEF Auth!SetUnlock, Auth!NoneAssumption, Auth!Empty, Auth!Holds, Auth!OnMain,
         Auth!OnAuthScreen, Auth!OnUnlockScreen
<1>33. ASSUME NEW slot \in {"pin", "wa"}, Auth!RemoveUnlock(slot) PROVE Owned'
  BY <1>33, Zenon
     DEF Auth!RemoveUnlock, Auth!NoneAssumption, Auth!Empty, Auth!Holds, Auth!OnMain,
         Auth!OnAuthScreen, Auth!OnUnlockScreen
<1>34. CASE UNCHANGED Auth!vars
  BY <1>34, ZenonT(30) DEF Auth!vars
<1> HIDE DEF Owned, AuthShape, Undisturbed
<1> QED
  BY <1>1, <1>2, <1>3, <1>4, <1>5, <1>6, <1>7, <1>8, <1>9, <1>10, <1>11, <1>12, <1>13, <1>14,
     <1>15, <1>16, <1>17, <1>18, <1>19, <1>20, <1>21, <1>22, <1>23, <1>24, <1>25, <1>26, <1>27,
     <1>28, <1>29, <1>30, <1>31, <1>32, <1>33, <1>34 DEF Auth!Next

(* For any accounts and passwords, and through every lock, unlock, logout, *)
(* pairing, reload and change of account: where sign-ins did not overlap   *)
(* and every session ended in a logout, the keys and the device key in the *)
(* page are those of its account, and a locked page has the sealed         *)
(* mnemonic of the account it will unlock (useGaiaAuth.js).                *)
THEOREM AuthKeysOfUser ==
  ASSUME Auth!NoneAssumption
  PROVE  Auth!Spec => [](Auth!KeysOfUser /\ Auth!DeviceKeyOfUser /\ Auth!LockRecoverable)
<1>1. Auth!Init => AuthInv
  BY AuthInit, Zenon
<1>2. AuthInv /\ [Auth!Next]_(Auth!vars) => AuthInv'
  BY ShapeKept, DisturbedStays, OwnedKept, Zenon DEF AuthInv
<1>3. AuthInv => Auth!KeysOfUser /\ Auth!DeviceKeyOfUser /\ Auth!LockRecoverable
  BY Zenon DEF AuthInv, Undisturbed, Owned, HeldBySession, SignedIn, LockedOut, Auth!KeysOfUser,
     Auth!DeviceKeyOfUser, Auth!LockRecoverable
<1> QED
  BY <1>1, <1>2, <1>3, PTL DEF Auth!Spec

-----------------------------------------------------------------------------
(* The session of a page, for any number of calls and sessions.            *)

(* The states of a call in which the node has not carried it out.          *)
Untouched == {"idle", "sent", "unauth", "wait"}

(* A call that may still be carried out has not been.                      *)
Counted ==
  /\ executed \in [Call -> Nat]
  /\ DOMAIN req = Call
  /\ \A c \in Call : executed[c] <= 1 /\ (req[c].st \in Untouched => executed[c] = 0)

(* No call has been carried out on a page just loaded.                     *)
LEMMA SessionCountedInit == Init => Counted
  BY DEF Init, Counted, Untouched

(* Serving a request carries it out for the first time, and no step sends  *)
(* again what was carried out.                                             *)
LEMMA SessionCountedNext == Counted /\ [Next]_(vars) => Counted'
<1> SUFFICES ASSUME Counted, [Next]_(vars) PROVE Counted'
  BY Zenon
<1> USE DEF Counted, Untouched
<1>1. ASSUME NEW c \in Call, Start(c) PROVE Counted'
  BY <1>1, Zenon DEF Start
<1>2. ASSUME NEW c \in Call, Serve(c) PROVE Counted'
  <2>1. CASE Valid(req[c].tok)
    <3>1. PICK st \in {"ok", "lost"} : req' = [req EXCEPT ![c].st = st]
      BY <1>2, <2>1, Zenon DEF Serve
    <3>2. executed' = [executed EXCEPT ![c] = @ + 1] /\ req[c].st = "sent"
      BY <1>2, <2>1, Zenon DEF Serve
    <3> QED
      BY <3>1, <3>2
  <2>2. CASE ~Valid(req[c].tok)
    BY <1>2, <2>2, Zenon DEF Serve
  <2> QED
    BY <2>1, <2>2, Zenon
<1>3. ASSUME NEW c \in Call, LoseRequest(c) PROVE Counted'
  BY <1>3, Zenon DEF LoseRequest
<1>4. ASSUME NEW c \in Call, Answered(c) PROVE Counted'
  <2>1. executed' = executed
    BY <1>4, Zenon DEF Answered, ReturnOk, ReturnLost, ReturnUnauth, ReturnDenied
  <2>2. \/ \E st \in {"done", "failed"} : req' = [req EXCEPT ![c].st = st]
        \/ req[c].st = "unauth" /\ req' = [req EXCEPT ![c].st = "wait"]
    BY <1>4, Zenon DEF Answered, ReturnOk, ReturnLost, ReturnUnauth, ReturnDenied
  <2>3. ASSUME NEW st \in {"done", "failed"}, req' = [req EXCEPT ![c].st = st] PROVE Counted'
    BY <2>1, <2>3
  <2>4. ASSUME req[c].st = "unauth", req' = [req EXCEPT ![c].st = "wait"] PROVE Counted'
    BY <2>1, <2>4, Zenon
  <2> QED
    BY <2>2, <2>3, <2>4, Zenon
<1>5. CASE RefreshReturnOk
  BY <1>5, Zenon DEF RefreshReturnOk, Resend, Waiting
<1>6. CASE RefreshReturnBad
  <2>1. executed' = executed
    BY <1>6, Zenon DEF RefreshReturnBad
  <2>2. req' = [c \in Call |-> IF c \in Waiting THEN [req[c] EXCEPT !.st = "failed"] ELSE req[c]]
    BY <1>6, Zenon DEF RefreshReturnBad
  <2>3. \A c \in Call : req'[c].st \in Untouched => req[c].st \in Untouched
    BY <2>2, Zenon DEF Waiting
  <2> QED
    BY <2>1, <2>2, <2>3, Zenon
<1>7. CASE executed' = executed /\ req' = req
  BY <1>7, Zenon
<1>8. (RefreshServe \/ LoseRefresh \/ LoginStart \/ LoginServe
        \/ LoginReturn \/ (\E s \in Session : Expire(s) \/ RemoteRevoke(s)))
      => executed' = executed /\ req' = req
  BY Zenon DEF RefreshServe, LoseRefresh, LoginStart, LoginServe, LoginReturn,
         Expire, RemoteRevoke
<1>9. UNCHANGED vars => executed' = executed /\ req' = req
  BY Zenon DEF vars
<1> QED
  BY <1>1, <1>2, <1>3, <1>4, <1>5, <1>6, <1>7, <1>8, <1>9, Zenon DEF Next

(* However calls, rotations, logins and lost answers overlap, the node     *)
(* carries out every call at most once, the second attempt after a         *)
(* rotation included (apiFetch of api.js).                                 *)
THEOREM SessionAtMostOnce == Spec => []AtMostOnce
<1>1. Counted => AtMostOnce
  BY Zenon DEF Counted, AtMostOnce
<1> QED
  BY SessionCountedInit, SessionCountedNext, <1>1, PTL DEF Spec


(* What the proofs need of the session's state: tokens of generations that *)
(* have no bound, and sessions that are made one after the other.          *)
Tokens == {NoToken} \cup (Session \X Nat)

SessionTypes ==
  /\ tok \in [acc : Tokens, ref : Tokens]
  /\ user \in BOOLEAN
  /\ req \in [Call -> [st : {"idle", "sent", "ok", "unauth", "lost", "wait", "done", "failed"},
                       try : 1..2, tok : Tokens]]
  /\ refresh \in [st : {"none", "sent", "ok", "rejected", "lost"}, tok : Tokens]
  /\ login \in [st : {"none", "sent", "ok", "lost"}, tok : Tokens]
  /\ srv \in [Session -> [made : BOOLEAN, active : BOOLEAN, gen : Nat]]
  /\ ended \in [Session -> {"no", "logout", "replay", "remote"}]

(* A session is active from its making until somebody ends it.             *)
Alive ==
  \A s \in Session : /\ srv[s].active <=> srv[s].made /\ ended[s] = "no"
                     /\ ~srv[s].made => ended[s] = "no"

SessionInv == SessionTypes /\ Alive

(* A page just loaded has no session, or in a browser that of its cookies. *)
LEMMA SessionInitInv == ASSUME CallAssumption PROVE Init => SessionInv
<1> SUFFICES ASSUME Init PROVE SessionInv
  BY Zenon
<1>0. MaxSession \in Nat \ {0} /\ 1 \in Session
  BY DEF CallAssumption, Session
<1>1. PICK old \in BOOLEAN :
        /\ tok = IF old THEN [acc |-> <<1, 0>>, ref |-> <<1, 0>>] ELSE NoTokens
        /\ srv = [s \in Session |-> [made |-> old /\ s = 1, active |-> old /\ s = 1, gen |-> 0]]
  BY Zenon DEF Init
<1>2. /\ user = FALSE /\ refresh = [st |-> "none", tok |-> NoToken]
      /\ login = [st |-> "none", tok |-> NoToken]
      /\ req = [c \in Call |-> [st |-> "idle", try |-> 1, tok |-> NoToken]]
      /\ ended = [s \in Session |-> "no"]
  BY Zenon DEF Init, NoRefresh, NoLogin
<1>3. SessionTypes
  <2>1. <<1, 0>> \in Tokens /\ NoToken \in Tokens
    BY <1>0, Zenon DEF Tokens
  <2>2. tok \in [acc : Tokens, ref : Tokens]
    BY <1>1, <2>1, Zenon DEF NoTokens
  <2>3. \A s \in Session : (old /\ s = 1) \in BOOLEAN
    BY Zenon
  <2>4. srv \in [Session -> [made : BOOLEAN, active : BOOLEAN, gen : Nat]]
    BY <1>1, <2>3, Zenon
  <2>5. req \in [Call -> [st : {"idle", "sent", "ok", "unauth", "lost", "wait", "done", "failed"},
                          try : 1..2, tok : Tokens]]
    BY <1>2, <2>1
  <2> QED
    BY <1>2, <2>1, <2>2, <2>4, <2>5, Zenon DEF SessionTypes
<1>4. Alive
  BY <1>1, <1>2, Zenon DEF Alive
<1> QED
  BY <1>3, <1>4, Zenon DEF SessionInv


(* Ending an active session leaves the other sessions alone.               *)
LEMMA SessionRevoked ==
  ASSUME SessionInv, NEW s \in Session, srv[s].active,
         NEW why \in {"logout", "replay", "remote"}, Revoke(s, why)
  PROVE  /\ srv' \in [Session -> [made : BOOLEAN, active : BOOLEAN, gen : Nat]]
         /\ ended' \in [Session -> {"no", "logout", "replay", "remote"}]
         /\ Alive'
         /\ \A r \in Session : /\ srv'[r].made = srv[r].made /\ srv'[r].gen = srv[r].gen
                               /\ srv'[r].active => srv[r].active
<1>1. srv' = [srv EXCEPT ![s].active = FALSE] /\ ended' = [ended EXCEPT ![s] = why]
  BY Zenon DEF Revoke
<1>2. srv \in [Session -> [made : BOOLEAN, active : BOOLEAN, gen : Nat]]
      /\ ended \in [Session -> {"no", "logout", "replay", "remote"}]
  BY Zenon DEF SessionInv, SessionTypes
<1>3. \A r \in Session :
        /\ srv'[r].made = srv[r].made /\ srv'[r].gen = srv[r].gen
        /\ r # s => srv'[r].active = srv[r].active /\ ended'[r] = ended[r]
        /\ srv'[s].active = FALSE /\ ended'[s] = why
  BY <1>1, <1>2, Zenon
<1>4. Alive'
  BY <1>3, Zenon DEF SessionInv, Alive
<1>5. srv' \in [Session -> [made : BOOLEAN, active : BOOLEAN, gen : Nat]]
  BY <1>1, <1>2, Zenon
<1>6. ended' \in [Session -> {"no", "logout", "replay", "remote"}]
  BY <1>1, <1>2, Zenon
<1> QED
  BY <1>3, <1>4, <1>5, <1>6, Zenon

(* What a step of a call leaves of the invariant.                          *)
LEMMA SessionCalls ==
  ASSUME CallAssumption, SessionInv, NEW c \in Call,
         Start(c) \/ Serve(c) \/ LoseRequest(c) \/ Answered(c)
  PROVE  SessionInv'
<1> DEFINE Rows == [st : {"idle", "sent", "ok", "unauth", "lost", "wait", "done", "failed"},
                    try : 1..2, tok : Tokens]
<1>0. req \in [Call -> Rows] /\ tok \in [acc : Tokens, ref : Tokens] /\ user \in BOOLEAN
      /\ NoToken \in Tokens /\ login' = login
  BY Zenon DEF SessionInv, SessionTypes, Tokens, Start, Serve, LoseRequest, Answered,
         ReturnOk, ReturnLost, ReturnUnauth, ReturnDenied
<1>1. req' \in [Call -> Rows]
  <2>1. CASE Start(c)
    BY <1>0, <2>1 DEF Start
  <2>2. CASE ~Start(c)
    <3>1. \E st \in {"ok", "unauth", "lost", "wait", "done", "failed"} :
            req' = [req EXCEPT ![c].st = st]
      BY <2>2, Zenon DEF Serve, LoseRequest, Answered, ReturnOk, ReturnLost,
                  ReturnUnauth, ReturnDenied
    <3> QED
      BY <1>0, <3>1
  <2> QED
    BY <2>1, <2>2, Zenon
<1>2. tok' \in [acc : Tokens, ref : Tokens]
  <2>1. tok' = tok \/ tok' = NoTokens
    BY Zenon DEF Start, Serve, LoseRequest, Answered, ReturnOk, ReturnLost,
           ReturnUnauth, ReturnDenied, AfterFailure
  <2> QED
    BY <1>0, <2>1 DEF NoTokens
<1>3. user' \in BOOLEAN
  BY <1>0, Zenon DEF Start, Serve, LoseRequest, Answered, ReturnOk, ReturnLost,
         ReturnUnauth, ReturnDenied, AfterFailure
<1>4. refresh' \in [st : {"none", "sent", "ok", "rejected", "lost"}, tok : Tokens]
  <2>1. refresh' = refresh \/ refresh' = [st |-> "sent", tok |-> tok.ref]
    BY Zenon DEF Start, Serve, LoseRequest, Answered, ReturnOk, ReturnLost,
           ReturnUnauth, ReturnDenied
  <2> QED
    BY <1>0, <2>1 DEF SessionInv, SessionTypes
<1>5. CASE srv' = srv /\ ended' = ended
  <2>1. SessionTypes'
    BY <1>0, <1>1, <1>2, <1>3, <1>4, <1>5, Zenon DEF SessionInv, SessionTypes
  <2>2. Alive'
    BY <1>0, <1>5, Zenon DEF SessionInv, Alive
  <2> QED
    BY <2>1, <2>2, Zenon DEF SessionInv
<1>6. CASE Valid(req[c].tok) /\ Revoke(req[c].tok[1], "logout")
  <2>1. req[c].tok[1] \in Session /\ srv[req[c].tok[1]].active
    BY <1>0, <1>6, Zenon DEF Valid, Tokens
  <2>2. /\ srv' \in [Session -> [made : BOOLEAN, active : BOOLEAN, gen : Nat]]
        /\ ended' \in [Session -> {"no", "logout", "replay", "remote"}]
        /\ Alive'
    BY <1>6, <2>1, SessionRevoked, Zenon
  <2>3. SessionTypes'
    BY <1>0, <1>1, <1>2, <1>3, <1>4, <2>2, Zenon DEF SessionInv, SessionTypes
  <2> QED
    BY <2>2, <2>3, Zenon DEF SessionInv
<1> QED
  BY <1>5, <1>6, Zenon DEF Start, Serve, LoseRequest, Answered, ReturnOk,
                    ReturnLost, ReturnUnauth, ReturnDenied

(* What the rotation leaves of the invariant.                              *)
LEMMA SessionRotation ==
  ASSUME CallAssumption, SessionInv,
         RefreshServe \/ LoseRefresh \/ RefreshReturnOk \/ RefreshReturnBad
  PROVE  SessionInv'
<1>0. /\ refresh \in [st : {"none", "sent", "ok", "rejected", "lost"}, tok : Tokens]
      /\ srv \in [Session -> [made : BOOLEAN, active : BOOLEAN, gen : Nat]]
      /\ NoToken \in Tokens /\ login' = login
  BY Zenon DEF SessionInv, SessionTypes, Tokens, RefreshServe, LoseRefresh,
         RefreshReturnOk, RefreshReturnBad
<1>1. CASE RefreshServe
  <2> DEFINE s == refresh.tok[1]
  <2>0. /\ tok' = tok /\ user' = user /\ req' = req
        /\ (refresh.tok # NoToken => s \in Session)
    BY <1>0, <1>1, Zenon DEF RefreshServe, Tokens
  <2>1. CASE refresh' = [refresh EXCEPT !.st = "rejected"] /\ srv' = srv /\ ended' = ended
    <3>1. SessionTypes'
      BY <1>0, <2>0, <2>1, Zenon DEF SessionInv, SessionTypes
    <3> QED
      BY <1>0, <2>1, <3>1, Zenon DEF SessionInv, Alive
  <2>2. CASE /\ refresh.tok # NoToken /\ srv[s].active
             /\ refresh' = [refresh EXCEPT !.st = "rejected"] /\ Revoke(s, "replay")
    <3>1. /\ srv' \in [Session -> [made : BOOLEAN, active : BOOLEAN, gen : Nat]]
          /\ ended' \in [Session -> {"no", "logout", "replay", "remote"}]
          /\ Alive'
      BY <2>0, <2>2, SessionRevoked, Zenon
    <3>2. SessionTypes'
      BY <1>0, <2>0, <2>2, <3>1, Zenon DEF SessionInv, SessionTypes
    <3> QED
      BY <3>1, <3>2, Zenon DEF SessionInv
  <2>3. CASE /\ refresh.tok # NoToken /\ srv' = [srv EXCEPT ![s].gen = @ + 1] /\ ended' = ended
             /\ \E st \in {"ok", "lost"} : refresh' = [st |-> st, tok |-> <<s, srv[s].gen + 1>>]
    <3>1. s \in Session /\ <<s, srv[s].gen + 1>> \in Tokens
      BY <1>0, <2>0, <2>3 DEF Tokens
    <3>2. /\ srv' \in [Session -> [made : BOOLEAN, active : BOOLEAN, gen : Nat]]
          /\ \A r \in Session : srv'[r].made = srv[r].made /\ srv'[r].active = srv[r].active
      BY <1>0, <2>3, <3>1
    <3>3. refresh' \in [st : {"none", "sent", "ok", "rejected", "lost"}, tok : Tokens]
      BY <2>3, <3>1
    <3>4. SessionTypes'
      BY <1>0, <2>0, <2>3, <3>2, <3>3, Zenon DEF SessionInv, SessionTypes
    <3>5. Alive'
      BY <2>3, <3>2 DEF SessionInv, Alive
    <3> QED
      BY <3>4, <3>5, Zenon DEF SessionInv
  <2> QED
    BY <1>1, <2>1, <2>2, <2>3, Zenon DEF RefreshServe
<1>2. CASE LoseRefresh
  <2>1. SessionTypes'
    BY <1>0, <1>2, Zenon DEF LoseRefresh, SessionInv, SessionTypes
  <2> QED
    BY <1>2, <2>1, Zenon DEF LoseRefresh, SessionInv, Alive
<1>3. CASE RefreshReturnOk
  <2>1. req' \in [Call -> [st : {"idle", "sent", "ok", "unauth", "lost", "wait", "done", "failed"},
                           try : 1..2, tok : Tokens]]
    BY <1>0, <1>3 DEF RefreshReturnOk, Resend, SessionInv, SessionTypes
  <2>2. SessionTypes'
    BY <1>0, <1>3, <2>1, Zenon DEF RefreshReturnOk, SessionInv, SessionTypes, NoRefresh
  <2> QED
    BY <1>3, <2>2, Zenon DEF RefreshReturnOk, SessionInv, Alive
<1>4. CASE RefreshReturnBad
  <2>1. req' \in [Call -> [st : {"idle", "sent", "ok", "unauth", "lost", "wait", "done", "failed"},
                           try : 1..2, tok : Tokens]]
    BY <1>4 DEF RefreshReturnBad, SessionInv, SessionTypes
  <2>2. tok' = tok \/ tok' = NoTokens
    BY <1>4, Zenon DEF RefreshReturnBad, AfterFailure
  <2>3. tok' \in [acc : Tokens, ref : Tokens]
    BY <1>0, <2>2 DEF NoTokens, SessionInv, SessionTypes
  <2>4. user' \in BOOLEAN
    BY <1>4, Zenon DEF RefreshReturnBad, AfterFailure
  <2>5. refresh' = [st |-> "none", tok |-> NoToken] /\ srv' = srv /\ ended' = ended
    BY <1>4, Zenon DEF RefreshReturnBad, NoRefresh
  <2>6. SessionTypes'
    BY <1>0, <2>1, <2>3, <2>4, <2>5, Zenon DEF SessionInv, SessionTypes
  <2> QED
    BY <1>0, <2>5, <2>6, Zenon DEF SessionInv, Alive
<1> QED
  BY <1>1, <1>2, <1>3, <1>4, Zenon


(* What logins and other devices leave of the invariant.                   *)
LEMMA SessionLogins ==
  ASSUME CallAssumption, SessionInv,
         \/ LoginStart \/ LoginServe \/ LoginReturn
         \/ \E s \in Session : Expire(s) \/ RemoteRevoke(s)
  PROVE  SessionInv'
<1>0. /\ login \in [st : {"none", "sent", "ok", "lost"}, tok : Tokens]
      /\ srv \in [Session -> [made : BOOLEAN, active : BOOLEAN, gen : Nat]]
      /\ ended \in [Session -> {"no", "logout", "replay", "remote"}]
      /\ NoToken \in Tokens /\ MaxSession \in Nat
  BY Zenon DEF SessionInv, SessionTypes, Tokens, CallAssumption
<1>1. CASE LoginStart
  <2>1. SessionTypes'
    BY <1>0, <1>1, Zenon DEF LoginStart, SessionInv, SessionTypes
  <2> QED
    BY <1>1, <2>1, Zenon DEF LoginStart, SessionInv, Alive
<1>2. CASE LoginServe
  <2>1. PICK s \in Session \ Made :
          /\ srv' = [srv EXCEPT ![s] = [made |-> TRUE, active |-> TRUE, gen |-> 0]]
          /\ \E st \in {"ok", "lost"} : login' = [st |-> st, tok |-> <<s, 0>>]
    BY <1>2, Zenon DEF LoginServe
  <2>2. s \in Session /\ ~srv[s].made /\ UNCHANGED <<tok, user, req, refresh, ended>>
    BY <1>2, Zenon DEF LoginServe, Made
  <2>3. /\ srv' \in [Session -> [made : BOOLEAN, active : BOOLEAN, gen : Nat]]
        /\ \A r \in Session \ {s} : srv'[r] = srv[r]
        /\ srv'[s] = [made |-> TRUE, active |-> TRUE, gen |-> 0]
    BY <1>0, <2>2, <2>1, Zenon
  <2>4. SessionTypes'
    <3>1. login' \in [st : {"none", "sent", "ok", "lost"}, tok : Tokens]
      BY <2>2, <2>1 DEF Tokens
    <3> QED
      BY <2>2, <2>3, <3>1, Zenon DEF SessionInv, SessionTypes
  <2>5. Alive'
    <3>1. ended[s] = "no"
      BY <2>2, Zenon DEF SessionInv, Alive
    <3> QED
      BY <2>2, <2>3, <3>1 DEF SessionInv, Alive
  <2> QED
    BY <2>4, <2>5, Zenon DEF SessionInv
<1>3. CASE LoginReturn
  <2>1. SessionTypes'
    <3>0. tok \in [acc : Tokens, ref : Tokens] /\ user \in BOOLEAN
      BY Zenon DEF SessionInv, SessionTypes
    <3>1. tok' \in [acc : Tokens, ref : Tokens] /\ user' \in BOOLEAN
      <4>1. CASE login.st = "ok"
        BY <1>0, <1>3, <4>1 DEF LoginReturn
      <4>2. CASE login.st # "ok"
        BY <1>3, <3>0, <4>2, Zenon DEF LoginReturn
      <4> QED
        BY <4>1, <4>2, Zenon
    <3>2. login' = [st |-> "none", tok |-> NoToken]
          /\ UNCHANGED <<req, refresh, srv, ended>>
      BY <1>3, Zenon DEF LoginReturn, NoLogin
    <3> QED
      BY <1>0, <3>1, <3>2, Zenon DEF SessionInv, SessionTypes
  <2> QED
    BY <1>3, <2>1, Zenon DEF LoginReturn, SessionInv, Alive
<1>4. ASSUME NEW s \in Session, Expire(s) PROVE SessionInv'
  BY <1>4, Zenon DEF Expire, SessionInv, SessionTypes, Alive
<1>5. ASSUME NEW s \in Session, RemoteRevoke(s) PROVE SessionInv'
  <2>1. /\ srv' \in [Session -> [made : BOOLEAN, active : BOOLEAN, gen : Nat]]
        /\ ended' \in [Session -> {"no", "logout", "replay", "remote"}]
        /\ Alive'
    BY <1>5, SessionRevoked, Zenon DEF RemoteRevoke
  <2>2. SessionTypes'
    BY <1>5, <2>1, Zenon DEF RemoteRevoke, SessionInv, SessionTypes
  <2> QED
    BY <2>1, <2>2, Zenon DEF SessionInv
<1> QED
  BY <1>1, <1>2, <1>3, <1>4, <1>5, Zenon

(* Every step keeps the invariant.                                         *)
LEMMA SessionNextInv ==
  ASSUME CallAssumption PROVE SessionInv /\ [Next]_(vars) => SessionInv'
<1> SUFFICES ASSUME SessionInv, [Next]_(vars) PROVE SessionInv'
  BY Zenon
<1>1. CASE UNCHANGED vars
  BY <1>1, Zenon DEF vars, SessionInv, SessionTypes, Alive
<1> QED
  BY <1>1, SessionCalls, SessionRotation, SessionLogins, Zenon DEF Next


(* A token of a session the node has made, and the latest of its session.  *)
Known(t) == t # NoToken => srv[t[1]].made
Newest(t) == t = NoToken \/ t = Latest(t[1])

(* Where no answer is lost, the page holds the newest refresh token of its *)
(* session, unless a rotation of that very session is on its way back; and *)
(* a login brings a session that is not being rotated.                     *)
Rotatable ==
  /\ refresh.st # "lost" /\ login.st # "lost"
  /\ Known(tok.ref) /\ Known(refresh.tok) /\ Known(login.tok)
  /\ refresh.st # "ok" => Newest(tok.ref)
  /\ refresh.st = "sent" => Newest(refresh.tok)
  /\ refresh.st = "ok" => /\ refresh.tok # NoToken /\ Newest(refresh.tok)
                          /\ Newest(tok.ref) \/ tok.ref[1] = refresh.tok[1]
  /\ login.st = "ok" => /\ login.tok # NoToken /\ Newest(login.tok)
                        /\ login.tok[1] # tok.ref[1] /\ login.tok[1] # refresh.tok[1]
  /\ NoReplay

(* The cookies of a browser are the newest of their session.               *)
LEMMA SessionRotatableInit == ASSUME CallAssumption PROVE Init => Rotatable
<1> SUFFICES ASSUME Init PROVE Rotatable
  BY Zenon
<1>0. 1 \in Session
  BY DEF CallAssumption, Session
<1>1. PICK old \in BOOLEAN :
        /\ tok = IF old THEN [acc |-> <<1, 0>>, ref |-> <<1, 0>>] ELSE NoTokens
        /\ srv = [s \in Session |-> [made |-> old /\ s = 1, active |-> old /\ s = 1, gen |-> 0]]
  BY Zenon DEF Init
<1>2. /\ refresh = [st |-> "none", tok |-> NoToken]
      /\ login = [st |-> "none", tok |-> NoToken] /\ NoReplay
  BY Zenon DEF Init, NoRefresh, NoLogin, NoReplay
<1>3. Known(tok.ref) /\ Newest(tok.ref)
  <2>1. CASE old
    BY <1>0, <1>1, <2>1, Zenon DEF Known, Newest, Latest
  <2>2. CASE ~old
    BY <1>1, <2>2, Zenon DEF Known, Newest, NoTokens
  <2> QED
    BY <2>1, <2>2, Zenon
<1> QED
  BY <1>2, <1>3, Zenon DEF Rotatable, Known

(* The session and the rotations are as they were, and the page may have   *)
(* dropped its tokens.                                                     *)
LEMMA SessionDropped ==
  ASSUME SessionInv, Rotatable, refresh' = refresh, login' = login,
         tok' = tok \/ tok' = NoTokens, NoReplay',
         \A s \in Session : srv'[s].made = srv[s].made /\ srv'[s].gen = srv[s].gen
  PROVE  Rotatable'
<1>1. \A t \in Tokens : (Known(t)' <=> Known(t)) /\ (Newest(t)' <=> Newest(t))
  BY Zenon DEF Tokens, Known, Newest, Latest
<1>2. tok.ref \in Tokens /\ refresh.tok \in Tokens /\ login.tok \in Tokens /\ NoToken \in Tokens
      /\ (login.tok # NoToken => login.tok[1] # NoToken[1])
  BY DEF SessionInv, SessionTypes, Tokens, NoToken, Session
<1>3. tok'.ref = tok.ref \/ tok'.ref = NoToken
  BY DEF NoTokens
<1>4. /\ Known(tok.ref)' /\ Known(refresh.tok)' /\ Known(login.tok)'
  BY <1>1, <1>2, <1>3, Zenon DEF Rotatable, Known
<1>5. Newest(tok.ref) => Newest(tok.ref)'
  BY <1>1, <1>2, <1>3, Zenon DEF Newest
<1>6. (Newest(refresh.tok) => Newest(refresh.tok)') /\ (Newest(login.tok) => Newest(login.tok)')
  BY <1>1, <1>2, Zenon
<1>7. tok'.ref[1] = tok.ref[1] \/ Newest(tok.ref)'
  BY <1>3, Zenon DEF Newest
<1> QED
  BY <1>2, <1>3, <1>4, <1>5, <1>6, <1>7, Zenon DEF Rotatable


(* Calls and what other devices do leave the newest token with the page.   *)
LEMMA SessionRotatableCalls ==
  ASSUME CallAssumption, SessionInv, Rotatable, ~LoseAnswers, NEW c \in Call,
         Start(c) \/ Serve(c) \/ LoseRequest(c) \/ Answered(c)
  PROVE  Rotatable'
<1>1. CASE Start(c) \/ ReturnOk(c) \/ ReturnLost(c) \/ ReturnDenied(c)
  <2>1. /\ refresh' = refresh /\ login' = login /\ srv' = srv /\ ended' = ended
        /\ tok' = tok \/ tok' = NoTokens
    BY <1>1, Zenon DEF Start, ReturnOk, ReturnLost, ReturnDenied, AfterFailure
  <2> QED
    BY <2>1, SessionDropped, Zenon DEF Rotatable, NoReplay
<1>2. CASE Serve(c)
  <2>0. refresh' = refresh /\ login' = login /\ tok' = tok
    BY <1>2, Zenon DEF Serve
  <2>1. CASE srv' = srv /\ ended' = ended
    BY <2>0, <2>1, SessionDropped, Zenon DEF Rotatable, NoReplay
  <2>2. CASE Valid(req[c].tok) /\ Revoke(req[c].tok[1], "logout")
    <3>1. req[c].tok[1] \in Session /\ srv[req[c].tok[1]].active
      BY <2>2, Zenon DEF Valid, Tokens, SessionInv, SessionTypes
    <3>2. \A r \in Session : srv'[r].made = srv[r].made /\ srv'[r].gen = srv[r].gen
      BY <2>2, <3>1, SessionRevoked, Zenon
    <3>3. NoReplay'
      BY <2>2, <3>1, Zenon DEF Revoke, Rotatable, NoReplay, SessionInv, SessionTypes
    <3> QED
      BY <2>0, <3>2, <3>3, SessionDropped, Zenon
  <2> QED
    BY <1>2, <2>1, <2>2, Zenon DEF Serve
<1>3. CASE LoseRequest(c)
  BY <1>3, Zenon DEF LoseRequest
<1>4. CASE ReturnUnauth(c)
  <2>0. tok' = tok /\ login' = login /\ srv' = srv /\ ended' = ended
    BY <1>4, Zenon DEF ReturnUnauth
  <2>1. CASE refresh' = refresh
    BY <2>0, <2>1, SessionDropped, ZenonT(30) DEF Rotatable, NoReplay
  <2>2. CASE refresh.st = "none" /\ refresh' = [st |-> "sent", tok |-> tok.ref]
    BY <2>0, <2>2, Zenon DEF Rotatable, Known, Newest, Latest, NoReplay
  <2> QED
    BY <1>4, <2>1, <2>2, Zenon DEF ReturnUnauth
<1> QED
  BY <1>1, <1>2, <1>3, <1>4, Zenon DEF Answered

(* The node rotates the newest token, and the page takes the next one.     *)
LEMMA SessionRotatableRotation ==
  ASSUME CallAssumption, SessionInv, Rotatable, ~LoseAnswers,
         RefreshServe \/ LoseRefresh \/ RefreshReturnOk \/ RefreshReturnBad
  PROVE  Rotatable'
<1>0. /\ tok.ref \in Tokens /\ refresh.tok \in Tokens /\ login.tok \in Tokens
      /\ srv \in [Session -> [made : BOOLEAN, active : BOOLEAN, gen : Nat]]
      /\ (login.tok # NoToken => login.tok[1] # NoToken[1]) /\ login' = login
  <2>1. login' = login
    BY Zenon DEF RefreshServe, LoseRefresh, RefreshReturnOk, RefreshReturnBad
  <2>2. tok.ref \in Tokens /\ refresh.tok \in Tokens /\ login.tok \in Tokens
        /\ srv \in [Session -> [made : BOOLEAN, active : BOOLEAN, gen : Nat]]
    BY Zenon DEF SessionInv, SessionTypes
  <2>3. login.tok # NoToken => login.tok[1] # NoToken[1]
    BY <2>2 DEF Tokens, NoToken, Session
  <2> QED
    BY <2>1, <2>2, <2>3, Zenon
<1>1. CASE RefreshServe
  <2> DEFINE s == refresh.tok[1]
  <2>0. tok' = tok /\ refresh.st = "sent" /\ Newest(refresh.tok)
    BY <1>1, Zenon DEF RefreshServe, Rotatable
  <2>1. CASE refresh' = [refresh EXCEPT !.st = "rejected"] /\ srv' = srv /\ ended' = ended
    <3>1. refresh'.st = "rejected" /\ refresh'.tok = refresh.tok
      BY <2>1, Zenon DEF SessionInv, SessionTypes
    <3> QED
      BY <1>0, <2>0, <2>1, <3>1, Zenon DEF Rotatable, Known, Newest, Latest, NoReplay
  <2>2. CASE /\ refresh.tok # NoToken /\ srv' = [srv EXCEPT ![s].gen = @ + 1] /\ ended' = ended
             /\ refresh' = [st |-> "ok", tok |-> <<s, srv[s].gen + 1>>]
    <3>1. s \in Session
      BY <1>0, <2>2, Zenon DEF Tokens
    <3>2. /\ srv'[s].gen = srv[s].gen + 1
          /\ \A r \in Session : /\ srv'[r].made = srv[r].made
                                /\ r # s => srv'[r].gen = srv[r].gen
      BY <1>0, <2>2, <3>1, Zenon
    <3>3. /\ refresh'.st = "ok" /\ refresh'.tok = <<s, srv'[s].gen>>
          /\ refresh'.tok # NoToken /\ Newest(refresh.tok)'
      BY <2>2, <3>1, <3>2 DEF Newest, Latest, NoToken, Session
    <3>4. Known(tok.ref)' /\ Known(refresh.tok)' /\ Known(login.tok)'
      BY <1>0, <2>0, <2>2, <3>1, <3>2, <3>3 DEF Rotatable, Known, Tokens
    <3>5. Newest(tok.ref)' \/ tok.ref[1] = s
      BY <1>0, <2>0, <3>2, Zenon DEF Rotatable, Newest, Latest, Tokens
    <3>6. login.st = "ok" => Newest(login.tok)' /\ login.tok[1] # s
      BY <1>0, <3>2, Zenon DEF Rotatable, Newest, Latest, Tokens
    <3>7. NoReplay'
      BY <2>2, Zenon DEF Rotatable, NoReplay
    <3> QED
      BY <1>0, <2>0, <3>3, <3>4, <3>5, <3>6, <3>7 DEF Rotatable
  <2>3. refresh.tok = NoToken \/ refresh.tok = Latest(s)
    BY <2>0, Zenon DEF Newest
  <2> QED
    BY <1>1, <2>1, <2>2, <2>3, Zenon DEF RefreshServe
<1>2. CASE LoseRefresh
  BY <1>2, Zenon DEF LoseRefresh
<1>3. CASE RefreshReturnOk
  <2>1. /\ refresh.st = "ok" /\ tok'.ref = refresh.tok /\ srv' = srv /\ ended' = ended
        /\ refresh' = [st |-> "none", tok |-> NoToken]
    BY <1>3, Zenon DEF RefreshReturnOk, NoRefresh
  <2> QED
    BY <1>0, <2>1, Zenon DEF Rotatable, Known, Newest, Latest, NoReplay
<1>4. CASE RefreshReturnBad
  <2>1. /\ refresh.st = "rejected" /\ srv' = srv /\ ended' = ended
        /\ refresh' = [st |-> "none", tok |-> NoToken]
        /\ tok' = tok \/ tok' = NoTokens
    BY <1>4, Zenon DEF RefreshReturnBad, NoRefresh, AfterFailure, Rotatable
  <2>2. tok'.ref = tok.ref \/ tok'.ref = NoToken
    BY <2>1 DEF NoTokens
  <2> QED
    BY <1>0, <2>1, <2>2, Zenon DEF Rotatable, Known, Newest, Latest, NoReplay
<1> QED
  BY <1>1, <1>2, <1>3, <1>4, Zenon

(* A login brings the only token of a new session.                         *)
LEMMA SessionRotatableLogins ==
  ASSUME CallAssumption, SessionInv, Rotatable, ~LoseAnswers,
         \/ LoginStart \/ LoginServe \/ LoginReturn
         \/ \E s \in Session : Expire(s) \/ RemoteRevoke(s)
  PROVE  Rotatable'
<1>0. /\ tok.ref \in Tokens /\ refresh.tok \in Tokens /\ login.tok \in Tokens
      /\ srv \in [Session -> [made : BOOLEAN, active : BOOLEAN, gen : Nat]]
  BY Zenon DEF SessionInv, SessionTypes
<1>1. CASE LoginStart
  <2>1. /\ login' = [st |-> "sent", tok |-> NoToken]
        /\ UNCHANGED <<tok, refresh, srv, ended>>
    BY <1>1, Zenon DEF LoginStart
  <2> QED
    BY <2>1, Zenon DEF Rotatable, Known, Newest, Latest, NoReplay
<1>2. CASE LoginServe
  <2>1. PICK s \in Session \ Made :
          /\ srv' = [srv EXCEPT ![s] = [made |-> TRUE, active |-> TRUE, gen |-> 0]]
          /\ login' = [st |-> "ok", tok |-> <<s, 0>>]
    BY <1>2, Zenon DEF LoginServe
  <2>0. s \in Session /\ ~srv[s].made /\ UNCHANGED <<tok, refresh, ended>>
    BY <1>2, Zenon DEF LoginServe, Made
  <2>2. /\ \A r \in Session \ {s} : srv'[r] = srv[r]
        /\ srv'[s].made /\ srv'[s].gen = 0
    BY <1>0, <2>0, <2>1, Zenon
  <2>3. \A t \in Tokens : Known(t) => /\ Known(t)' /\ (Newest(t) => Newest(t)')
                                      /\ t[1] # s
    <3> SUFFICES ASSUME NEW t \in Tokens, Known(t)
                 PROVE  Known(t)' /\ (Newest(t) => Newest(t)') /\ t[1] # s
      BY Zenon
    <3>1. CASE t = NoToken
      BY <2>0, <3>1 DEF Known, Newest, NoToken, Session
    <3>2. CASE t # NoToken
      <4>1. t[1] \in Session /\ t[1] # s
        BY <2>0, <3>2, Zenon DEF Tokens, Known
      <4> QED
        BY <2>2, <3>2, <4>1, Zenon DEF Known, Newest, Latest
    <3> QED
      BY <3>1, <3>2, Zenon
  <2>4. /\ Known(tok.ref)' /\ (Newest(tok.ref) => Newest(tok.ref)') /\ tok.ref[1] # s
        /\ Known(refresh.tok)' /\ (Newest(refresh.tok) => Newest(refresh.tok)')
        /\ refresh.tok[1] # s
    BY <1>0, <2>0, <2>3, Zenon DEF Rotatable
  <2>5. /\ login'.st = "ok" /\ login'.tok = <<s, 0>> /\ login'.tok # NoToken
        /\ Known(login.tok)' /\ Newest(login.tok)'
    BY <2>0, <2>1, <2>2 DEF Known, Newest, Latest, NoToken, Session
  <2>6. NoReplay'
    BY <2>0, Zenon DEF Rotatable, NoReplay
  <2> QED
    BY <2>0, <2>4, <2>5, <2>6 DEF Rotatable
<1>3. CASE LoginReturn
  <2>0. login.st # "lost"
    BY Zenon DEF Rotatable
  <2>1. /\ login.st = "ok" /\ tok'.ref = login.tok
        /\ login' = [st |-> "none", tok |-> NoToken] /\ UNCHANGED <<refresh, srv, ended>>
    BY <1>3, <2>0 DEF LoginReturn, NoLogin
  <2> QED
    BY <2>1, Zenon DEF Rotatable, Known, Newest, Latest, NoReplay
<1>4. ASSUME NEW s \in Session, Expire(s) PROVE Rotatable'
  BY <1>4, SessionDropped, Zenon DEF Expire, Rotatable, NoReplay
<1>5. ASSUME NEW s \in Session, RemoteRevoke(s) PROVE Rotatable'
  <2>1. \A r \in Session : srv'[r].made = srv[r].made /\ srv'[r].gen = srv[r].gen
    BY <1>5, SessionRevoked, Zenon DEF RemoteRevoke
  <2>2. NoReplay'
    BY <1>5, Zenon DEF RemoteRevoke, Revoke, Rotatable, NoReplay, SessionInv, SessionTypes
  <2> QED
    BY <1>5, <2>1, <2>2, SessionDropped DEF RemoteRevoke
<1> QED
  BY <1>1, <1>2, <1>3, <1>4, <1>5, Zenon

(* Every step keeps the newest token with the page, if no answer is lost.  *)
LEMMA SessionRotatableNext ==
  ASSUME CallAssumption, ~LoseAnswers
  PROVE  SessionInv /\ Rotatable /\ [Next]_(vars) => Rotatable'
<1> SUFFICES ASSUME SessionInv, Rotatable, [Next]_(vars) PROVE Rotatable'
  BY Zenon
<1>1. CASE UNCHANGED vars
  BY <1>1, Zenon DEF vars, Rotatable, Known, Newest, Latest, NoReplay
<1> QED
  BY <1>1, SessionRotatableCalls, SessionRotatableRotation, SessionRotatableLogins, Zenon DEF Next

(* Where no answer is lost, the page never presents a refresh token twice, *)
(* however calls, rotations, logins and logouts overlap, so the node never *)
(* ends the session of its own client as a replay (rotateSession's shared  *)
(* promise in api.js, RefreshSession of auth_service.go).                  *)
THEOREM SessionNoReplay ==
  ASSUME CallAssumption, ~LoseAnswers PROVE Spec => []NoReplay
<1>1. Rotatable => NoReplay
  BY Zenon DEF Rotatable
<1> QED
  BY SessionInitInv, SessionNextInv, SessionRotatableInit, SessionRotatableNext, <1>1,
     PTL DEF Spec


(* The page only works: its calls are neither logouts nor the question for *)
(* the status, and no answer is lost.                                      *)
OnlyWorks ==
  ~LoseAnswers /\ \A c \in Call : EndpointOf[c] \notin {"logout", "getStatus"}

(* Nobody has ended a session.                                             *)
NoneEnded == \A s \in Session : ended[s] = "no"

(* A page without a user has made no call; one with a user has a refresh   *)
(* token, and a rotation under way presents one, while nobody ends a       *)
(* session.                                                                *)
Renewable ==
  /\ \A c \in Call : req[c].st # "lost"
  /\ ~user => refresh.st = "none" /\ \A c \in Call : req[c].st = "idle"
  /\ user => login.st = "none"
  /\ user /\ NoneEnded => /\ tok.ref # NoToken /\ refresh.st # "rejected"
                          /\ refresh.st = "sent" => refresh.tok # NoToken

(* A page just loaded has no user and has made no call.                    *)
LEMMA SessionRenewableInit == Init => Renewable
  BY DEF Init, Renewable, NoRefresh

(* A call of a page that only works leaves it its session.                 *)
LEMMA SessionRenewableCalls ==
  ASSUME CallAssumption, OnlyWorks, SessionInv, Renewable, NEW c \in Call,
         Start(c) \/ Serve(c) \/ LoseRequest(c) \/ Answered(c)
  PROVE  Renewable'
<1>0. /\ EndpointOf[c] # "logout" /\ EndpointOf[c] # "getStatus" /\ ~LoseAnswers
      /\ req \in [Call -> [st : {"idle", "sent", "ok", "unauth", "lost", "wait", "done", "failed"},
                           try : 1..2, tok : Tokens]]
  BY Zenon DEF OnlyWorks, SessionInv, SessionTypes
<1>1. user
  BY <1>0, Zenon DEF Renewable, SessionInv, SessionTypes, Start, Serve, LoseRequest,
              Answered, ReturnOk, ReturnLost, ReturnUnauth, ReturnDenied
<1>2. \E st \in {"sent", "ok", "unauth", "wait", "done", "failed"} :
        req'[c].st = st /\ \A d \in Call \ {c} : req'[d] = req[d]
  <2>1. CASE Start(c)
    BY <1>0, <2>1, Zenon DEF Start
  <2>2. CASE ~Start(c)
    <3>1. \E st \in {"ok", "unauth", "wait", "done", "failed"} : req' = [req EXCEPT ![c].st = st]
      BY <1>0, <2>2, Zenon DEF Serve, LoseRequest, Answered, ReturnOk, ReturnLost,
                        ReturnUnauth, ReturnDenied
    <3> QED
      BY <1>0, <3>1, Zenon
  <2> QED
    BY <2>1, <2>2, Zenon
<1>3. \A d \in Call : req'[d].st # "lost"
  BY <1>2, Zenon DEF Renewable
<1>4. tok' = tok /\ user' /\ login' = login /\ ended' = ended
  <2>1. CASE Start(c) \/ Serve(c) \/ LoseRequest(c)
    BY <1>0, <1>1, <2>1, Zenon DEF Start, Serve, LoseRequest
  <2>2. CASE Answered(c)
    BY <1>0, <1>1, <2>2, Zenon DEF Answered, ReturnOk, ReturnLost, ReturnUnauth,
                            ReturnDenied, AfterFailure, Renewable
  <2> QED
    BY <2>1, <2>2, Zenon
<1>5. refresh' = refresh \/ refresh' = [st |-> "sent", tok |-> tok.ref]
  BY Zenon DEF Start, Serve, LoseRequest, Answered, ReturnOk, ReturnLost,
         ReturnUnauth, ReturnDenied
<1> QED
  BY <1>1, <1>3, <1>4, <1>5 DEF Renewable, NoneEnded

(* The rotation ends with a new token, unless somebody ended the session.  *)
LEMMA SessionRenewableRotation ==
  ASSUME CallAssumption, OnlyWorks, SessionInv, Rotatable, Renewable,
         RefreshServe \/ LoseRefresh \/ RefreshReturnOk \/ RefreshReturnBad
  PROVE  Renewable'
<1>0. user /\ user' /\ login' = login
  <2>1. refresh.st # "none" /\ login' = login
    BY Zenon DEF RefreshServe, LoseRefresh, RefreshReturnOk, RefreshReturnBad
  <2>2. user
    BY <2>1, Zenon DEF Renewable, SessionInv, SessionTypes
  <2>3. \A c \in Waiting : EndpointOf[c] # "logout"
    BY Zenon DEF OnlyWorks, Waiting
  <2> QED
    BY <2>1, <2>2, <2>3, Zenon DEF RefreshServe, LoseRefresh, RefreshReturnOk,
                            RefreshReturnBad, AfterFailure
<1>1. \A c \in Call : req'[c].st # "lost"
  <2>1. CASE RefreshServe \/ LoseRefresh
    BY <2>1, Zenon DEF RefreshServe, LoseRefresh, Renewable
  <2>2. CASE RefreshReturnOk
    BY <2>2, Zenon DEF RefreshReturnOk, Resend, Renewable
  <2>3. CASE RefreshReturnBad
    BY <2>3, Zenon DEF RefreshReturnBad, Renewable, SessionInv, SessionTypes
  <2> QED
    BY <2>1, <2>2, <2>3, Zenon
<1>2. ASSUME NoneEnded'
      PROVE  /\ tok'.ref # NoToken /\ refresh'.st # "rejected"
             /\ refresh'.st = "sent" => refresh'.tok # NoToken
  <2>1. CASE RefreshServe
    <3> DEFINE s == refresh.tok[1]
    <3>0. refresh.st = "sent" /\ tok' = tok /\ Newest(refresh.tok) /\ refresh.tok \in Tokens
      BY <2>1, Zenon DEF RefreshServe, Rotatable, SessionInv, SessionTypes
    <3>1. NoneEnded
      BY <1>2, <2>1 DEF RefreshServe, Revoke, NoneEnded, SessionInv, SessionTypes
    <3>2. refresh.tok # NoToken /\ tok.ref # NoToken
      BY <1>0, <3>0, <3>1, Zenon DEF Renewable
    <3>3. s \in Session /\ srv[s].active /\ refresh.tok = Latest(s)
      BY <3>0, <3>1, <3>2, Zenon DEF Tokens, Rotatable, Known, Newest, SessionInv, Alive, NoneEnded
    <3>4. refresh'.st \in {"ok", "lost"}
      BY <2>1, <3>2, <3>3 DEF RefreshServe
    <3> QED
      BY <3>0, <3>2, <3>4, Zenon
  <2>2. CASE LoseRefresh
    BY <2>2, Zenon DEF LoseRefresh, OnlyWorks
  <2>3. CASE RefreshReturnOk
    BY <2>3, Zenon DEF RefreshReturnOk, NoRefresh, Rotatable
  <2>4. CASE RefreshReturnBad
    <3>1. NoneEnded /\ refresh.st = "rejected"
      BY <1>2, <2>4, Zenon DEF RefreshReturnBad, NoneEnded, Rotatable
    <3> QED
      BY <1>0, <3>1, Zenon DEF Renewable
  <2> QED
    BY <2>1, <2>2, <2>3, <2>4, Zenon
<1> QED
  BY <1>0, <1>1, <1>2, Zenon DEF Renewable

(* A login gives the page the tokens of a session; other devices take none. *)
LEMMA SessionRenewableLogins ==
  ASSUME CallAssumption, OnlyWorks, SessionInv, Rotatable, Renewable,
         \/ LoginStart \/ LoginServe \/ LoginReturn
         \/ \E s \in Session : Expire(s) \/ RemoteRevoke(s)
  PROVE  Renewable'
<1>1. CASE LoginStart
  BY <1>1 DEF LoginStart, Renewable, NoneEnded
<1>2. CASE LoginServe
  BY <1>2, Zenon DEF LoginServe, Renewable, NoneEnded
<1>3. CASE LoginReturn
  <2>1. /\ login.st = "ok" /\ tok'.ref = login.tok /\ login.tok # NoToken /\ user'
        /\ login'.st = "none" /\ UNCHANGED <<req, refresh, ended>>
    BY <1>3 DEF LoginReturn, NoLogin, Rotatable
  <2>2. ~user
    BY <2>1, Zenon DEF Renewable
  <2> QED
    BY <2>1, <2>2, Zenon DEF Renewable
<1>4. ASSUME NEW s \in Session, Expire(s) PROVE Renewable'
  BY <1>4, Zenon DEF Expire, Renewable, NoneEnded
<1>5. ASSUME NEW s \in Session, RemoteRevoke(s) PROVE Renewable'
  <2>1. NoneEnded' => NoneEnded
    BY <1>5 DEF RemoteRevoke, Revoke, NoneEnded, SessionInv, SessionTypes
  <2>2. UNCHANGED <<tok, user, req, refresh, login>>
    BY <1>5, Zenon DEF RemoteRevoke
  <2> QED
    BY <2>1, <2>2, Zenon DEF Renewable
<1> QED
  BY <1>1, <1>2, <1>3, <1>4, <1>5, Zenon

(* A page that only works can renew its session for ever, unless somebody  *)
(* ends it: between two rotations it holds the latest refresh token,       *)
(* however its calls overlap and whenever access tokens expire (apiFetch   *)
(* and rotateSession of api.js).                                           *)
THEOREM SessionStaysRenewable ==
  ASSUME CallAssumption, OnlyWorks PROVE Spec => []SessionKept
<1>0. ~LoseAnswers
  BY Zenon DEF OnlyWorks
<1>1. SessionInv /\ Rotatable /\ [Next]_(vars) => Rotatable'
  BY <1>0, SessionRotatableNext, Zenon
<1>2. SessionInv /\ Rotatable /\ Renewable /\ [Next]_(vars) => Renewable'
  <2> SUFFICES ASSUME SessionInv, Rotatable, Renewable, [Next]_(vars) PROVE Renewable'
    BY Zenon
  <2>1. CASE UNCHANGED vars
    BY <2>1, Zenon DEF vars, Renewable, NoneEnded
  <2> QED
    BY <2>1, SessionRenewableCalls, SessionRenewableRotation, SessionRenewableLogins, Zenon DEF Next
<1>3. SessionInv /\ Rotatable /\ Renewable => SessionKept
  BY Zenon DEF Rotatable, Renewable, NoneEnded, Newest, SessionKept
<1> QED
  BY SessionInitInv, SessionNextInv, SessionRotatableInit, SessionRenewableInit,
     <1>1, <1>2, <1>3, PTL DEF Spec


(* A logout the node has carried out has ended the session of its token.   *)
LoggedOut ==
  \A c \in Call : EndpointOf[c] = "logout" /\ req[c].st \in {"ok", "done"} =>
    /\ req[c].tok \in Session \X Nat
    /\ srv[req[c].tok[1]].made /\ ~srv[req[c].tok[1]].active

(* An ended session stays ended.                                           *)
LEMMA SessionEndedStays ==
  ASSUME CallAssumption, SessionInv, Next
  PROVE  \A s \in Session : srv[s].made /\ ~srv[s].active => srv'[s].made /\ ~srv'[s].active
<1>1. CASE srv' = srv
  BY <1>1, Zenon
<1>2. ASSUME NEW s \in Session, NEW why, Revoke(s, why)
      PROVE  \A r \in Session : srv[r].made /\ ~srv[r].active => srv'[r].made /\ ~srv'[r].active
  <2>1. srv' = [srv EXCEPT ![s].active = FALSE]
    BY <1>2, Zenon DEF Revoke
  <2> QED
    BY <2>1 DEF SessionInv, SessionTypes
<1>3. ASSUME NEW c \in Call, Serve(c)
      PROVE  \A r \in Session : srv[r].made /\ ~srv[r].active => srv'[r].made /\ ~srv'[r].active
  <2>1. CASE Valid(req[c].tok) /\ Revoke(req[c].tok[1], "logout")
    <3>1. req[c].tok[1] \in Session
      BY <2>1, Zenon DEF Valid, Tokens, SessionInv, SessionTypes
    <3> QED
      BY <1>2, <2>1, <3>1, Zenon
  <2> QED
    BY <1>1, <1>3, <2>1, Zenon DEF Serve
<1>4. ASSUME RefreshServe
      PROVE  \A r \in Session : srv[r].made /\ ~srv[r].active => srv'[r].made /\ ~srv'[r].active
  <2>1. refresh.tok = NoToken \/ refresh.tok[1] \in Session
    BY Zenon DEF Tokens, SessionInv, SessionTypes
  <2>2. CASE srv' = [srv EXCEPT ![refresh.tok[1]].gen = @ + 1]
    BY <2>2 DEF SessionInv, SessionTypes
  <2>3. CASE refresh.tok # NoToken /\ Revoke(refresh.tok[1], "replay")
    BY <1>2, <2>1, <2>3, Zenon
  <2> QED
    BY <1>1, <1>4, <2>2, <2>3, Zenon DEF RefreshServe
<1>5. ASSUME LoginServe
      PROVE  \A r \in Session : srv[r].made /\ ~srv[r].active => srv'[r].made /\ ~srv'[r].active
  <2>1. PICK s \in Session \ Made :
          srv' = [srv EXCEPT ![s] = [made |-> TRUE, active |-> TRUE, gen |-> 0]]
    BY <1>5, Zenon DEF LoginServe
  <2>2. s \in Session /\ ~srv[s].made
    BY Zenon DEF Made
  <2> QED
    BY <2>1, <2>2, Zenon DEF SessionInv, SessionTypes
<1>6. ASSUME NEW s \in Session, RemoteRevoke(s)
      PROVE  \A r \in Session : srv[r].made /\ ~srv[r].active => srv'[r].made /\ ~srv'[r].active
  BY <1>2, <1>6, Zenon DEF RemoteRevoke
<1>7. (\/ \E c \in Call : Start(c) \/ LoseRequest(c) \/ Answered(c)
       \/ LoseRefresh \/ RefreshReturnOk \/ RefreshReturnBad \/ LoginStart
       \/ LoginReturn \/ \E s \in Session : Expire(s)) => srv' = srv
  BY Zenon DEF Start, LoseRequest, Answered, ReturnOk, ReturnLost,
         ReturnUnauth, ReturnDenied, LoseRefresh, RefreshReturnOk,
         RefreshReturnBad, LoginStart, LoginReturn, Expire
<1> QED
  BY <1>1, <1>3, <1>4, <1>5, <1>6, <1>7, Zenon DEF Next

(* The answer to a logout is good only after its session has ended.        *)
LEMMA SessionLoggedOutNext ==
  ASSUME CallAssumption, SessionInv, LoggedOut, Next PROVE LoggedOut'
<1>0. req \in [Call -> [st : {"idle", "sent", "ok", "unauth", "lost", "wait", "done", "failed"},
                        try : 1..2, tok : Tokens]]
  BY Zenon DEF SessionInv, SessionTypes
<1>1. SUFFICES ASSUME NEW c \in Call, EndpointOf[c] = "logout", req'[c].st \in {"ok", "done"}
               PROVE  /\ req'[c].tok \in Session \X Nat
                      /\ srv'[req'[c].tok[1]].made /\ ~srv'[req'[c].tok[1]].active
  BY Zenon DEF LoggedOut
<1>2. CASE req[c].st \in {"ok", "done"} /\ req'[c].tok = req[c].tok
  <2>1. req[c].tok \in Session \X Nat /\ srv[req[c].tok[1]].made /\ ~srv[req[c].tok[1]].active
    BY <1>1, <1>2, Zenon DEF LoggedOut
  <2>2. req[c].tok[1] \in Session
    BY <2>1, Zenon
  <2> QED
    BY <1>2, <2>1, <2>2, SessionEndedStays, Zenon
<1>3. CASE Serve(c)
  <2>1. /\ req[c].st = "sent" /\ Valid(req[c].tok) /\ Revoke(req[c].tok[1], "logout")
        /\ \E st \in {"ok", "lost"} : req' = [req EXCEPT ![c].st = st]
    <3>1. Valid(req[c].tok)
      BY <1>0, <1>1, <1>3, Zenon DEF Serve
    <3> QED
      BY <1>1, <1>3, <3>1, Zenon DEF Serve
  <2>2. req'[c].tok = req[c].tok
    BY <1>0, <2>1, Zenon
  <2>3. req[c].tok \in Session \X Nat /\ srv[req[c].tok[1]].active
    BY <1>0, <2>1, Zenon DEF Valid, Tokens
  <2>4. req[c].tok[1] \in Session
    BY <2>3, Zenon
  <2>5. srv[req[c].tok[1]].made
    BY <2>3, <2>4, Zenon DEF SessionInv, Alive
  <2>6. srv' = [srv EXCEPT ![req[c].tok[1]].active = FALSE]
    BY <2>1, Zenon DEF Revoke
  <2> QED
    BY <2>2, <2>3, <2>4, <2>5, <2>6 DEF SessionInv, SessionTypes
<1>4. CASE ~Serve(c)
  <2>1. req'[c].st \in {"ok", "done"} => req[c].st \in {"ok", "done"} /\ req'[c].tok = req[c].tok
    <3>1. ASSUME NEW d \in Call, Start(d) \/ LoseRequest(d) \/ Answered(d)
          PROVE  req'[c].st \in {"ok", "done"} => req[c].st \in {"ok", "done"} /\ req'[c].tok = req[c].tok
      <4>1. CASE Start(d)
        BY <1>0, <4>1, Zenon DEF Start
      <4>2. CASE ~Start(d)
        <5>1. \/ req[d].st = "ok" /\ req' = [req EXCEPT ![d].st = "done"]
              \/ \E st \in {"lost", "failed", "wait"} : req' = [req EXCEPT ![d].st = st]
          BY <3>1, <4>2, Zenon DEF LoseRequest, Answered, ReturnOk, ReturnLost,
                            ReturnUnauth, ReturnDenied
        <5> QED
          BY <1>0, <5>1
      <4> QED
        BY <4>1, <4>2, Zenon
    <3>2. ASSUME NEW d \in Call \ {c}, Serve(d) PROVE req'[c] = req[c]
      <4>1. \E st \in {"ok", "lost", "unauth"} : req' = [req EXCEPT ![d].st = st]
        BY <3>2, Zenon DEF Serve
      <4> QED
        BY <1>0, <4>1, Zenon
    <3>3. CASE RefreshReturnOk
      BY <1>0, <3>3, Zenon DEF RefreshReturnOk, Resend
    <3>4. CASE RefreshReturnBad
      BY <1>0, <3>4, Zenon DEF RefreshReturnBad
    <3>5. (RefreshServe \/ LoseRefresh \/ LoginStart \/ LoginServe
            \/ LoginReturn \/ (\E s \in Session : Expire(s) \/ RemoteRevoke(s)))
          => req' = req
      BY Zenon DEF RefreshServe, LoseRefresh, LoginStart, LoginServe, LoginReturn,
             Expire, RemoteRevoke
    <3> QED
      BY <1>4, <3>1, <3>2, <3>3, <3>4, <3>5, Zenon DEF Next
  <2> QED
    BY <1>1, <1>2, <2>1, Zenon
<1> QED
  BY <1>3, <1>4, Zenon

(* The node answers a logout with success only when the session of its     *)
(* token has ended, for good, whatever rotations and logins are under way  *)
(* (Logout of auth_handler.go, RefreshSession of auth_service.go).         *)
THEOREM SessionLoggedOut == ASSUME CallAssumption PROVE Spec => []LoggedOut
<1>1. Init => LoggedOut
  BY DEF Init, LoggedOut
<1>2. SessionInv /\ LoggedOut /\ [Next]_(vars) => LoggedOut'
  <2>1. UNCHANGED vars /\ LoggedOut => LoggedOut'
    BY Zenon DEF vars, LoggedOut
  <2> QED
    BY <2>1, SessionLoggedOutNext, Zenon
<1> QED
  BY SessionInitInv, SessionNextInv, <1>1, <1>2, PTL DEF Spec

(* On a page that has one session, nothing the page still holds after a    *)
(* logout, or a late rotation brings back, opens it again (api.logout).    *)
THEOREM SessionLogoutFinal ==
  ASSUME CallAssumption, MaxSession = 1 PROVE Spec => []LogoutFinal
<1>1. Spec => []SessionInv
  BY SessionInitInv, SessionNextInv, PTL DEF Spec
<1>2. Spec => []LoggedOut
  BY SessionLoggedOut, Zenon
<1>3. SessionInv /\ LoggedOut => LogoutFinal
  <2> SUFFICES ASSUME SessionInv, LoggedOut, NEW c \in Call, EndpointOf[c] = "logout",
                      req[c].st = "done"
               PROVE  ~Valid(tok.acc) /\ (tok.ref # NoToken => ~srv[tok.ref[1]].active)
    BY Zenon DEF LogoutFinal
  <2>1. req[c].tok \in Session \X Nat /\ ~srv[req[c].tok[1]].active
    BY Zenon DEF LoggedOut
  <2>2. \A s \in Session : s = 1
    BY DEF Session
  <2>3. req[c].tok[1] \in Session
    BY <2>1, Zenon
  <2>4. \A s \in Session : ~srv[s].active
    BY <2>1, <2>2, <2>3, Zenon
  <2>5. \A t \in Tokens : t # NoToken => ~srv[t[1]].active
    BY <2>4, Zenon DEF Tokens
  <2>6. tok.acc \in Tokens /\ tok.ref \in Tokens
    BY Zenon DEF SessionInv, SessionTypes
  <2> QED
    BY <2>5, <2>6, Zenon DEF Valid
<1> QED
  BY <1>1, <1>2, <1>3, PTL
=============================================================================
