----------------------------- MODULE DeviceKeys -----------------------------
(***************************************************************************)
(* The cryptographic device identities of one account: the key set each    *)
(* device generates, how it is registered at the node by a pairing that is *)
(* started, approved and consumed (ProfilePane's rotation and approval,    *)
(* useGaiaAuth's pairing of a new device, devices/device_pairing_service), *)
(* how it is revoked, and how it gates what a device may send              *)
(* (deviceFanout, messaging_service).  A key identity names the key set,   *)
(* the pairing that registers it and the row of device_keys.               *)
(*                                                                         *)
(* A request is served and answered in one step, or served with its answer *)
(* lost, or fails; the steps of an operation interleave with everything    *)
(* else.  The form's busy flag lasts as long as the pane is mounted, so an *)
(* operation may begin while another one of the same page still runs.      *)
(***************************************************************************)
EXTENDS Naturals, TLC

CONSTANTS Devices,    \* the devices of the account
          NewDevices, \* those that have no vault yet and can only be paired
          Keys,       \* key sets that may be generated: bounds the pairings
          Slots,      \* operations one page may have running at a time
          MaxLost,    \* requests that fail or lose their answer
          MaxSends,   \* messages sent
          None

(* What is assumed of the constants: None names no key set, and the new    *)
(* devices are devices.                                                    *)
Ringed == None \notin Keys /\ NewDevices \subseteq Devices

VARIABLES keys,     \* node: the status of each row of device_keys
          pairing,  \* node: the status of each pairing, its approver and its device
          session,  \* node: each device's session and the key bound to it
          page,     \* each device's page: open, its vault, localStorage, last send
          ops,      \* the operations running in the pages
          lost, sends, \* failed requests and messages so far
          ghost     \* keys and sessions ended by hand, keys registered
                    \* without an attestation or by one that was revoked

vars == <<keys, pairing, session, page, ops, lost, sends, ghost>>

MaybeKey == Keys \cup {None}
Threads  == Devices \X Slots
Idle     == [at |-> "idle", kind |-> "none", key |-> None, old |-> None, by |-> None]
Active   == {k \in Keys : keys[k] = "active"}
Fresh(k) == pairing[k].status = "none"

Init ==
  /\ keys    = [k \in Keys |-> "none"]
  /\ pairing = [k \in Keys |-> [status |-> "none", by |-> None, of |-> None]]
  /\ session = [d \in Devices |-> [live |-> d \notin NewDevices, key |-> None]]
  /\ page    = [d \in Devices |-> [open |-> d \notin NewDevices, vault |-> None,
                                   stored |-> None, send |-> "none", got |-> FALSE]]
  /\ ops     = [t \in Threads |-> Idle]
  /\ lost    = 0
  /\ sends   = 0
  /\ ghost   = [byHand |-> {}, ended |-> NewDevices, unattested |-> {}, stale |-> {}]

-----------------------------------------------------------------------------

\* The order of the requests of an operation.
After(op) ==
  CASE op.at = "approve" -> "write"
    [] op.at = "write"   -> IF op.kind = "rotate" THEN "consume" ELSE "idle"
    [] op.at = "consume" -> "store"
    [] op.at = "store"   -> IF op.kind = "rotate" /\ op.old # None THEN "revoke" ELSE "idle"
    [] op.at = "revoke"  -> "idle"

Advanced(op) == IF After(op) = "idle" THEN Idle ELSE [op EXCEPT !.at = After(op)]

\* A failed operation is over; a pairing keeps its code and may be tried again.
Ended(op) == IF op.kind = "pair" THEN [op EXCEPT !.at = "wait"] ELSE Idle

\* The answer arrives, or is lost on its way.
Answered(t) ==
  \/ ops' = [ops EXCEPT ![t] = Advanced(@)] /\ UNCHANGED lost
  \/ /\ lost < MaxLost
     /\ ops' = [ops EXCEPT ![t] = Ended(@)]
     /\ lost' = lost + 1

\* The sender's check of the node: with an active key a proof by an active key
\* is required, without one no proof may be attached.
SenderAccepted(proof) == IF Active = {} THEN proof = None ELSE proof \in Active

\* The recipient's check: an envelope is addressed to one of the active keys,
\* if there are any.  The page addresses every envelope to the identity.
RecipientAccepted(active, target) == IF active = {} THEN target = None ELSE target \in active
Target == None

\* The key that signs an approval or an envelope: that of the opened vault.
ApprovalKey(d) == page[d].vault
ProofKey(d)    == page[d].vault

-----------------------------------------------------------------------------
(* What the screens offer.                                                 *)
SectionOpen(d)        == page[d].open /\ session[d].live
LogoutOffered(d, e)   == SectionOpen(d) /\ e # d /\ session[e].live
RevokeOffered(d, k)   == SectionOpen(d) /\ keys[k] = "active"
RotationOffered(d, s) == SectionOpen(d) /\ ops[<<d, s>>] = Idle
ApprovalOffered(d, s) == SectionOpen(d) /\ ops[<<d, s>>] = Idle

\* The code of a pairing is on the screen of the device being paired.
CodeShown(k) == \E t \in Threads : ops[t].kind = "pair" /\ ops[t].key = k

-----------------------------------------------------------------------------
(* What the user does.                                                     *)

NewKeySet(d, k) == Fresh(k)

StartRotation(d, s, k) ==
  /\ RotationOffered(d, s)
  /\ page[d].vault # None => page[d].vault = page[d].stored
  /\ NewKeySet(d, k)
  /\ pairing' = [pairing EXCEPT ![k] = [status |-> "pending", by |-> None, of |-> d]]
  /\ ops' = [ops EXCEPT ![<<d, s>>] = [at |-> "approve", kind |-> "rotate", key |-> k,
                                       old |-> ApprovalKey(d), by |-> None]]
  /\ UNCHANGED <<keys, session, page, lost, sends, ghost>>

StartPairing(d, s, k) ==
  /\ ~page[d].open
  /\ \A r \in Slots : ops[<<d, r>>] = Idle
  /\ NewKeySet(d, k)
  /\ session' = [session EXCEPT ![d] = [live |-> TRUE, key |-> None]]
  /\ pairing' = [pairing EXCEPT ![k] = [status |-> "pending", by |-> None, of |-> d]]
  /\ ops' = [ops EXCEPT ![<<d, s>>] = [at |-> "wait", kind |-> "pair", key |-> k,
                                       old |-> None, by |-> None]]
  /\ ghost' = [ghost EXCEPT !.ended = @ \ {d}]
  /\ UNCHANGED <<keys, page, lost, sends>>

CompletePairing(t) ==
  /\ ops[t].at = "wait"
  /\ pairing[ops[t].key].status = "approved"
  /\ ops' = [ops EXCEPT ![t].at = "consume"]
  /\ UNCHANGED <<keys, pairing, session, page, lost, sends, ghost>>

CancelPairing(t) ==
  /\ ops[t].at = "wait"
  /\ ops' = [ops EXCEPT ![t] = Idle]
  /\ UNCHANGED <<keys, pairing, session, page, lost, sends, ghost>>

ApproveNewDevice(d, s, k) ==
  /\ ApprovalOffered(d, s)
  /\ CodeShown(k)
  /\ pairing[k].status = "pending" /\ pairing[k].of # d
  /\ ops' = [ops EXCEPT ![<<d, s>>] = [at |-> "approve", kind |-> "approve", key |-> k,
                                       old |-> ApprovalKey(d), by |-> None]]
  /\ UNCHANGED <<keys, pairing, session, page, lost, sends, ghost>>

\* The node revokes an active key and ends the sessions bound to it.
Bound(k) == {d \in Devices : session[d].live /\ session[d].key = k}

KeyRevoked(k) ==
  /\ keys' = [keys EXCEPT ![k] = "revoked"]
  /\ session' = [d \in Devices |-> IF d \in Bound(k) THEN [session[d] EXCEPT !.live = FALSE]
                                   ELSE session[d]]

RevokeDeviceKey(d, k) ==
  /\ RevokeOffered(d, k)
  /\ KeyRevoked(k)
  /\ ghost' = [ghost EXCEPT !.byHand = @ \cup {k}, !.ended = @ \cup Bound(k)]
  /\ UNCHANGED <<pairing, page, ops, lost, sends>>

RevokeDevice(d, e) ==
  /\ LogoutOffered(d, e)
  /\ session' = [session EXCEPT ![e].live = FALSE]
  /\ ghost' = [ghost EXCEPT !.ended = @ \cup {e}]
  /\ UNCHANGED <<keys, pairing, page, ops, lost, sends>>

Send(d, s) ==
  /\ SectionOpen(d)
  /\ sends < MaxSends
  /\ ops[<<d, s>>] = Idle
  /\ \A r \in Slots : ops[<<d, r>>].kind # "send"
  /\ ops' = [ops EXCEPT ![<<d, s>>] = [at |-> "peer", kind |-> "send", key |-> None,
                                       old |-> ProofKey(d), by |-> None]]
  /\ page' = [page EXCEPT ![d].send = "none", ![d].got = FALSE]
  /\ sends' = sends + 1
  /\ UNCHANGED <<keys, pairing, session, lost, ghost>>

\* Locked and opened again: the password opens the stored vault, the device
\* code leaves the page without one.
LockAndUnlock(d, v) ==
  /\ page[d].open
  /\ v \in {page[d].stored, None}
  /\ page' = [page EXCEPT ![d].vault = v]
  /\ UNCHANGED <<keys, pairing, session, ops, lost, sends, ghost>>

Reload(d, v) ==
  /\ v \in {page[d].stored, None}
  /\ page' = [page EXCEPT ![d].vault = v, ![d].send = "none", ![d].got = FALSE]
  /\ ops' = [t \in Threads |-> IF t[1] = d THEN Idle ELSE ops[t]]
  /\ UNCHANGED <<keys, pairing, session, lost, sends, ghost>>

Logout(d) ==
  /\ page[d].open
  /\ page' = [page EXCEPT ![d] = [open |-> FALSE, vault |-> None, stored |-> None,
                                  send |-> "none", got |-> FALSE]]
  /\ session' = [session EXCEPT ![d].live = FALSE]
  /\ ghost' = [ghost EXCEPT !.ended = @ \cup {d}]
  /\ UNCHANGED <<keys, pairing, ops, lost, sends>>

Login(d) ==
  /\ ~session[d].live
  /\ \A s \in Slots : ops[<<d, s>>] = Idle
  /\ session' = [session EXCEPT ![d] = [live |-> TRUE, key |-> None]]
  /\ page' = [page EXCEPT ![d].open = TRUE, ![d].vault = page[d].stored,
                          ![d].send = "none", ![d].got = FALSE]
  /\ ghost' = [ghost EXCEPT !.ended = @ \ {d}]
  /\ UNCHANGED <<keys, pairing, ops, lost, sends>>

-----------------------------------------------------------------------------
(* What the node and the pages make of the requests.                       *)

\* Approve reads the pairing and the active keys: with an active key it takes
\* the approval of an active key only, without one it looks at none ...
ApprovalChecked(t) ==
  LET op == ops[t] IN
  /\ op.at = "approve"
  /\ session[t[1]].live
  /\ pairing[op.key].status = "pending"
  /\ Active # {} => op.old \in Active
  /\ ops' = [ops EXCEPT ![t] = [Advanced(@) EXCEPT !.by = IF Active = {} THEN None ELSE op.old]]
  /\ UNCHANGED <<keys, pairing, session, page, lost, sends, ghost>>

\* ... and then updates the pairing if it is still pending.
ApprovalWritten(t) ==
  LET op == ops[t] IN
  /\ op.at = "write"
  /\ pairing[op.key].status = "pending"
  /\ pairing' = [pairing EXCEPT ![op.key].status = "approved", ![op.key].by = op.by]
  /\ Answered(t)
  /\ UNCHANGED <<keys, session, page, sends, ghost>>

BoundSession(d, k) == [session EXCEPT ![d].key = k]

\* One transaction: the pairing is consumed, its key registered (again, if the
\* row exists) and bound to the session the request came with.
Consumed(t) ==
  LET op == ops[t]
      k  == op.key
      by == pairing[k].by IN
  /\ op.at = "consume"
  /\ session[t[1]].live
  /\ pairing[k].status = "approved"
  /\ pairing' = [pairing EXCEPT ![k].status = "consumed"]
  /\ keys' = [keys EXCEPT ![k] = "active"]
  /\ session' = BoundSession(t[1], k)
  /\ ghost' = [ghost EXCEPT
                 !.unattested = IF Active # {} /\ by = None THEN @ \cup {k} ELSE @,
                 !.stale = IF by # None /\ by \notin Active THEN @ \cup {k} ELSE @]
  /\ Answered(t)
  /\ UNCHANGED <<page, sends>>

Vault(op) == op.key

\* The page has encrypted the vault: it is stored and used from now on.
Stored(t) ==
  LET op == ops[t] IN
  /\ op.at = "store"
  /\ page' = [page EXCEPT ![t[1]].stored = Vault(op), ![t[1]].vault = Vault(op),
                          ![t[1]].open = @ \/ op.kind = "pair"]
  /\ ops' = [ops EXCEPT ![t] = Advanced(@)]
  /\ UNCHANGED <<keys, pairing, session, lost, sends, ghost>>

FormerRevoked(t) ==
  LET op == ops[t] IN
  /\ op.at = "revoke"
  /\ session[t[1]].live
  /\ keys[op.old] = "active"
  /\ KeyRevoked(op.old)
  /\ Answered(t)
  /\ UNCHANGED <<pairing, page, sends, ghost>>

\* What makes the node refuse the next request of an operation.
Refusal(t) ==
  LET op == ops[t] IN
  \/ op.at \in {"approve", "consume", "revoke"} /\ ~session[t[1]].live
  \/ op.at = "approve" /\ Active # {} /\ op.old \notin Active
  \/ op.at \in {"approve", "write"} /\ pairing[op.key].status # "pending"
  \/ op.at = "consume" /\ pairing[op.key].status # "approved"
  \/ op.at = "revoke" /\ keys[op.old] # "active"

Refused(t) ==
  /\ Refusal(t) = TRUE
  /\ ops' = [ops EXCEPT ![t] = Ended(@)]
  /\ UNCHANGED <<keys, pairing, session, page, lost, sends, ghost>>

\* A request that never reaches the node.
Failed(t) ==
  /\ ops[t].at \in {"approve", "consume", "revoke"}
  /\ lost < MaxLost
  /\ lost' = lost + 1
  /\ ops' = [ops EXCEPT ![t] = Ended(@)]
  /\ UNCHANGED <<keys, pairing, session, page, sends, ghost>>

Expires(k) ==
  /\ pairing[k].status \in {"pending", "approved"}
  /\ pairing' = [pairing EXCEPT ![k].status = "expired"]
  /\ UNCHANGED <<keys, session, page, ops, lost, sends, ghost>>

\* The envelope for the contact, who has registered no device ...
PeerSent(t) ==
  LET op == ops[t]
      ok == /\ session[t[1]].live /\ SenderAccepted(op.old)
            /\ RecipientAccepted({}, Target) IN
  /\ op.at = "peer"
  /\ ops' = [ops EXCEPT ![t] = IF ok THEN [@ EXCEPT !.at = "self"] ELSE Idle]
  /\ page' = [page EXCEPT ![t[1]].got = ok, ![t[1]].send = IF ok THEN "none" ELSE "error"]
  /\ UNCHANGED <<keys, pairing, session, lost, sends, ghost>>

\* ... and the copy for the sender, refused once the sender has an active key.
SelfSent(t) ==
  LET op == ops[t]
      ok == /\ session[t[1]].live /\ SenderAccepted(op.old)
            /\ RecipientAccepted(Active, Target) IN
  /\ op.at = "self"
  /\ ops' = [ops EXCEPT ![t] = Idle]
  /\ page' = [page EXCEPT ![t[1]].send = IF ok THEN "sent" ELSE "error"]
  /\ UNCHANGED <<keys, pairing, session, lost, sends, ghost>>

Next ==
  \/ \E d \in Devices, s \in Slots : Send(d, s)
  \/ \E d \in Devices, s \in Slots, k \in Keys :
       StartRotation(d, s, k) \/ StartPairing(d, s, k) \/ ApproveNewDevice(d, s, k)
  \/ \E d \in Devices, k \in Keys : RevokeDeviceKey(d, k)
  \/ \E d, e \in Devices : RevokeDevice(d, e)
  \/ \E d \in Devices, v \in MaybeKey : LockAndUnlock(d, v) \/ Reload(d, v)
  \/ \E d \in Devices : Logout(d) \/ Login(d)
  \/ \E t \in Threads :
       \/ CompletePairing(t) \/ CancelPairing(t)
       \/ ApprovalChecked(t) \/ ApprovalWritten(t) \/ Consumed(t) \/ Stored(t)
       \/ FormerRevoked(t) \/ Refused(t) \/ Failed(t) \/ PeerSent(t) \/ SelfSent(t)
  \/ \E k \in Keys : Expires(k)

KeySymmetry == Permutations(Keys)

Spec == Init /\ [][Next]_vars

-----------------------------------------------------------------------------
(* Rows of device_keys, pairings, sessions, vaults and running operations  *)
(* hold what the tables and the hooks' states can hold.                    *)
TypeOK ==
  /\ keys \in [Keys -> {"none", "active", "revoked"}]
  /\ \A k \in Keys :
       /\ pairing[k].status \in {"none", "pending", "approved", "consumed", "expired"}
       /\ pairing[k].by \in MaybeKey /\ pairing[k].of \in Devices \cup {None}
       /\ keys[k] # "none" => pairing[k].status = "consumed"
  /\ session \in [Devices -> [live : BOOLEAN, key : MaybeKey]]
  /\ page \in [Devices -> [open : BOOLEAN, vault : MaybeKey, stored : MaybeKey,
                           send : {"none", "sent", "error"}, got : BOOLEAN]]
  /\ \A t \in Threads : ops[t].key \in MaybeKey /\ ops[t].old \in MaybeKey
  /\ lost \in 0..MaxLost /\ sends \in 0..MaxSends

(* A rotation never leaves a device with a revoked key: whatever fails,    *)
(* overlaps or is cut off by a reload, the key in a device's storage is    *)
(* active unless it was revoked by hand (the form's "widerruft erst danach *)
(* die bisherige Geraeteidentitaet").                                      *)
RotationKeepsKey ==
  \A d \in Devices :
    page[d].stored # None /\ keys[page[d].stored] # "active"
      => page[d].stored \in ghost.byHand

(* A rotation never ends the session it runs in, although revoking a key   *)
(* ends the sessions bound to it: sessions end by hand only.               *)
SessionKept == \A d \in Devices : ~session[d].live => d \in ghost.ended

(* A revoked device identity stays revoked, although consuming a pairing   *)
(* re-activates the row of a known key set: every pairing has a fresh one. *)
RevokedStays == \A k \in Keys : keys[k] = "revoked" => keys'[k] = "revoked"

(* The form promises that the new key set is registered atomically: with   *)
(* no operation running, every active key is held by a device.             *)
RegisteredAtomically ==
  (\A t \in Threads : ops[t] = Idle) =>
    \A k \in Active : k \in ghost.byHand \/ \E d \in Devices : page[d].stored = k

(* An additional key set is registered only with the attestation of an     *)
(* active device key (the test of the pairing service).                    *)
AdditionalAttested == ghost.unattested = {}

(* A revoked device identity takes part in no further pairing (the text    *)
(* above the list of keys).                                                *)
RevokedPairsNoMore == ghost.stale = {}

(* A message the page of a logged-in device reports as not sent has not    *)
(* reached the contact.                                                    *)
SendErrorTrue ==
  \A d \in Devices :
    page[d].open /\ session[d].live /\ page[d].send = "error" => ~page[d].got
=============================================================================
