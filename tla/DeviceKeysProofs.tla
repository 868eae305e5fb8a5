-------------------------- MODULE DeviceKeysProofs --------------------------
(***************************************************************************)
(* Proofs about DeviceKeys, for every number of devices, key sets and      *)
(* overlapping operations.  A key set has one operation that makes it and  *)
(* one device that it is made for.  It comes into a vault at the end of    *)
(* that operation, after the node has consumed its pairing, and only a key *)
(* that was in the vault is ever replaced by a rotation; so what a         *)
(* rotation revokes is bound to no session and stored on no device any     *)
(* more.                                                                   *)
(***************************************************************************)
EXTENDS DeviceKeys, TLAPS

Ats == {"idle", "approve", "write", "consume", "store", "revoke", "wait", "peer", "self"}
OpRows == [at : Ats, kind : {"none", "rotate", "pair", "approve", "send"},
           key : MaybeKey, old : MaybeKey, by : MaybeKey]
PairingRows == [status : {"none", "pending", "approved", "consumed", "expired"},
                by : MaybeKey, of : Devices \cup {None}]
SessionRows == [live : BOOLEAN, key : MaybeKey]
PageRows == [open : BOOLEAN, vault : MaybeKey, stored : MaybeKey,
             send : {"none", "sent", "error"}, got : BOOLEAN]

(* The operations that make a key set.                                     *)
Making == {"rotate", "pair"}

(* Where an operation of each kind can be.                                 *)
Stage(o) ==
  /\ o.kind = "none" <=> o.at = "idle"
  /\ o.kind \in Making \cup {"approve"} => o.key \in Keys
  /\ o.at \in {"approve", "write"} => o.kind \in {"rotate", "approve"}
  /\ o.at \in {"consume", "store"} => o.kind \in Making
  /\ o.at = "revoke" => o.kind = "rotate" /\ o.old # None
  /\ o.at = "wait" => o.kind = "pair"

RingTypes ==
  /\ keys \in [Keys -> {"none", "active", "revoked"}]
  /\ pairing \in [Keys -> PairingRows]
  /\ session \in [Devices -> SessionRows]
  /\ page \in [Devices -> PageRows]
  /\ ops \in [Threads -> OpRows]
  /\ ghost \in [byHand : SUBSET Keys, ended : SUBSET Devices,
                unattested : SUBSET Keys, stale : SUBSET Keys]
  /\ \A t \in Threads : Stage(ops[t])

(* A key set that is being made has a pairing, made by the same device.    *)
Makes ==
  \A t \in Threads : ops[t].kind \in Making =>
    pairing[ops[t].key].of = t[1] /\ pairing[ops[t].key].status # "none"

(* Every key set is made by one operation.                                 *)
OneMaker ==
  \A t, u \in Threads :
    ops[t].kind \in Making /\ ops[u].kind \in Making /\ ops[t].key = ops[u].key => t = u

(* A key set of the device is registered and its making is over, but for   *)
(* revoking the one it replaces.                                           *)
Made(k, d) ==
  /\ pairing[k].of = d /\ pairing[k].status = "consumed"
  /\ \A t \in Threads : ops[t].kind \in Making /\ ops[t].key = k => ops[t].at = "revoke"

(* The vault in use and the one in local storage are made.                 *)
Vaults ==
  \A d \in Devices :
    /\ page[d].vault # None => Made(page[d].vault, d)
    /\ page[d].stored # None => Made(page[d].stored, d)

(* A rotation replaces another key set, one that is made.                  *)
Formers ==
  \A t \in Threads : ops[t].kind = "rotate" /\ ops[t].old # None =>
    Made(ops[t].old, t[1]) /\ ops[t].old # ops[t].key

(* What is about to be stored is registered, and active unless it was      *)
(* revoked by hand meanwhile.                                              *)
AtStore ==
  \A t \in Threads : ops[t].at = "store" =>
    /\ pairing[ops[t].key].status = "consumed"
    /\ keys[ops[t].key] = "active" \/ ops[t].key \in ghost.byHand

(* Once the new key set is bound to the session the former is not.         *)
Rebound ==
  \A t \in Threads :
    ops[t].kind = "rotate" /\ ops[t].at \in {"store", "revoke"} /\ ops[t].old # None
      => session[t[1]].key # ops[t].old

(* Once the new vault is stored the former is not.                         *)
Replaced == \A t \in Threads : ops[t].at = "revoke" => page[t[1]].stored # ops[t].old

(* A session is bound to a registered key set of its device.               *)
BoundOwn ==
  \A d \in Devices : session[d].key # None =>
    pairing[session[d].key].of = d /\ pairing[session[d].key].status = "consumed"

(* A row of device_keys stands for a consumed pairing.                     *)
Registered == \A k \in Keys : keys[k] # "none" => pairing[k].status = "consumed"

RingInv ==
  /\ RingTypes /\ Makes /\ OneMaker /\ Vaults /\ Formers /\ AtStore /\ Rebound
  /\ Replaced /\ BoundOwn /\ Registered /\ SessionKept /\ RotationKeepsKey

(* The devices start without key sets and pairings.                        *)
LEMMA RingInit == ASSUME Ringed, Init PROVE RingInv
<1>1. Idle \in OpRows /\ Stage(Idle)
  BY Zenon DEF Idle, OpRows, Ats, MaybeKey, Stage, Making
<1>2. RingTypes
  <2>1. /\ keys \in [Keys -> {"none", "active", "revoked"}]
        /\ pairing \in [Keys -> PairingRows]
    BY Zenon DEF Init, PairingRows, MaybeKey
  <2>2. session \in [Devices -> SessionRows] /\ page \in [Devices -> PageRows]
    BY Zenon DEF Init, SessionRows, PageRows, MaybeKey
  <2>3. ops \in [Threads -> OpRows] /\ \A t \in Threads : Stage(ops[t])
    BY <1>1, Zenon DEF Init
  <2>4. ghost \in [byHand : SUBSET Keys, ended : SUBSET Devices,
                   unattested : SUBSET Keys, stale : SUBSET Keys]
    BY Zenon DEF Init, Ringed
  <2> QED
    BY <2>1, <2>2, <2>3, <2>4, Zenon DEF RingTypes
<1>3. \A t \in Threads : ops[t].kind = "none" /\ ops[t].at = "idle"
  BY Zenon DEF Init, Idle
<1>4. Makes /\ OneMaker /\ Formers /\ AtStore /\ Rebound /\ Replaced
  BY <1>3, Zenon DEF Makes, OneMaker, Formers, AtStore, Rebound, Replaced, Making
<1>5. /\ \A d \in Devices : /\ page[d].vault = None /\ page[d].stored = None
                            /\ session[d].key = None
                            /\ (~session[d].live => d \in ghost.ended)
      /\ \A k \in Keys : keys[k] = "none"
  BY Zenon DEF Init
<1>6. Vaults /\ BoundOwn /\ Registered /\ SessionKept /\ RotationKeepsKey
  BY <1>5, Zenon DEF Vaults, BoundOwn, Registered, SessionKept, RotationKeepsKey
<1> QED
  BY <1>2, <1>4, <1>6, Zenon DEF RingInv

(* The order of the requests of an operation (ProfilePane.jsx,             *)
(* useGaiaAuth.js).                                                        *)
LEMMA AdvancedOp ==
  ASSUME NEW o \in OpRows, Stage(o),
         o.at \in {"approve", "write", "consume", "store", "revoke"}
  PROVE  /\ Advanced(o) \in OpRows /\ Stage(Advanced(o))
         /\ \/ Advanced(o) = Idle
            \/ /\ Advanced(o).kind = o.kind /\ Advanced(o).key = o.key
               /\ Advanced(o).old = o.old
         /\ o.at = "approve" => Advanced(o).at = "write"
         /\ o.at = "write" => Advanced(o).at \in {"consume", "idle"}
         /\ o.at = "consume" => Advanced(o).at = "store"
         /\ o.at = "store" => Advanced(o).at \in {"revoke", "idle"}
         /\ o.at = "revoke" => Advanced(o).at = "idle"
<1>0. Idle \in OpRows /\ Stage(Idle) /\ Idle.at = "idle"
  BY Zenon DEF Idle, OpRows, Ats, MaybeKey, Stage, Making
<1>a. ASSUME NEW a \in Ats PROVE [o EXCEPT !.at = a] \in OpRows
                                 /\ [o EXCEPT !.at = a].at = a
                                 /\ [o EXCEPT !.at = a].kind = o.kind
                                 /\ [o EXCEPT !.at = a].key = o.key
                                 /\ [o EXCEPT !.at = a].old = o.old
  BY Zenon DEF OpRows
<1>1. CASE o.at = "approve"
  <2>1. After(o) = "write"
    BY <1>1, Zenon DEF After
  <2> QED
    BY <1>1, <1>a, <2>1 DEF Advanced, Ats, Stage
<1>2. CASE o.at = "write"
  <2>1. After(o) = IF o.kind = "rotate" THEN "consume" ELSE "idle"
    BY <1>2, Zenon DEF After
  <2> QED
    BY <1>0, <1>2, <1>a, <2>1 DEF Advanced, Ats, Stage, Making
<1>3. CASE o.at = "consume"
  <2>1. After(o) = "store"
    BY <1>3, Zenon DEF After
  <2> QED
    BY <1>3, <1>a, <2>1 DEF Advanced, Ats, Stage, Making
<1>4. CASE o.at = "store"
  <2>1. After(o) = IF o.kind = "rotate" /\ o.old # None THEN "revoke" ELSE "idle"
    BY <1>4, Zenon DEF After
  <2> QED
    BY <1>0, <1>4, <1>a, <2>1 DEF Advanced, Ats, Stage, Making
<1>5. CASE o.at = "revoke"
  <2>1. After(o) = "idle"
    BY <1>5, Zenon DEF After
  <2> QED
    BY <1>0, <1>5, <2>1, Zenon DEF Advanced
<1> QED
  BY <1>1, <1>2, <1>3, <1>4, <1>5, Zenon

(* A failed rotation or approval is over, a failed pairing waits again.    *)
LEMMA EndedOp ==
  ASSUME NEW o \in OpRows, Stage(o), o.kind # "none"
  PROVE  /\ Ended(o) \in OpRows /\ Stage(Ended(o))
         /\ \/ Ended(o) = Idle
            \/ /\ o.kind = "pair" /\ Ended(o).kind = "pair" /\ Ended(o).at = "wait"
               /\ Ended(o).key = o.key /\ Ended(o).old = o.old
<1>1. Idle \in OpRows /\ Stage(Idle)
  BY Zenon DEF Idle, OpRows, Ats, MaybeKey, Stage, Making
<1>2. /\ [o EXCEPT !.at = "wait"] \in OpRows /\ [o EXCEPT !.at = "wait"].at = "wait"
      /\ [o EXCEPT !.at = "wait"].kind = o.kind /\ [o EXCEPT !.at = "wait"].key = o.key
      /\ [o EXCEPT !.at = "wait"].old = o.old
  BY Zenon DEF OpRows, Ats
<1> QED
  BY <1>1, <1>2, Zenon DEF Ended, Stage, Making

(* Steps that make no key set and bring none into a vault keep the         *)
(* invariant: operations go on, fail or end, pairings are approved or      *)
(* expire, sessions end, pages open and close, and keys are revoked by     *)
(* hand or when they are neither stored nor about to be.                   *)
LEMMA RingQuiet ==
  ASSUME Ringed, RingInv, RingTypes',
         \A k \in Keys :
           /\ pairing'[k].of = pairing[k].of
           /\ pairing[k].status = "consumed" => pairing'[k].status = "consumed"
           /\ pairing[k].status # "none" => pairing'[k].status # "none",
         \A t \in Threads : ops'[t].kind \in Making =>
           /\ ops[t].kind = ops'[t].kind
           /\ ops[t].key = ops'[t].key /\ ops[t].old = ops'[t].old
           /\ \/ ops'[t].at = ops[t].at
              \/ ops[t].at # "revoke" /\ ops'[t].at \notin {"store", "revoke"},
         \A d \in Devices :
           /\ page'[d].stored \in {page[d].stored, None}
           /\ page'[d].vault \in {page[d].vault, page[d].stored, None}
           /\ session'[d].key \in {session[d].key, None}
           /\ ~session'[d].live => d \in ghost'.ended,
         \A k \in Keys : keys'[k] # keys[k] =>
           /\ keys[k] # "none"
           /\ \/ k \in ghost'.byHand
              \/ /\ \A t \in Threads : ops[t].at = "store" => ops[t].key # k
                 /\ \A d \in Devices : page[d].stored # k,
         ghost.byHand \subseteq ghost'.byHand
  PROVE  RingInv'
<1> USE DEF RingInv
<1>1. \A t \in Threads :
        /\ Stage(ops[t]) /\ Stage(ops'[t])
        /\ t[1] \in Devices
        /\ ops[t].kind \in Making => ops[t].key \in Keys
        /\ ops[t].old \in Keys \cup {None}
  BY DEF RingTypes, OpRows, MaybeKey, Threads, Stage
<1>2. Makes'
  BY <1>1 DEF Makes
<1>3. OneMaker'
  BY Zenon DEF OneMaker
<1>4. ASSUME NEW k \in Keys, NEW d \in Devices, Made(k, d) PROVE Made(k, d)'
  BY <1>4, Zenon DEF Made
<1>5. Vaults'
  <2>1. \A d \in Devices : page[d].vault \in Keys \cup {None} /\ page[d].stored \in Keys \cup {None}
    BY Zenon DEF RingTypes, PageRows, MaybeKey
  <2>2. SUFFICES ASSUME NEW d \in Devices, NEW k \in Keys,
                        k = page'[d].vault \/ k = page'[d].stored
                 PROVE  Made(k, d)'
    <3>1. \A d \in Devices : page'[d].vault \in Keys \cup {None}
                             /\ page'[d].stored \in Keys \cup {None}
      BY <2>1, Zenon
    <3> QED
      BY <3>1 DEF Vaults, Made
  <2>3. k = page[d].vault \/ k = page[d].stored
    BY <2>2 DEF Ringed
  <2>4. Made(k, d)
    BY <2>1, <2>3 DEF Vaults, Ringed
  <2> QED
    BY <1>4, <2>4, Zenon
<1>6. Formers'
  <2> SUFFICES ASSUME NEW t \in Threads, ops'[t].kind = "rotate", ops'[t].old # None
               PROVE  Made(ops[t].old, t[1])' /\ ops'[t].old # ops'[t].key
    BY Zenon DEF Formers, Made
  <2>1. /\ ops[t].kind = "rotate" /\ ops[t].old # None /\ ops[t].old = ops'[t].old
        /\ ops[t].key = ops'[t].key
    BY Zenon DEF Making
  <2>2. PICK k \in Keys : k = ops[t].old
    BY <1>1, <2>1, Zenon
  <2>3. PICK d \in Devices : d = t[1]
    BY <1>1, Zenon
  <2>4. Made(k, d) /\ k # ops[t].key
    BY <2>1, <2>2, <2>3, Zenon DEF Formers
  <2>5. Made(k, d)'
    BY <1>4, <2>4, Zenon
  <2> QED
    BY <2>1, <2>2, <2>3, <2>4, <2>5, Zenon DEF Made
<1>7. AtStore'
  <2> SUFFICES ASSUME NEW t \in Threads, ops'[t].at = "store"
               PROVE  /\ pairing'[ops'[t].key].status = "consumed"
                      /\ keys'[ops'[t].key] = "active" \/ ops'[t].key \in ghost'.byHand
    BY Zenon DEF AtStore
  <2>1. ops'[t].kind \in Making
    BY <1>1, Zenon DEF Stage
  <2>2. ops[t].at = "store" /\ ops[t].key = ops'[t].key /\ ops[t].key \in Keys
    BY <1>1, <2>1, Zenon
  <2>3. /\ pairing[ops[t].key].status = "consumed"
        /\ keys[ops[t].key] = "active" \/ ops[t].key \in ghost.byHand
    BY <2>2, Zenon DEF AtStore
  <2> QED
    BY <2>2, <2>3, Zenon
<1>8. Rebound'
  <2> SUFFICES ASSUME NEW t \in Threads, ops'[t].kind = "rotate",
                      ops'[t].at \in {"store", "revoke"}, ops'[t].old # None
               PROVE  session'[t[1]].key # ops'[t].old
    BY Zenon DEF Rebound
  <2>1. /\ ops[t].kind = "rotate" /\ ops[t].at \in {"store", "revoke"}
        /\ ops[t].old = ops'[t].old
    BY Zenon DEF Making
  <2>2. session[t[1]].key # ops[t].old
    BY <2>1, Zenon DEF Rebound
  <2> QED
    BY <1>1, <2>1, <2>2, Zenon
<1>9. Replaced'
  <2> SUFFICES ASSUME NEW t \in Threads, ops'[t].at = "revoke"
               PROVE  page'[t[1]].stored # ops'[t].old
    BY Zenon DEF Replaced
  <2>1. ops'[t].kind \in Making /\ ops'[t].old # None
    BY <1>1, Zenon DEF Stage, Making
  <2>2. ops[t].at = "revoke" /\ ops[t].old = ops'[t].old
    BY <2>1, Zenon
  <2> QED
    BY <1>1, <2>1, <2>2 DEF Replaced
<1>10. BoundOwn'
  BY DEF BoundOwn, RingTypes, SessionRows, MaybeKey
<1>11. Registered'
  BY DEF Registered
<1>12. SessionKept'
  BY Zenon DEF SessionKept
<1>13. RotationKeepsKey'
  <2> SUFFICES ASSUME NEW d \in Devices, page'[d].stored # None,
                      keys'[page'[d].stored] # "active"
               PROVE  page'[d].stored \in ghost'.byHand
    BY Zenon DEF RotationKeepsKey
  <2>1. page'[d].stored = page[d].stored /\ page[d].stored \in Keys
    BY DEF RingTypes, PageRows, MaybeKey
  <2> QED
    BY <2>1, ZenonT(30) DEF RotationKeepsKey
<1> QED
  BY <1>2, <1>3, <1>5, <1>6, <1>7, <1>8, <1>9, <1>10, <1>11, <1>12, <1>13, Zenon

(* The operation of one thread goes on without storing or revoking.        *)
Onward(o, n) ==
  n.kind \in Making =>
    /\ o.kind = n.kind /\ o.key = n.key /\ o.old = n.old
    /\ n.at = o.at \/ (o.at # "revoke" /\ n.at \notin {"store", "revoke"})

(* ... and nothing else changes but the page's report on a message.        *)
LEMMA OneOp ==
  ASSUME Ringed, RingInv, NEW t \in Threads, NEW n \in OpRows, Stage(n),
         ops' = [ops EXCEPT ![t] = n], Onward(ops[t], n),
         page' \in [Devices -> PageRows],
         \A d \in Devices : page'[d].stored = page[d].stored /\ page'[d].vault = page[d].vault,
         UNCHANGED <<keys, pairing, session, ghost>>
  PROVE  RingInv'
<1>1. /\ ops' \in [Threads -> OpRows] /\ ops'[t] = n
      /\ \A u \in Threads : u # t => ops'[u] = ops[u]
  BY Zenon DEF RingInv, RingTypes
<1>2. RingTypes'
  BY <1>1, Zenon DEF RingInv, RingTypes
<1>3. \A u \in Threads : Onward(ops[u], ops'[u])
  BY <1>1, Zenon DEF Onward
<1>4. \A d \in Devices : ~session[d].live => d \in ghost.ended
  BY Zenon DEF RingInv, SessionKept
<1> QED
  BY <1>2, <1>3, <1>4, RingQuiet, Zenon DEF Onward

(* The requests of an operation that register nothing.                     *)
LEMMA RingRequests ==
  ASSUME Ringed, RingInv, NEW t \in Threads,
         \/ CompletePairing(t) \/ CancelPairing(t) \/ ApprovalChecked(t)
         \/ Refused(t) \/ Failed(t) \/ PeerSent(t) \/ SelfSent(t)
  PROVE  RingInv'
<1>0. /\ ops[t] \in OpRows /\ Stage(ops[t]) /\ page \in [Devices -> PageRows]
      /\ t[1] \in Devices
  BY Zenon DEF RingInv, RingTypes, Threads
<1>a. Idle \in OpRows /\ Stage(Idle) /\ Idle.kind = "none"
  BY Zenon DEF Idle, OpRows, Ats, MaybeKey, Stage, Making
<1>1. CASE CompletePairing(t)
  <2> DEFINE n == [ops[t] EXCEPT !.at = "consume"]
  <2>1. n \in OpRows /\ Stage(n) /\ Onward(ops[t], n)
    BY <1>0, <1>1, Zenon DEF CompletePairing, OpRows, Ats, Stage, Making, Onward
  <2>2. ops' = [ops EXCEPT ![t] = n]
    BY <1>1, Zenon DEF CompletePairing
  <2> HIDE DEF n
  <2> QED
    BY <1>0, <1>1, <2>1, <2>2, OneOp, Zenon DEF CompletePairing
<1>2. CASE CancelPairing(t)
  <2>1. Onward(ops[t], Idle)
    BY <1>a, Zenon DEF Onward, Making
  <2> QED
    BY <1>0, <1>a, <1>2, <2>1, OneOp, Zenon DEF CancelPairing
<1>3. CASE ApprovalChecked(t)
  <2> DEFINE a == Advanced(ops[t])
             b == IF Active = {} THEN None ELSE ops[t].old
             n == [a EXCEPT !.by = b]
  <2>1. ops' = [ops EXCEPT ![t] = n] /\ ops[t].at = "approve"
    BY <1>3, Zenon DEF ApprovalChecked
  <2>2. /\ a \in OpRows /\ Stage(a) /\ a.at = "write"
        /\ a.kind # "none" => a.kind = ops[t].kind /\ a.key = ops[t].key /\ a.old = ops[t].old
    BY <1>0, <1>a, <2>1, AdvancedOp, Zenon
  <2>3. b \in MaybeKey
    BY <1>0, Zenon DEF OpRows, MaybeKey
  <2> HIDE DEF a, b
  <2>4. /\ n \in OpRows /\ n.at = "write" /\ n.kind = a.kind /\ n.key = a.key /\ n.old = a.old
    BY <2>2, <2>3, Zenon DEF OpRows
  <2>5. Stage(n) /\ Onward(ops[t], n)
    BY <2>1, <2>2, <2>4, Zenon DEF Stage, Onward, Making
  <2> HIDE DEF n
  <2> QED
    BY <1>0, <1>3, <2>1, <2>4, <2>5, OneOp, Zenon DEF ApprovalChecked
<1>4. CASE Refused(t) \/ Failed(t)
  <2> DEFINE n == Ended(ops[t])
  <2>1. /\ ops' = [ops EXCEPT ![t] = n] /\ UNCHANGED <<keys, pairing, session, page, ghost>>
        /\ ops[t].at \in {"approve", "write", "consume", "revoke"}
    BY <1>4, Zenon DEF Refused, Refusal, Failed
  <2>2. ops[t].kind # "none" /\ (ops[t].kind = "pair" => ops[t].at # "revoke")
    BY <1>0, <2>1, Zenon DEF Stage
  <2>3. n \in OpRows /\ Stage(n) /\ Onward(ops[t], n)
    BY <1>0, <1>a, <2>2, EndedOp, Zenon DEF Onward, Making
  <2> HIDE DEF n
  <2> QED
    BY <1>0, <2>1, <2>3, OneOp, ZenonT(30)
<1>5. CASE PeerSent(t)
  <2>1. PICK ok \in BOOLEAN :
          /\ ops' = [ops EXCEPT ![t] = IF ok THEN [@ EXCEPT !.at = "self"] ELSE Idle]
          /\ page' = [page EXCEPT ![t[1]].got = ok,
                                  ![t[1]].send = IF ok THEN "none" ELSE "error"]
    BY <1>5, Zenon DEF PeerSent, RecipientAccepted, Target, SenderAccepted
  <2> DEFINE n == IF ok THEN [ops[t] EXCEPT !.at = "self"] ELSE Idle
  <2>2. n \in OpRows /\ Stage(n) /\ Onward(ops[t], n)
    BY <1>0, <1>a, <1>5, Zenon DEF PeerSent, OpRows, Ats, Stage, Making, Onward
  <2>3. ops' = [ops EXCEPT ![t] = n]
    BY <2>1, Zenon
  <2>4. /\ page' \in [Devices -> PageRows]
        /\ \A d \in Devices : page'[d].stored = page[d].stored /\ page'[d].vault = page[d].vault
    BY <1>0, <2>1 DEF PageRows
  <2> HIDE DEF n
  <2> QED
    BY <1>5, <2>2, <2>3, <2>4, OneOp, Zenon DEF PeerSent
<1>6. CASE SelfSent(t)
  <2>1. /\ page' \in [Devices -> PageRows]
        /\ \A d \in Devices : page'[d].stored = page[d].stored /\ page'[d].vault = page[d].vault
    BY <1>0, <1>6 DEF SelfSent, PageRows
  <2>2. Onward(ops[t], Idle)
    BY <1>a, Zenon DEF Onward, Making
  <2> QED
    BY <1>a, <1>6, <2>1, <2>2, OneOp, Zenon DEF SelfSent
<1> QED
  BY <1>1, <1>2, <1>3, <1>4, <1>5, <1>6, Zenon

(* What the user does short of making a key set.                           *)
LEMMA RingUser ==
  ASSUME Ringed, RingInv, NEW d \in Devices,
         \/ \E s \in Slots : Send(d, s) \/ \E k \in Keys : ApproveNewDevice(d, s, k)
         \/ \E k \in Keys : RevokeDeviceKey(d, k)
         \/ \E e \in Devices : RevokeDevice(d, e)
         \/ \E v \in MaybeKey : LockAndUnlock(d, v) \/ Reload(d, v)
         \/ Logout(d) \/ Login(d)
  PROVE  RingInv'
<1>0. /\ keys \in [Keys -> {"none", "active", "revoked"}]
      /\ session \in [Devices -> SessionRows] /\ page \in [Devices -> PageRows]
      /\ ops \in [Threads -> OpRows]
      /\ ghost \in [byHand : SUBSET Keys, ended : SUBSET Devices,
                    unattested : SUBSET Keys, stale : SUBSET Keys]
      /\ \A t \in Threads : Stage(ops[t])
      /\ \A e \in Devices : ~session[e].live => e \in ghost.ended
  BY Zenon DEF RingInv, RingTypes, SessionKept
<1>a. Idle \in OpRows /\ Stage(Idle) /\ Idle.kind = "none"
  BY Zenon DEF Idle, OpRows, Ats, MaybeKey, Stage, Making
<1>1. ASSUME NEW s \in Slots, Send(d, s) PROVE RingInv'
  <2> DEFINE t == <<d, s>>
             n == [at |-> "peer", kind |-> "send", key |-> None, old |-> ProofKey(d),
                   by |-> None]
  <2>1. t \in Threads /\ ops' = [ops EXCEPT ![t] = n]
    BY <1>1, Zenon DEF Send, Threads
  <2>2. n \in OpRows /\ Stage(n) /\ Onward(ops[t], n)
    BY <1>0, Zenon DEF ProofKey, PageRows, OpRows, Ats, MaybeKey, Stage, Making, Onward
  <2>3. /\ page' \in [Devices -> PageRows]
        /\ \A e \in Devices : page'[e].stored = page[e].stored /\ page'[e].vault = page[e].vault
    BY <1>0, <1>1, ZenonT(30) DEF Send, PageRows
  <2> HIDE DEF t, n
  <2> QED
    BY <1>1, <2>1, <2>2, <2>3, OneOp, Zenon DEF Send
<1>2. ASSUME NEW s \in Slots, NEW k \in Keys, ApproveNewDevice(d, s, k) PROVE RingInv'
  <2> DEFINE t == <<d, s>>
             n == [at |-> "approve", kind |-> "approve", key |-> k,
                   old |-> ApprovalKey(d), by |-> None]
  <2>1. t \in Threads /\ ops' = [ops EXCEPT ![t] = n]
    BY <1>2, Zenon DEF ApproveNewDevice, Threads
  <2>2. n \in OpRows /\ Stage(n) /\ Onward(ops[t], n)
    BY <1>0, Zenon DEF ApprovalKey, PageRows, OpRows, Ats, MaybeKey, Stage, Making, Onward
  <2> HIDE DEF t, n
  <2> QED
    BY <1>0, <1>2, <2>1, <2>2, OneOp, ZenonT(30) DEF ApproveNewDevice
<1>3. ASSUME NEW k \in Keys, RevokeDeviceKey(d, k) PROVE RingInv'
  <2>1. /\ keys' = [keys EXCEPT ![k] = "revoked"] /\ keys[k] = "active"
        /\ UNCHANGED <<pairing, page, ops>>
    BY <1>3, ZenonT(30) DEF RevokeDeviceKey, KeyRevoked, RevokeOffered
  <2>2. /\ session' \in [Devices -> SessionRows]
        /\ \A e \in Devices : /\ session'[e].key = session[e].key
                              /\ ~session'[e].live => ~session[e].live \/ e \in Bound(k)
    BY <1>0, <1>3, ZenonT(30) DEF RevokeDeviceKey, KeyRevoked, SessionRows
  <2>3. /\ ghost' \in [byHand : SUBSET Keys, ended : SUBSET Devices,
                       unattested : SUBSET Keys, stale : SUBSET Keys]
        /\ ghost'.byHand = ghost.byHand \cup {k}
        /\ ghost'.ended = ghost.ended \cup Bound(k)
    BY <1>0, <1>3, Zenon DEF RevokeDeviceKey, Bound
  <2>4. RingTypes'
    BY <1>0, <2>1, <2>2, <2>3, Zenon DEF RingInv, RingTypes
  <2>5. \A j \in Keys : keys'[j] # keys[j] => keys[j] # "none" /\ j \in ghost'.byHand
    BY <1>0, <2>1, <2>3, Zenon
  <2>6. \A e \in Devices : ~session'[e].live => e \in ghost'.ended
    BY <1>0, <2>2, <2>3, Zenon
  <2> QED
    BY <2>1, <2>2, <2>3, <2>4, <2>5, <2>6, RingQuiet, Zenon
<1>4. ASSUME NEW e \in Devices, RevokeDevice(d, e) PROVE RingInv'
  <2>1. UNCHANGED <<keys, pairing, page, ops>>
    BY <1>4, Zenon DEF RevokeDevice
  <2>2. /\ session' \in [Devices -> SessionRows]
        /\ \A f \in Devices : /\ session'[f].key = session[f].key
                              /\ ~session'[f].live => ~session[f].live \/ f = e
    BY <1>0, <1>4, Zenon DEF RevokeDevice, SessionRows
  <2>3. /\ ghost' \in [byHand : SUBSET Keys, ended : SUBSET Devices,
                       unattested : SUBSET Keys, stale : SUBSET Keys]
        /\ ghost'.byHand = ghost.byHand /\ ghost'.ended = ghost.ended \cup {e}
    BY <1>0, <1>4, Zenon DEF RevokeDevice
  <2>4. RingTypes'
    BY <1>0, <2>1, <2>2, <2>3, Zenon DEF RingInv, RingTypes
  <2>5. \A f \in Devices : ~session'[f].live => f \in ghost'.ended
    BY <1>0, <2>2, <2>3, Zenon
  <2> QED
    BY <2>1, <2>2, <2>3, <2>4, <2>5, RingQuiet, Zenon
<1>5. ASSUME NEW v \in MaybeKey, LockAndUnlock(d, v) PROVE RingInv'
  <2>1. UNCHANGED <<keys, pairing, session, ops, ghost>>
    BY <1>5, Zenon DEF LockAndUnlock
  <2>2. /\ page' \in [Devices -> PageRows]
        /\ \A e \in Devices : /\ page'[e].stored = page[e].stored
                              /\ page'[e].vault \in {page[e].vault, page[e].stored, None}
    BY <1>0, <1>5, ZenonT(30) DEF LockAndUnlock, PageRows
  <2>3. RingTypes'
    BY <2>1, <2>2, Zenon DEF RingInv, RingTypes
  <2> QED
    BY <1>0, <2>1, <2>2, <2>3, RingQuiet, Zenon
<1>6. ASSUME NEW v \in MaybeKey, Reload(d, v) PROVE RingInv'
  <2>1. UNCHANGED <<keys, pairing, session, ghost>>
    BY <1>6, Zenon DEF Reload
  <2>2. /\ page' \in [Devices -> PageRows]
        /\ \A e \in Devices : /\ page'[e].stored = page[e].stored
                              /\ page'[e].vault \in {page[e].vault, page[e].stored, None}
    <3> DEFINE p == [page[d] EXCEPT !.vault = v, !.send = "none", !.got = FALSE]
    <3>1. p \in PageRows /\ p.stored = page[d].stored /\ p.vault = v
      BY <1>0, ZenonT(30) DEF PageRows
    <3>2. page' = [page EXCEPT ![d] = p] /\ v \in {page[d].stored, None}
      BY <1>0, <1>6, ZenonT(30) DEF Reload
    <3> HIDE DEF p
    <3> QED
      BY <1>0, <3>1, <3>2, Zenon
  <2>3. /\ ops' \in [Threads -> OpRows]
        /\ \A t \in Threads : ops'[t] \in {ops[t], Idle}
    BY <1>0, <1>a, <1>6, ZenonT(30) DEF Reload
  <2>4. RingTypes'
    BY <1>0, <1>a, <2>1, <2>2, <2>3, Zenon DEF RingInv, RingTypes
  <2>5. \A t \in Threads : ops'[t].kind \in Making => ops'[t] = ops[t]
    BY <1>a, <2>3, Zenon DEF Making
  <2> QED
    BY <1>0, <2>1, <2>2, <2>4, <2>5, RingQuiet, Zenon
<1>7. CASE Logout(d)
  <2>1. UNCHANGED <<keys, pairing, ops>>
    BY <1>7, Zenon DEF Logout
  <2>2. /\ page' \in [Devices -> PageRows]
        /\ \A e \in Devices : /\ page'[e].stored \in {page[e].stored, None}
                              /\ page'[e].vault \in {page[e].vault, None}
    BY <1>0, <1>7, Zenon DEF Logout, PageRows, MaybeKey
  <2>3. /\ session' \in [Devices -> SessionRows]
        /\ \A f \in Devices : /\ session'[f].key = session[f].key
                              /\ ~session'[f].live => ~session[f].live \/ f = d
    BY <1>0, <1>7, Zenon DEF Logout, SessionRows
  <2>4. /\ ghost' \in [byHand : SUBSET Keys, ended : SUBSET Devices,
                       unattested : SUBSET Keys, stale : SUBSET Keys]
        /\ ghost'.byHand = ghost.byHand /\ ghost'.ended = ghost.ended \cup {d}
    BY <1>0, <1>7, Zenon DEF Logout
  <2>5. RingTypes'
    BY <2>1, <2>2, <2>3, <2>4, Zenon DEF RingInv, RingTypes
  <2>6. \A f \in Devices : ~session'[f].live => f \in ghost'.ended
    BY <1>0, <2>3, <2>4, Zenon
  <2> QED
    BY <2>1, <2>2, <2>3, <2>4, <2>5, <2>6, RingQuiet, Zenon
<1>8. CASE Login(d)
  <2>1. UNCHANGED <<keys, pairing, ops>>
    BY <1>8, Zenon DEF Login
  <2>2. /\ page' \in [Devices -> PageRows]
        /\ \A e \in Devices : /\ page'[e].stored = page[e].stored
                              /\ page'[e].vault \in {page[e].vault, page[e].stored}
    <3> DEFINE p == [page[d] EXCEPT !.open = TRUE, !.vault = page[d].stored,
                                    !.send = "none", !.got = FALSE]
    <3>1. p \in PageRows /\ p.stored = page[d].stored /\ p.vault = page[d].stored
      BY <1>0, Zenon DEF PageRows
    <3>2. page' = [page EXCEPT ![d] = p]
      BY <1>0, <1>8, Zenon DEF Login
    <3> HIDE DEF p
    <3> QED
      BY <1>0, <3>1, <3>2, Zenon
  <2>3. /\ session' \in [Devices -> SessionRows] /\ session'[d].live
        /\ \A f \in Devices : /\ session'[f].key \in {session[f].key, None}
                              /\ f # d => session'[f] = session[f]
    BY <1>0, <1>8, Zenon DEF Login, SessionRows, MaybeKey
  <2>4. /\ ghost' \in [byHand : SUBSET Keys, ended : SUBSET Devices,
                       unattested : SUBSET Keys, stale : SUBSET Keys]
        /\ ghost'.byHand = ghost.byHand /\ ghost'.ended = ghost.ended \ {d}
    BY <1>0, <1>8, Zenon DEF Login
  <2>5. RingTypes'
    BY <2>1, <2>2, <2>3, <2>4, Zenon DEF RingInv, RingTypes
  <2>6. \A f \in Devices : ~session'[f].live => f \in ghost'.ended
    BY <1>0, <2>3, <2>4, Zenon
  <2> QED
    BY <2>1, <2>2, <2>3, <2>4, <2>5, <2>6, RingQuiet, Zenon
<1> QED
  BY <1>1, <1>2, <1>3, <1>4, <1>5, <1>6, <1>7, <1>8, Zenon

(* A pairing that is approved or expires, and the revocation that ends a   *)
(* rotation: no session is bound to the former key set any more.           *)
LEMMA RingEnds ==
  ASSUME Ringed, RingInv,
         \/ \E k \in Keys : Expires(k)
         \/ \E t \in Threads : ApprovalWritten(t) \/ FormerRevoked(t)
  PROVE  RingInv'
<1>0. /\ keys \in [Keys -> {"none", "active", "revoked"}]
      /\ pairing \in [Keys -> PairingRows] /\ session \in [Devices -> SessionRows]
      /\ ops \in [Threads -> OpRows]
      /\ \A t \in Threads : Stage(ops[t]) /\ t[1] \in Devices
      /\ \A e \in Devices : ~session[e].live => e \in ghost.ended
  BY Zenon DEF RingInv, RingTypes, SessionKept, Threads
<1>a. Idle \in OpRows /\ Stage(Idle) /\ Idle.kind = "none"
  BY Zenon DEF Idle, OpRows, Ats, MaybeKey, Stage, Making
<1>1. ASSUME NEW k \in Keys, Expires(k) PROVE RingInv'
  <2>1. /\ pairing' \in [Keys -> PairingRows]
        /\ \A j \in Keys : /\ pairing'[j].of = pairing[j].of
                           /\ pairing[j].status = "consumed" => pairing'[j].status = "consumed"
                           /\ pairing[j].status # "none" => pairing'[j].status # "none"
    BY <1>0, <1>1, Zenon DEF Expires, PairingRows
  <2>2. UNCHANGED <<keys, session, page, ops, ghost>>
    BY <1>1, Zenon DEF Expires
  <2>3. RingTypes'
    BY <2>1, <2>2, Zenon DEF RingInv, RingTypes
  <2> QED
    BY <1>0, <2>1, <2>2, <2>3, RingQuiet, Zenon
<1>2. ASSUME NEW t \in Threads, ops[t].at \in {"write", "revoke"}, Answered(t)
      PROVE  /\ ops' \in [Threads -> OpRows]
             /\ \A u \in Threads : Stage(ops'[u]) /\ Onward(ops[u], ops'[u])
  <2>1. ops[t] \in OpRows /\ Stage(ops[t]) /\ ops[t].kind # "none"
    BY <1>0, <1>2, Zenon DEF Stage
  <2>2. PICK n \in {Advanced(ops[t]), Ended(ops[t])} : ops' = [ops EXCEPT ![t] = n]
    BY <1>2, Zenon DEF Answered
  <2>3. n \in OpRows /\ Stage(n) /\ Onward(ops[t], n)
    <3>1. CASE n = Advanced(ops[t])
      <4>1. /\ n \in OpRows /\ Stage(n) /\ n.at \in {"consume", "idle"}
            /\ ops[t].at = "revoke" => n.at = "idle"
            /\ n = Idle \/ (n.kind = ops[t].kind /\ n.key = ops[t].key
                                 /\ n.old = ops[t].old)
        BY <1>2, <2>1, <3>1, AdvancedOp, Zenon
      <4> QED
        BY <1>a, <1>2, <4>1, Zenon DEF Onward, Making, Stage
    <3>2. CASE n = Ended(ops[t])
      <4>1. ops[t].kind # "pair"
        BY <1>2, <2>1, Zenon DEF Stage, Making
      <4> QED
        BY <1>a, <2>1, <3>2, <4>1, EndedOp, Zenon DEF Onward, Making
    <3> QED
      BY <3>1, <3>2, Zenon
  <2>4. /\ ops' \in [Threads -> OpRows] /\ ops'[t] = n
        /\ \A u \in Threads : u # t => ops'[u] = ops[u]
    BY <1>0, <2>2, <2>3, Zenon
  <2> QED
    BY <1>0, <2>3, <2>4, Zenon DEF Onward
<1>3. ASSUME NEW t \in Threads, ApprovalWritten(t) PROVE RingInv'
  <2>1. /\ ops' \in [Threads -> OpRows]
        /\ \A u \in Threads : Stage(ops'[u]) /\ Onward(ops[u], ops'[u])
    BY <1>2, <1>3, Zenon DEF ApprovalWritten
  <2>2. /\ pairing[ops[t].key].status = "pending"
        /\ pairing' = [pairing EXCEPT ![ops[t].key].status = "approved",
                                      ![ops[t].key].by = ops[t].by]
        /\ UNCHANGED <<keys, session, page, ghost>>
    BY <1>3, Zenon DEF ApprovalWritten
  <2>3. ops[t].key \in Keys /\ ops[t].by \in MaybeKey
    BY <1>0, <1>3, Zenon DEF ApprovalWritten, Stage, OpRows, Making
  <2>4. /\ pairing' \in [Keys -> PairingRows]
        /\ \A j \in Keys : /\ pairing'[j].of = pairing[j].of
                           /\ pairing[j].status = "consumed" => pairing'[j].status = "consumed"
                           /\ pairing[j].status # "none" => pairing'[j].status # "none"
    <3> DEFINE r == [pairing[ops[t].key] EXCEPT !.status = "approved", !.by = ops[t].by]
    <3>1. r \in PairingRows /\ r.of = pairing[ops[t].key].of /\ r.status = "approved"
      BY <1>0, <2>3, Zenon DEF PairingRows
    <3>2. pairing' = [pairing EXCEPT ![ops[t].key] = r]
      BY <1>0, <2>2, <2>3, Zenon
    <3> HIDE DEF r
    <3> QED
      BY <1>0, <2>2, <2>3, <3>1, <3>2
  <2>5. RingTypes'
    BY <2>1, <2>2, <2>4, Zenon DEF RingInv, RingTypes
  <2> QED
    BY <1>0, <2>1, <2>2, <2>4, <2>5, RingQuiet, Zenon DEF Onward
<1>4. ASSUME NEW t \in Threads, FormerRevoked(t) PROVE RingInv'
  <2>1. /\ ops' \in [Threads -> OpRows]
        /\ \A u \in Threads : Stage(ops'[u]) /\ Onward(ops[u], ops'[u])
    BY <1>2, <1>4, Zenon DEF FormerRevoked
  <2>2. PICK o \in Keys : o = ops[t].old
    BY <1>0, <1>4, Zenon DEF FormerRevoked, Stage, OpRows, MaybeKey
  <2>3. PICK d \in Devices : d = t[1]
    BY <1>0, Zenon
  <2>4. /\ ops[t].at = "revoke" /\ ops[t].kind = "rotate" /\ o # None
        /\ Made(o, d) /\ session[d].key # o /\ page[d].stored # o
    BY <1>0, <1>4, <2>2, <2>3, Zenon
    DEF FormerRevoked, Stage, RingInv, Formers, Rebound, Replaced
  <2>5. \A e \in Devices : session[e].key # o /\ page[e].stored # o
    BY <2>2, <2>3, <2>4 DEF RingInv, BoundOwn, Vaults, Made
  <2>6. /\ session' = session /\ keys' = [keys EXCEPT ![o] = "revoked"] /\ keys[o] = "active"
        /\ UNCHANGED <<pairing, page, ghost>>
    <3>1. Bound(o) = {}
      BY <2>5, Zenon DEF Bound
    <3> QED
      BY <1>0, <1>4, <2>2, <3>1, Zenon DEF FormerRevoked, KeyRevoked
  <2>7. \A k \in Keys : keys'[k] # keys[k] =>
          /\ keys[k] # "none"
          /\ \A u \in Threads : ops[u].at = "store" => ops[u].key # k
          /\ \A e \in Devices : page[e].stored # k
    <3>1. \A u \in Threads : ops[u].at = "store" => ops[u].key # o
      BY <1>0, <2>4, Zenon DEF Made, Stage
    <3> QED
      BY <1>0, <2>5, <2>6, <3>1, Zenon
  <2>8. RingTypes'
    BY <1>0, <2>1, <2>6, Zenon DEF RingInv, RingTypes
  <2> QED
    BY <1>0, <2>1, <2>6, <2>7, <2>8, RingQuiet, Zenon DEF Onward
<1> QED
  BY <1>1, <1>3, <1>4, Zenon

(* A rotation or a pairing starts with a key set nobody has used.          *)
LEMMA RingStart ==
  ASSUME Ringed, RingInv, RingTypes',
         NEW t \in Threads, NEW n \in OpRows, NEW k \in Keys, NEW r \in PairingRows,
         pairing[k].status = "none", r.status = "pending", r.of = t[1],
         pairing' = [pairing EXCEPT ![k] = r],
         ops' = [ops EXCEPT ![t] = n],
         n.kind \in Making, n.key = k, n.at \in {"approve", "wait"},
         n.old \in {page[t[1]].vault, None},
         \A e \in Devices : /\ session'[e].key \in {session[e].key, None}
                            /\ ~session'[e].live => e \in ghost'.ended,
         ghost'.byHand = ghost.byHand, UNCHANGED <<keys, page>>
  PROVE  RingInv'
<1> USE DEF RingInv
<1>1. /\ pairing \in [Keys -> PairingRows] /\ pairing'[k] = r
      /\ \A j \in Keys : j # k => pairing'[j] = pairing[j]
      /\ ops'[t] = n /\ \A u \in Threads : u # t => ops'[u] = ops[u]
  BY Zenon DEF RingTypes
<1>2. \A u \in Threads :
        /\ Stage(ops[u]) /\ u[1] \in Devices
        /\ ops[u].kind \in Making => ops[u].key \in Keys /\ ops[u].key # k
        /\ ops[u].old \in Keys \cup {None}
  BY SMTT(30) DEF RingTypes, OpRows, MaybeKey, Threads, Stage, Makes
<1>3. ASSUME NEW j \in Keys, NEW e \in Devices, Made(j, e) PROVE Made(j, e)' /\ j # k
  BY <1>1, <1>3, SMTT(30) DEF Made
<1>4. \A e \in Devices : page[e].vault \in Keys \cup {None} /\ page[e].stored \in Keys \cup {None}
  BY Zenon DEF RingTypes, PageRows, MaybeKey
<1>5. Makes'
  BY <1>1, <1>2, SMTT(30) DEF Makes
<1>6. OneMaker'
  BY <1>1, <1>2 DEF OneMaker
<1>7. Vaults'
  <2> SUFFICES ASSUME NEW e \in Devices, NEW j \in Keys, j = page[e].vault \/ j = page[e].stored
               PROVE  Made(j, e)'
    BY <1>4 DEF Vaults, Made
  <2>1. Made(j, e)
    BY Zenon DEF Vaults, Ringed
  <2> QED
    BY <1>3, <2>1, Zenon
<1>8. Formers'
  <2> SUFFICES ASSUME NEW u \in Threads, ops'[u].kind = "rotate", ops'[u].old # None
               PROVE  Made(ops[u].old, u[1])' /\ ops'[u].old # ops'[u].key
    BY Zenon DEF Formers
  <2>1. PICK e \in Devices : e = u[1]
    BY <1>2, Zenon
  <2>2. CASE u = t
    <3>1. PICK j \in Keys : j = page[e].vault /\ ops'[u].old = j
      BY <1>1, <1>4, <2>1, <2>2, ZenonT(30)
    <3>2. Made(j, e)
      BY <3>1, Zenon DEF Vaults, Ringed
    <3>3. Made(j, e)' /\ j # k
      BY <1>3, <3>2, Zenon
    <3> QED
      BY <1>1, <2>1, <2>2, <3>1, <3>3 DEF Made
  <2>3. CASE u # t
    <3>1. PICK j \in Keys : j = ops[u].old /\ ops'[u] = ops[u]
      BY <1>1, <1>2, <2>3, Zenon
    <3>2. Made(j, e) /\ j # ops[u].key
      BY <1>1, <2>1, <2>3, <3>1, ZenonT(30) DEF Formers
    <3>3. Made(j, e)'
      BY <1>3, <3>2, Zenon
    <3> QED
      BY <2>1, <3>1, <3>2, <3>3, Zenon DEF Made
  <2> QED
    BY <2>2, <2>3, Zenon
<1>9. AtStore'
  BY <1>1, <1>2, SMTT(30) DEF AtStore, Stage
<1>10. Rebound'
  BY <1>1, <1>2 DEF Rebound
<1>11. Replaced'
  BY <1>1, ZenonT(30) DEF Replaced
<1>12. BoundOwn'
  BY <1>1, SMTT(30) DEF BoundOwn, RingTypes, SessionRows, MaybeKey
<1>13. Registered'
  BY <1>1, Zenon DEF Registered
<1>14. SessionKept' /\ RotationKeepsKey'
  BY Zenon DEF SessionKept, RotationKeepsKey
<1> QED
  BY <1>5, <1>6, <1>7, <1>8, <1>9, <1>10, <1>11, <1>12, <1>13, <1>14, Zenon

(* StartRotation of the profile pane, StartPairing of the sign-in page.    *)
LEMMA RingStarts ==
  ASSUME Ringed, RingInv, NEW d \in Devices, NEW s \in Slots, NEW k \in Keys,
         StartRotation(d, s, k) \/ StartPairing(d, s, k)
  PROVE  RingInv'
<1> DEFINE t == <<d, s>>
           r == [status |-> "pending", by |-> None, of |-> d]
<1>0. /\ t \in Threads /\ t[1] = d
      /\ r \in PairingRows /\ r.status = "pending" /\ r.of = d
      /\ page[d].vault \in MaybeKey
  BY Zenon DEF Threads, PairingRows, MaybeKey, RingInv, RingTypes, PageRows
<1>1. CASE StartRotation(d, s, k)
  <2> DEFINE n == [at |-> "approve", kind |-> "rotate", key |-> k,
                   old |-> ApprovalKey(d), by |-> None]
  <2>1. /\ n \in OpRows /\ Stage(n) /\ n.kind \in Making /\ n.key = k /\ n.at = "approve"
        /\ n.old = page[d].vault
    BY <1>0, Zenon DEF OpRows, Ats, ApprovalKey, MaybeKey, Stage, Making
  <2>2. /\ pairing[k].status = "none" /\ pairing' = [pairing EXCEPT ![k] = r]
        /\ ops' = [ops EXCEPT ![t] = n] /\ UNCHANGED <<keys, session, page, ghost>>
    BY <1>1, Zenon DEF StartRotation, NewKeySet, Fresh
  <2> HIDE DEF t, r, n
  <2>3. RingTypes'
    BY <1>0, <2>1, <2>2, Zenon DEF RingInv, RingTypes
  <2>4. \A e \in Devices : ~session[e].live => e \in ghost.ended
    BY Zenon DEF RingInv, SessionKept
  <2> QED
    BY <1>0, <2>1, <2>2, <2>3, <2>4, RingStart, ZenonT(30)
<1>2. CASE StartPairing(d, s, k)
  <2> DEFINE n == [at |-> "wait", kind |-> "pair", key |-> k, old |-> None, by |-> None]
  <2>1. /\ n \in OpRows /\ Stage(n) /\ n.kind \in Making /\ n.key = k /\ n.at = "wait"
        /\ n.old = None
    BY Zenon DEF OpRows, Ats, MaybeKey, Stage, Making
  <2>2. /\ pairing[k].status = "none" /\ pairing' = [pairing EXCEPT ![k] = r]
        /\ ops' = [ops EXCEPT ![t] = n] /\ UNCHANGED <<keys, page>>
    BY <1>2, Zenon DEF StartPairing, NewKeySet, Fresh
  <2>3. /\ session' \in [Devices -> SessionRows] /\ session'[d].live /\ session'[d].key = None
        /\ \A e \in Devices : e # d => session'[e] = session[e]
    BY <1>2, Zenon DEF StartPairing, RingInv, RingTypes, SessionRows, MaybeKey
  <2>4. /\ ghost' \in [byHand : SUBSET Keys, ended : SUBSET Devices,
                       unattested : SUBSET Keys, stale : SUBSET Keys]
        /\ ghost'.byHand = ghost.byHand /\ ghost'.ended = ghost.ended \ {d}
    BY <1>2, Zenon DEF StartPairing, RingInv, RingTypes
  <2> HIDE DEF t, r, n
  <2>5. RingTypes'
    BY <1>0, <2>1, <2>2, <2>3, <2>4, ZenonT(30) DEF RingInv, RingTypes
  <2>6. \A e \in Devices : /\ session'[e].key \in {session[e].key, None}
                           /\ ~session'[e].live => e \in ghost'.ended
    BY <2>3, <2>4, Zenon DEF RingInv, SessionKept
  <2> QED
    BY <1>0, <2>1, <2>2, <2>4, <2>5, <2>6, RingStart, ZenonT(30)
<1> QED
  BY <1>1, <1>2, Zenon

(* The pairing is consumed: its key set is registered, which it was not    *)
(* before, and bound to the session of its device.                         *)
LEMMA RingConsumed ==
  ASSUME Ringed, RingInv, NEW t \in Threads, Consumed(t)
  PROVE  RingInv' /\ keys[ops[t].key] = "none" /\ ops[t].key \in Keys
<1> USE DEF RingInv
<1>0. /\ ops[t] \in OpRows /\ Stage(ops[t]) /\ ops[t].at = "consume"
      /\ ops[t].kind \in Making /\ ops \in [Threads -> OpRows]
      /\ keys \in [Keys -> {"none", "active", "revoked"}]
      /\ pairing \in [Keys -> PairingRows] /\ session \in [Devices -> SessionRows]
  BY Zenon DEF RingTypes, Consumed, Stage
<1>1. PICK k \in Keys, d \in Devices : k = ops[t].key /\ d = t[1]
  BY <1>0, Zenon DEF Stage, Threads
<1>2. PICK n \in {Advanced(ops[t]), Ended(ops[t])} : ops' = [ops EXCEPT ![t] = n]
  BY Zenon DEF Consumed, Answered
<1>3. /\ n \in OpRows /\ Stage(n) /\ n.at # "revoke"
      /\ n.kind \in Making => n.kind = ops[t].kind /\ n.key = k /\ n.old = ops[t].old
  <2>1. Idle.kind = "none" /\ Idle.at = "idle"
    BY Zenon DEF Idle
  <2>2. CASE n = Advanced(ops[t])
    BY <1>0, <1>1, <2>1, <2>2, AdvancedOp, Zenon DEF Making
  <2>3. CASE n = Ended(ops[t])
    BY <1>0, <1>1, <2>1, <2>3, EndedOp, Zenon DEF Making
  <2> QED
    BY <2>2, <2>3, Zenon
<1>4. /\ ops' \in [Threads -> OpRows] /\ ops'[t] = n
      /\ \A u \in Threads : u # t => ops'[u] = ops[u]
  BY <1>0, <1>2, <1>3, Zenon
<1>5. /\ pairing[k].status = "approved" /\ pairing[k].of = d
      /\ pairing' = [pairing EXCEPT ![k].status = "consumed"]
      /\ keys' = [keys EXCEPT ![k] = "active"]
      /\ session' = [session EXCEPT ![d].key = k] /\ UNCHANGED page
  BY <1>0, <1>1, Zenon DEF Consumed, BoundSession, Makes
<1>6. /\ pairing' \in [Keys -> PairingRows] /\ pairing'[k].status = "consumed"
      /\ pairing'[k].of = d /\ \A j \in Keys : j # k => pairing'[j] = pairing[j]
  BY <1>0, <1>5, Zenon DEF PairingRows
<1>7. /\ session' \in [Devices -> SessionRows] /\ session'[d].key = k
      /\ session'[d].live = session[d].live
      /\ \A e \in Devices : e # d => session'[e] = session[e]
  BY <1>0, <1>5, Zenon DEF SessionRows, MaybeKey
<1>8. /\ ghost' \in [byHand : SUBSET Keys, ended : SUBSET Devices,
                     unattested : SUBSET Keys, stale : SUBSET Keys]
      /\ ghost'.byHand = ghost.byHand /\ ghost'.ended = ghost.ended
  <2>1. PICK a \in SUBSET Keys, b \in SUBSET Keys :
          ghost' = [ghost EXCEPT !.unattested = a, !.stale = b]
    <3> DEFINE a == IF Active # {} /\ pairing[k].by = None
                    THEN ghost.unattested \cup {k} ELSE ghost.unattested
               b == IF pairing[k].by # None /\ pairing[k].by \notin Active
                    THEN ghost.stale \cup {k} ELSE ghost.stale
    <3>1. ghost' = [ghost EXCEPT !.unattested = a, !.stale = b]
      BY <1>1, Zenon DEF Consumed
    <3>2. a \in SUBSET Keys /\ b \in SUBSET Keys
      BY Zenon DEF RingTypes
    <3> QED
      BY <3>1, <3>2, Zenon
  <2> QED
    BY <2>1, Zenon DEF RingTypes
<1>9. keys[k] = "none"
  BY <1>0, <1>5, Zenon DEF Registered
<1>10. RingTypes'
  BY <1>0, <1>3, <1>4, <1>5, <1>6, <1>7, <1>8, Zenon DEF RingTypes
<1>11. \A u \in Threads :
         /\ Stage(ops[u]) /\ u[1] \in Devices
         /\ ops[u].kind \in Making => ops[u].key \in Keys
         /\ u # t /\ ops[u].kind \in Making => ops[u].key # k
         /\ ops[u].old \in Keys \cup {None}
  BY <1>0, <1>1, Zenon DEF RingTypes, OpRows, MaybeKey, Threads, Stage, OneMaker
<1>12. ASSUME NEW j \in Keys, NEW e \in Devices, Made(j, e) PROVE Made(j, e)' /\ j # k
  BY <1>0, <1>1, <1>3, <1>4, <1>5, <1>6, <1>12 DEF Made
<1>13. Makes' /\ OneMaker'
  BY <1>0, <1>1, <1>3, <1>4, <1>5, <1>6, <1>11, SMTT(30) DEF Makes, OneMaker
<1>14. Vaults'
  <2>1. \A e \in Devices : page[e].vault \in Keys \cup {None} /\ page[e].stored \in Keys \cup {None}
    BY Zenon DEF RingTypes, PageRows, MaybeKey
  <2> SUFFICES ASSUME NEW e \in Devices, NEW j \in Keys, j = page[e].vault \/ j = page[e].stored
               PROVE  Made(j, e)'
    BY <1>5, <2>1, SMTT(30) DEF Vaults, Made
  <2>2. Made(j, e)
    BY Zenon DEF Vaults, Ringed
  <2> QED
    BY <1>12, <2>2, Zenon
<1>15. ASSUME NEW u \in Threads, ops'[u].kind = "rotate", ops'[u].old # None
       PROVE  /\ Made(ops[u].old, u[1])' /\ ops'[u].old # ops'[u].key /\ ops'[u].old # k
              /\ ops[u].old = ops'[u].old /\ ops[u].kind = "rotate"
  <2>1. /\ ops[u].kind = "rotate" /\ ops[u].old = ops'[u].old /\ ops[u].key = ops'[u].key
    BY <1>1, <1>3, <1>4, <1>15, Zenon DEF Making
  <2>2. PICK j \in Keys, e \in Devices : j = ops[u].old /\ e = u[1]
    BY <1>11, <1>15, <2>1, Zenon
  <2>3. Made(j, e) /\ j # ops[u].key
    BY <1>15, <2>1, <2>2, Zenon DEF Formers
  <2>4. Made(j, e)' /\ j # k
    BY <1>12, <2>3, Zenon
  <2> QED
    BY <2>1, <2>2, <2>3, <2>4, Zenon DEF Made
<1>16. Formers'
  BY <1>15, Zenon DEF Formers
<1>17. AtStore'
  <2>1. \A u \in Threads : u # t /\ ops'[u].at = "store" =>
          /\ ops'[u].key \in Keys /\ ops'[u].key # k /\ ops'[u] = ops[u]
    BY <1>4, <1>11, Zenon DEF Stage
  <2>2. n.at = "store" => n.key = k
    BY <1>3, Zenon DEF Stage
  <2>3. keys'[k] = "active" /\ \A j \in Keys : j # k => keys'[j] = keys[j]
    BY <1>0, <1>5, Zenon
  <2> QED
    BY <1>4, <1>6, <1>8, <2>1, <2>2, <2>3, SMTT(30) DEF AtStore
<1>18. Rebound'
  <2> SUFFICES ASSUME NEW u \in Threads, ops'[u].kind = "rotate",
                      ops'[u].at \in {"store", "revoke"}, ops'[u].old # None
               PROVE  session'[u[1]].key # ops'[u].old
    BY Zenon DEF Rebound
  <2>1. ops'[u].old # k
    BY <1>15, Zenon
  <2>2. CASE u[1] = d
    BY <1>7, <2>1, <2>2, Zenon
  <2>3. CASE u[1] # d
    <3>1. u # t
      BY <1>1, <2>3, Zenon
    <3>2. session[u[1]].key # ops[u].old
      BY <1>4, <3>1, Zenon DEF Rebound
    <3> QED
      BY <1>4, <1>7, <1>11, <2>3, <3>1, <3>2, Zenon
  <2> QED
    BY <2>2, <2>3, Zenon
<1>19. Replaced'
  BY <1>3, <1>4, <1>5, Zenon DEF Replaced
<1>20. BoundOwn'
  <2> SUFFICES ASSUME NEW e \in Devices, session'[e].key # None
               PROVE  /\ pairing'[session'[e].key].of = e
                      /\ pairing'[session'[e].key].status = "consumed"
    BY Zenon DEF BoundOwn
  <2>1. CASE e = d
    BY <1>6, <1>7, <2>1, Zenon
  <2>2. CASE e # d
    <3>1. PICK j \in Keys : j = session[e].key
      BY <1>0, <1>7, <2>2, Zenon DEF SessionRows, MaybeKey
    <3>2. pairing[j].of = e /\ pairing[j].status = "consumed"
      BY <3>1, Zenon DEF BoundOwn, Ringed
    <3> QED
      BY <1>5, <1>6, <1>7, <2>2, <3>1, <3>2, Zenon
  <2> QED
    BY <2>1, <2>2, Zenon
<1>21. Registered'
  BY <1>0, <1>5, <1>6, Zenon DEF Registered
<1>22. SessionKept'
  BY <1>7, <1>8, Zenon DEF SessionKept
<1>23. RotationKeepsKey'
  BY <1>0, <1>5, <1>8, Zenon DEF RotationKeepsKey, RingTypes, PageRows, MaybeKey
<1> QED
  BY <1>1, <1>9, <1>10, <1>13, <1>14, <1>16, <1>17, <1>18, <1>19, <1>20, <1>21, <1>22, <1>23, Zenon

(* The vault of the new key set is stored and used: its making is over but *)
(* for revoking the former one, which is not stored any more.              *)
LEMMA RingStored ==
  ASSUME Ringed, RingInv, NEW t \in Threads, Stored(t)
  PROVE  RingInv'
<1> USE DEF RingInv
<1>0. /\ ops[t] \in OpRows /\ Stage(ops[t]) /\ ops[t].at = "store"
      /\ ops[t].kind \in Making /\ ops \in [Threads -> OpRows]
      /\ page \in [Devices -> PageRows]
      /\ UNCHANGED <<keys, pairing, session, lost, sends, ghost>>
  BY Zenon DEF RingTypes, Stored, Stage
<1>1. PICK k \in Keys, d \in Devices : k = ops[t].key /\ d = t[1]
  BY <1>0, Zenon DEF Stage, Threads
<1> DEFINE n == Advanced(ops[t])
           p == [page[d] EXCEPT !.stored = k, !.vault = k, !.open = @ \/ ops[t].kind = "pair"]
<1>2. ops' = [ops EXCEPT ![t] = n] /\ page' = [page EXCEPT ![d] = p]
  BY <1>0, <1>1, Zenon DEF Stored, Vault
<1>3. /\ n \in OpRows /\ Stage(n) /\ n.at # "store"
      /\ n.kind \in Making =>
           n.kind = ops[t].kind /\ n.key = k /\ n.old = ops[t].old /\ n.at = "revoke"
  <2>1. Idle.kind = "none" /\ Idle.at = "idle"
    BY Zenon DEF Idle
  <2>2. n \in OpRows /\ Stage(n) /\ n.at \in {"revoke", "idle"}
    BY <1>0, AdvancedOp, Zenon
  <2>3. n = Idle \/ (n.kind = ops[t].kind /\ n.key = k /\ n.old = ops[t].old)
    BY <1>0, <1>1, AdvancedOp, Zenon
  <2>4. n.kind \in Making => n.at # "idle" /\ n # Idle
    BY <2>1, <2>2, Zenon DEF Stage, Making
  <2> HIDE DEF n
  <2> QED
    BY <2>2, <2>3, <2>4, Zenon
<1>4. p \in PageRows /\ p.stored = k /\ p.vault = k
  BY <1>0, ZenonT(30) DEF PageRows, MaybeKey
<1> HIDE DEF n, p
<1>5. /\ ops' \in [Threads -> OpRows] /\ ops'[t] = n
      /\ \A u \in Threads : u # t => ops'[u] = ops[u]
      /\ page' \in [Devices -> PageRows] /\ page'[d] = p
      /\ \A e \in Devices : e # d => page'[e] = page[e]
  BY <1>0, <1>2, <1>3, <1>4, Zenon
<1>6. RingTypes'
  BY <1>0, <1>3, <1>5, Zenon DEF RingTypes
<1>7. \A u \in Threads :
        /\ Stage(ops[u]) /\ u[1] \in Devices
        /\ ops[u].kind \in Making => ops[u].key \in Keys
        /\ u # t /\ ops[u].kind \in Making => ops[u].key # k
        /\ ops[u].old \in Keys \cup {None}
  BY <1>0, <1>1, Zenon DEF RingTypes, OpRows, MaybeKey, Threads, Stage, OneMaker
<1>8. ASSUME NEW j \in Keys, NEW e \in Devices, Made(j, e) PROVE Made(j, e)' /\ j # k
  BY <1>0, <1>1, <1>3, <1>5, <1>8, ZenonT(30) DEF Made
<1>9. Made(k, d)'
  <2>1. pairing[k].of = d /\ pairing[k].status = "consumed"
    BY <1>0, <1>1, ZenonT(30) DEF Makes, AtStore
  <2> QED
    BY <1>0, <1>3, <1>5, <1>7, <2>1, SMTT(30) DEF Made
<1>10. Makes' /\ OneMaker'
  BY <1>0, <1>1, <1>3, <1>5, <1>7 DEF Makes, OneMaker
<1>11. Vaults'
  <2>1. \A e \in Devices : page'[e].vault \in Keys \cup {None} /\ page'[e].stored \in Keys \cup {None}
    BY <1>5, Zenon DEF PageRows, MaybeKey
  <2> SUFFICES ASSUME NEW e \in Devices, NEW j \in Keys,
                      j = page'[e].vault \/ j = page'[e].stored
               PROVE  Made(j, e)'
    BY <2>1 DEF Vaults, Made
  <2>2. CASE e = d
    BY <1>4, <1>5, <1>9, <2>2, Zenon
  <2>3. CASE e # d
    <3>1. Made(j, e)
      BY <1>5, <2>3, Zenon DEF Vaults, Ringed
    <3> QED
      BY <1>8, <3>1, Zenon
  <2> QED
    BY <2>2, <2>3, Zenon
<1>12. ASSUME NEW u \in Threads, ops'[u].kind = "rotate", ops'[u].old # None
       PROVE  /\ Made(ops[u].old, u[1])' /\ ops'[u].old # ops'[u].key /\ ops'[u].old # k
              /\ ops[u].old = ops'[u].old /\ ops[u].kind = "rotate"
  <2>1. /\ ops[u].kind = "rotate" /\ ops[u].old = ops'[u].old /\ ops[u].key = ops'[u].key
    BY <1>1, <1>3, <1>5, <1>12, Zenon DEF Making
  <2>2. PICK j \in Keys, e \in Devices : j = ops[u].old /\ e = u[1]
    BY <1>7, <1>12, <2>1, Zenon
  <2>3. Made(j, e) /\ j # ops[u].key
    BY <1>12, <2>1, <2>2, Zenon DEF Formers
  <2>4. Made(j, e)' /\ j # k
    BY <1>8, <2>3, Zenon
  <2> QED
    BY <2>1, <2>2, <2>3, <2>4, Zenon DEF Made
<1>13. Formers'
  BY <1>12, Zenon DEF Formers
<1>14. AtStore'
  BY <1>0, <1>3, <1>5, ZenonT(30) DEF AtStore
<1>15. Rebound'
  <2> SUFFICES ASSUME NEW u \in Threads, ops'[u].kind = "rotate",
                      ops'[u].at \in {"store", "revoke"}, ops'[u].old # None
               PROVE  session[u[1]].key # ops'[u].old
    BY <1>0, Zenon DEF Rebound
  <2>1. ops[u].old = ops'[u].old /\ ops[u].kind = "rotate" /\ ops[u].at \in {"store", "revoke"}
    BY <1>0, <1>5, <1>12, Zenon
  <2> QED
    BY <2>1, Zenon DEF Rebound
<1>16. Replaced'
  <2> SUFFICES ASSUME NEW u \in Threads, ops'[u].at = "revoke"
               PROVE  page'[u[1]].stored # ops'[u].old
    BY Zenon DEF Replaced
  <2>1. Stage(ops'[u])
    BY <1>3, <1>5, <1>7, Zenon
  <2>2. ops'[u].old # k
    BY <1>12, <2>1, Zenon DEF Stage
  <2>3. CASE u[1] = d
    BY <1>4, <1>5, <2>2, <2>3, Zenon
  <2>4. CASE u[1] # d
    BY <1>1, <1>5, <1>7, <2>4, Zenon DEF Replaced
  <2> QED
    BY <2>3, <2>4, Zenon
<1>17. BoundOwn' /\ Registered' /\ SessionKept'
  BY <1>0, ZenonT(30) DEF BoundOwn, Registered, SessionKept
<1>18. RotationKeepsKey'
  <2>1. keys[k] = "active" \/ k \in ghost.byHand
    BY <1>0, <1>1 DEF AtStore
  <2> QED
    BY <1>0, <1>4, <1>5, <2>1, Zenon DEF RotationKeepsKey
<1> QED
  BY <1>6, <1>10, <1>11, <1>13, <1>14, <1>15, <1>16, <1>17, <1>18, Zenon

(* Every step keeps the invariant.                                         *)
LEMMA RingNext ==
  ASSUME Ringed, RingInv, [Next]_vars
  PROVE  RingInv'
<1>1. CASE Next
  BY <1>1, RingUser, RingStarts, RingRequests, RingEnds, RingConsumed, RingStored, ZenonT(30) DEF Next
<1>2. CASE UNCHANGED vars
  <2>1. RingTypes' /\ Makes' /\ OneMaker'
    BY <1>2, ZenonT(30) DEF vars, RingInv, RingTypes, Makes, OneMaker
  <2>4. Vaults'
    BY <1>2, Zenon DEF vars, RingInv, Vaults, Made
  <2>5. Formers'
    BY <1>2, Zenon DEF vars, RingInv, Formers, Made
  <2>2. AtStore' /\ Rebound' /\ Replaced' /\ BoundOwn' /\ Registered'
    BY <1>2, Zenon DEF vars, RingInv, AtStore, Rebound, Replaced, BoundOwn, Registered
  <2>3. SessionKept' /\ RotationKeepsKey'
    BY <1>2, Zenon DEF vars, RingInv, SessionKept, RotationKeepsKey
  <2> QED
    BY <2>1, <2>2, <2>3, <2>4, <2>5, Zenon DEF RingInv
<1> QED
  BY <1>1, <1>2, Zenon

(* DeviceKeys: the invariant holds throughout.                             *)
THEOREM RingInvariant == ASSUME Ringed PROVE Spec => []RingInv
<1>1. Init => RingInv
  BY RingInit, Zenon
<1>2. RingInv /\ [Next]_vars => RingInv'
  BY RingNext, Zenon
<1> QED
  BY <1>1, <1>2, PTL DEF Spec

(* DeviceKeys: a rotation never ends the session it runs in, however many  *)
(* devices, operations per device and key sets there are.                  *)
THEOREM RingSessionKept == ASSUME Ringed PROVE Spec => []SessionKept
<1>1. RingInv => SessionKept
  BY Zenon DEF RingInv
<1> QED
  BY <1>1, RingInvariant, PTL

(* DeviceKeys: a rotation never leaves a device with a revoked key.        *)
THEOREM RingKeepsKey == ASSUME Ringed PROVE Spec => []RotationKeepsKey
<1>1. RingInv => RotationKeepsKey
  BY Zenon DEF RingInv
<1> QED
  BY <1>1, RingInvariant, PTL

(* DeviceKeys: a revoked device identity stays revoked, although consuming *)
(* a pairing writes "active" into the row of its key set.                  *)
THEOREM RingRevokedStays ==
  ASSUME Ringed PROVE Spec => [][RevokedStays]_vars
<1>1. ASSUME RingInv, [Next]_vars PROVE RevokedStays
  <2>0. keys \in [Keys -> {"none", "active", "revoked"}]
    BY <1>1, Zenon DEF RingInv, RingTypes
  <2>1. CASE \E t \in Threads : Consumed(t)
    <3>1. PICK t \in Threads : Consumed(t)
      BY <2>1, Zenon
    <3>2. keys[ops[t].key] = "none" /\ keys' = [keys EXCEPT ![ops[t].key] = "active"]
      BY <1>1, <3>1, RingConsumed, Zenon DEF Consumed
    <3> QED
      BY <2>0, <3>2, Zenon DEF RevokedStays
  <2>2. CASE UNCHANGED keys
    BY <2>2, Zenon DEF RevokedStays
  <2>4. ASSUME NEW d \in Devices, NEW k \in Keys, RevokeDeviceKey(d, k)
        PROVE  RevokedStays
    BY <2>0, <2>4, Zenon DEF RevokedStays, RevokeDeviceKey, KeyRevoked
  <2>5. ASSUME NEW t \in Threads, FormerRevoked(t) PROVE RevokedStays
    BY <2>0, <2>5, Zenon DEF RevokedStays, FormerRevoked, KeyRevoked
  <2>6. ASSUME \/ \E d \in Devices : Logout(d) \/ Login(d)
               \/ \E d, e \in Devices : RevokeDevice(d, e)
               \/ \E d \in Devices, v \in MaybeKey :
                    LockAndUnlock(d, v) \/ Reload(d, v)
               \/ \E d \in Devices, s \in Slots : Send(d, s)
               \/ \E d \in Devices, s \in Slots, k \in Keys :
                    \/ StartRotation(d, s, k) \/ StartPairing(d, s, k)
                    \/ ApproveNewDevice(d, s, k)
               \/ \E k \in Keys : Expires(k)
               \/ \E t \in Threads :
                    \/ CompletePairing(t) \/ CancelPairing(t) \/ ApprovalChecked(t)
                    \/ ApprovalWritten(t) \/ Stored(t) \/ Refused(t)
                    \/ Failed(t) \/ PeerSent(t) \/ SelfSent(t)
        PROVE  UNCHANGED keys
    BY <2>6, ZenonT(30) DEF Send, Logout, Login, RevokeDevice, LockAndUnlock,
                Reload, StartRotation, StartPairing, ApproveNewDevice,
                Expires, CompletePairing, CancelPairing, ApprovalChecked,
                ApprovalWritten, Stored, Refused, Failed, PeerSent,
                SelfSent
  <2> QED
    BY <1>1, <2>1, <2>2, <2>4, <2>5, <2>6, Zenon DEF Next, vars
<1> QED
  BY <1>1, RingInvariant, PTL DEF Spec

=============================================================================
