------------------------------ MODULE HumanProof ----------------------------
(***************************************************************************)
(* The human proof: a dialog asks for a phrase, a worker computes for five *)
(* minutes, the signed result goes to the node and into local storage      *)
(* (HumanProofDialog.jsx, humanProof.js), and the passport card shows the  *)
(* proof of the person whose profile is open.  The dialog is used by the   *)
(* GSN pane, where any profile can be open, and by the security center.    *)
(***************************************************************************)
EXTENDS Naturals

CONSTANTS Me, Others, None,
          Center,       \* TRUE: security center; FALSE: GSN pane
          Fails,        \* requests to the node may fail
          MaxWorkers    \* bound: ceremonies started

ProofAssumption == {Center, Fails} \subseteq BOOLEAN /\ MaxWorkers \in Nat

People == {Me} \cup Others

VARIABLES dialog,    \* show, phraseMatches, running
          ref,       \* workerRef.current, 0 for null
          workers,   \* "idle", "run", "save": its result is on its way, "end"
          node,      \* the node's proof of this identity
          summary,   \* people whose public profile carries a proof
          local,     \* proofs in local storage
          card,      \* the passport card: whose, and whether it shows a proof
          loading,   \* the passport is asked for
          ghost
vars == <<dialog, ref, workers, node, summary, local, card, loading, ghost>>

Workers == 1..MaxWorkers
Closed == [show |-> FALSE, typed |-> FALSE, running |-> FALSE]

TypeOK ==
    /\ dialog \in [show : BOOLEAN, typed : BOOLEAN, running : BOOLEAN]
    /\ ref \in 0..MaxWorkers /\ workers \in [Workers -> {"idle", "run", "save", "end"}]
    /\ node \in BOOLEAN /\ summary \subseteq People
    /\ local \in [People -> {"none", "fresh", "old"}]
    /\ card \in [of : People \cup {None}, proof : BOOLEAN]
    /\ {loading, ghost} \subseteq BOOLEAN

(* getHumanProof: a stored proof counts for 180 days. *)
GetHumanProof(l, x) == x # None /\ (x # None => l[x] = "fresh")

Init ==
    /\ dialog = Closed /\ ref = 0 /\ workers = [i \in Workers |-> "idle"]
    /\ node \in {FALSE, Center} /\ summary \in {{}, Others} /\ local = [x \in People |-> "none"]
    /\ card = [of |-> IF Center THEN Me ELSE None, proof |-> FALSE]
    /\ loading = Center /\ ghost = TRUE

(* The effect that chooses the card's proof: the one of the open profile's  *)
(* summary, which is also stored, or the stored one.                        *)
CardOf(l, x) ==
    [of |-> x, proof |-> IF ~Center /\ x \in summary THEN TRUE ELSE GetHumanProof(l, x)]
Stored(l, x) == IF ~Center /\ x \in summary THEN [l EXCEPT ![x] = "fresh"] ELSE l

(* A profile opens in the GSN pane, or the drawer is closed. *)
OpenProfile(x) ==
    /\ ~Center /\ ~dialog.show /\ x # card.of
    /\ card' = CardOf(local, x) /\ local' = Stored(local, x)
    /\ UNCHANGED <<dialog, ref, workers, node, summary, loading, ghost>>

(* saving the own profile renews the summary from the node's proof *)
SummaryRenewed ==
    /\ node /\ Me \notin summary /\ summary' = summary \cup {Me}
    /\ UNCHANGED <<dialog, ref, workers, node, local, card, loading, ghost>>

Expire(x) ==
    /\ local[x] = "fresh" /\ local' = [local EXCEPT ![x] = "old"]
    /\ UNCHANGED <<dialog, ref, workers, node, summary, card, loading, ghost>>

(* loadTrustPassport of the security center *)
PassportLoaded ==
    /\ loading /\ loading' = FALSE
    /\ IF node
       THEN /\ local' = [local EXCEPT ![Me] = "fresh"]
            /\ card' = [card EXCEPT !.proof = TRUE]
       ELSE UNCHANGED <<local, card>>
    /\ UNCHANGED <<dialog, ref, workers, node, summary, ghost>>

PassportFails ==
    /\ Fails /\ loading /\ loading' = FALSE
    /\ UNCHANGED <<dialog, ref, workers, node, summary, local, card, ghost>>

(* The card offers the proof to its owner; the center always offers it. *)
VerifyOffered == card.of = Me /\ (card.proof => Center)

OpenDialog ==
    /\ ~dialog.show /\ VerifyOffered
    /\ dialog' = [Closed EXCEPT !.show = TRUE]
    /\ ghost' = (ghost /\ \A i \in Workers : workers[i] # "save")
    /\ UNCHANGED <<ref, workers, node, summary, local, card, loading>>

TypePhrase ==
    /\ dialog.show /\ ~dialog.running /\ dialog' = [dialog EXCEPT !.typed = ~@]
    /\ UNCHANGED <<ref, workers, node, summary, local, card, loading, ghost>>

(* The worker is terminated; a result that is on its way stays on its way. *)
CloseDialog ==
    /\ dialog.show /\ dialog' = [dialog EXCEPT !.show = FALSE, !.running = FALSE]
    /\ ref' = 0
    /\ workers' = [i \in Workers |-> IF i = ref /\ workers[i] = "run" THEN "end" ELSE workers[i]]
    /\ UNCHANGED <<node, summary, local, card, loading, ghost>>

StartProof(i) ==
    /\ dialog.show /\ dialog.typed /\ ~dialog.running
    /\ workers[i] = "idle" /\ \A j \in 1..(i - 1) : workers[j] # "idle"
    /\ workers' = [workers EXCEPT ![i] = "run"] /\ ref' = i
    /\ dialog' = [dialog EXCEPT !.running = TRUE]
    /\ UNCHANGED <<node, summary, local, card, loading, ghost>>

(* The deadline is reached: the message "done" is handled, the signed proof sent. *)
WorkerDone(i) ==
    /\ workers[i] = "run" /\ workers' = [workers EXCEPT ![i] = "save"]
    /\ UNCHANGED <<dialog, ref, node, summary, local, card, loading, ghost>>

WorkerError(i) ==
    /\ Fails /\ workers[i] = "run" /\ workers' = [workers EXCEPT ![i] = "end"]
    /\ ref' = 0 /\ dialog' = [dialog EXCEPT !.running = FALSE]
    /\ UNCHANGED <<node, summary, local, card, loading, ghost>>

(* onVerified sets the card, and the refresh it asks for chooses it again. *)
OnVerified(l) ==
    /\ card' = CardOf(l, card.of) /\ local' = Stored(l, card.of) /\ loading' = Center
    /\ dialog' = [dialog EXCEPT !.show = FALSE, !.running = FALSE] /\ ref' = 0

ProofSaved(i) ==
    /\ workers[i] = "save" /\ workers' = [workers EXCEPT ![i] = "end"]
    /\ node' = TRUE /\ OnVerified([local EXCEPT ![Me] = "fresh"])
    /\ UNCHANGED <<summary, ghost>>

(* The proof is kept on the device; the node has refused it, was not       *)
(* reached, or only its answer was lost.                                   *)
ProofNotSaved(i) ==
    /\ Fails /\ workers[i] = "save" /\ workers' = [workers EXCEPT ![i] = "end"]
    /\ node' \in {node, TRUE} /\ OnVerified([local EXCEPT ![Me] = "fresh"])
    /\ UNCHANGED <<summary, ghost>>

(* A worker reaches its deadline; the request for its proof ends. *)
WorkerGoesOn(i) == WorkerDone(i) \/ WorkerError(i) \/ ProofSaved(i) \/ ProofNotSaved(i)

Next ==
    \/ \E x \in People \cup {None} : OpenProfile(x)
    \/ \E x \in People : Expire(x)
    \/ SummaryRenewed \/ PassportLoaded \/ PassportFails \/ OpenDialog \/ TypePhrase \/ CloseDialog
    \/ \E i \in Workers : StartProof(i) \/ WorkerGoesOn(i)

Spec == Init /\ [][Next]_vars

-----------------------------------------------------------------------------
(* The card never shows one person's proof for another, though an answer    *)
(* may arrive when another profile is open.                                 *)
CardShowsOwner == card.proof => card.of # None /\ (card.of \in summary \/ local[card.of] # "none")

(* Closing the dialog stops the ceremony, unless it was opened again while  *)
(* the result of an earlier one was on its way.                             *)
ClosedStops == ghost /\ ~dialog.show => \A i \in Workers : workers[i] # "run"

(* A proof the security center calls verified, in the scope of the passport *)
(* stored by the node, is stored by the node.                               *)
VerifiedStored == Center /\ card.proof => node

(* A ceremony runs on the screen. *)
Running == dialog.running
=============================================================================
