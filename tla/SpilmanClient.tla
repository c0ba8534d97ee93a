--------------------------- MODULE SpilmanClient ----------------------------
(***************************************************************************)
(* The buyer of a streaming route with its files: the JSON channel store   *)
(* and its process lock, the sender key, the opening of a channel from the *)
(* wallet (spilman_client.rs) and the recovery of the buyer's share of a   *)
(* settled channel (spilman_refund.rs), composed with the seller of        *)
(* StreamingRoute.                                                         *)
(*                                                                         *)
(* Several processes of one user work on the files of one channel.  A      *)
(* call loads the whole store, changes its copy and writes the copy back;  *)
(* a write may fail, or report failure after the file was replaced, and a  *)
(* process may crash between any two steps.  cdk-spilman and the mint are  *)
(* external.  The channel is opened at most once: another opening is       *)
(* another channel.                                                        *)
(***************************************************************************)
EXTENDS StreamingRoute

CONSTANTS
    Procs,        \* processes of the buyer
    SenderKeys,   \* keys that may be generated
    NoKey,
    MaxKeyset,    \* bound on the keysets of the mint
    MaxFaults     \* bound on crashes, failed writes and lost answers

ASSUME ClientAssumption ==
    /\ NoKey \notin SenderKeys /\ MaxFaults \in Nat /\ MaxKeyset \in Nat \ {0}
    /\ \A t \in Terms : t.unit = "sat"

VARIABLES
    file,       \* spilman-client.json: funding (the channel's sender key),
                \* balance last signed (-1 for none), closed
    keyFile,    \* spilman-sender-key.json
    token,      \* the funding token: "none", "sent", "swapped", "reclaimed"
    listed,     \* the wallet's activity list names the token
    keyset,     \* the mint's active keyset
    settled,    \* the keyset of the outputs of the settlement, 0 before it
    collected,  \* the buyer's share of the settled channel is in the wallet
    foreign,    \* the share was looked for in another keyset than the settlement's
    goal,       \* what the call of each process is for
    pc,         \* where it is
    mem,        \* its copy of the store
    key,        \* its sender key
    failing,    \* last_error of its store is set
    fetched,    \* the keyset it has fetched from the mint, 0 for none
    faults,     \* number of faults so far
    openFault,  \* a fault hit the opening of the channel
    recent      \* balances signed since the last payment handed out, and its own

callVars == <<goal, pc, mem, key, failing, fetched>>
fundVars == <<token, listed, collected, foreign>>
mintVars == <<keyset, settled>>
clientVars == <<file, keyFile, fundVars, mintVars, callVars, faults, openFault, recent>>
vars == <<routeVars, clientVars>>

-----------------------------------------------------------------------------
(* Calls and faults.                                                        *)

Store(funding, balance, closed) ==
    [funding |-> funding, balance |-> balance, closed |-> closed]
EmptyStore == Store(NoKey, -1, FALSE)

Goals == {"show", "sign", "open", "refund"}

\* SharedSpilmanClientStoreLock: whoever works on the store holds the lock;
\* reading the sender key alone takes none.
HoldsNoRefund(p) == pc[p] # "idle" /\ goal[p] \in {"sign", "open"}
Holds(p) == pc[p] # "idle" /\ goal[p] # "show"
LockFree(p) == \A q \in Procs \ {p} : ~Holds(q)

ClientInit ==
    /\ RouteInit
    /\ file = EmptyStore /\ keyFile = NoKey
    /\ token = "none" /\ listed = FALSE /\ collected = FALSE /\ foreign = FALSE
    /\ keyset = 1 /\ settled = 0
    /\ goal = [p \in Procs |-> "show"]
    /\ pc = [p \in Procs |-> "idle"]
    /\ mem = [p \in Procs |-> EmptyStore]
    /\ key = [p \in Procs |-> NoKey]
    /\ failing = [p \in Procs |-> FALSE]
    /\ fetched = [p \in Procs |-> 0]
    /\ faults = 0 /\ openFault = FALSE /\ recent = {}

Goto(p, l) == pc' = [pc EXCEPT ![p] = l]

\* The call returns, or its process dies: the lock and the copy are dropped.
Leave(p) ==
    /\ Goto(p, "idle")
    /\ goal' = [goal EXCEPT ![p] = "show"]
    /\ mem' = [mem EXCEPT ![p] = EmptyStore]
    /\ key' = [key EXCEPT ![p] = NoKey]
    /\ failing' = [failing EXCEPT ![p] = FALSE]
    /\ fetched' = [fetched EXCEPT ![p] = 0]

\* A fault happens, or does not; it is noted when it hits the opening.
Fault(hit) ==
    /\ faults' = faults + (IF hit THEN 1 ELSE 0)
    /\ faults' <= MaxFaults
NoteOpening(p, hit) == openFault' = (openFault \/ (hit /\ goal[p] = "open"))

\* persist, with write_atomic_private: the file is replaced as a whole or not
\* at all; an error after the replacement is still reported.
Outcomes == {"ok", "failed", "unsynced"}
Persist(p, store, outcome) ==
    /\ mem' = [mem EXCEPT ![p] = store]
    /\ file' = IF outcome = "failed" THEN file ELSE store
    /\ Fault(outcome # "ok")

\* The same, as the last write of a call.
FinalPersist(store, outcome) ==
    file' = IF outcome = "failed" THEN file ELSE store

Start(p, g) ==
    /\ pc[p] = "idle"
    /\ g # "show" => LockFree(p)
    /\ g = "open" => token = "none"
    /\ goal' = [goal EXCEPT ![p] = g]
    /\ Goto(p, CASE g = "show" -> "readkey" [] g = "open" -> "send" [] OTHER -> "load")
    /\ UNCHANGED <<routeVars, file, keyFile, fundVars, mintVars, mem, key, failing, fetched,
                   faults, openFault, recent>>

\* An error return, or the end of a signer; nothing is written any more.
GiveUp(p) ==
    /\ pc[p] \in {"send", "load", "readkey", "createkey", "session", "swap", "fetch", "check",
                 "import"}
    /\ Leave(p)
    /\ UNCHANGED <<routeVars, file, keyFile, fundVars, mintVars, faults, openFault, recent>>

Crash(p) ==
    /\ pc[p] # "idle"
    /\ Leave(p)
    /\ Fault(TRUE) /\ NoteOpening(p, TRUE)
    /\ UNCHANGED <<routeVars, file, keyFile, fundVars, mintVars, recent>>

-----------------------------------------------------------------------------
(* The store and the sender key.                                            *)

\* load_with_lock; a refund looks its channel up at once.
Load(p) ==
    /\ pc[p] = "load"
    /\ IF goal[p] = "refund" /\ (file.funding = NoKey \/ file.closed)
       THEN Leave(p)
       ELSE /\ mem' = [mem EXCEPT ![p] = file]
            /\ Goto(p, "readkey")
            /\ UNCHANGED <<goal, key, failing, fetched>>
    /\ UNCHANGED <<routeVars, file, keyFile, fundVars, mintVars, faults, openFault, recent>>

\* What a call does once it has the sender key.
WithKey(p, k) ==
    IF goal[p] = "show" THEN Leave(p)
    ELSE /\ key' = [key EXCEPT ![p] = k]
         /\ Goto(p, CASE goal[p] = "sign" -> "session"
                      [] goal[p] = "open" -> "swap"
                      [] OTHER -> "fetch")
         /\ UNCHANGED <<goal, mem, failing, fetched>>

\* load_or_create_cashu_spilman_sender_key: read, or generate a key ...
ReadKey(p) ==
    /\ pc[p] = "readkey"
    /\ IF keyFile # NoKey
       THEN WithKey(p, keyFile)
       ELSE /\ \E k \in SenderKeys \ {key[q] : q \in Procs \ {p}} :
                 key' = [key EXCEPT ![p] = k]
            /\ Goto(p, "createkey")
            /\ UNCHANGED <<goal, mem, failing, fetched>>
    /\ UNCHANGED <<routeVars, file, keyFile, fundVars, mintVars, faults, openFault, recent>>

\* ... and create the file, unless another process was faster: read again.
\* create_atomic_private; an error after the file was linked ends the call.
Clobbers == TRUE
Creates == keyFile = NoKey
CreateKey(p, synced) ==
    /\ pc[p] = "createkey"
    /\ Fault(~synced) /\ UNCHANGED openFault
    /\ IF Creates
       THEN /\ keyFile' = key[p]
            /\ IF synced THEN WithKey(p, key[p]) ELSE Leave(p)
       ELSE /\ synced
            /\ Goto(p, "readkey")
            /\ UNCHANGED <<keyFile, goal, mem, key, failing, fetched>>
    /\ UNCHANGED <<routeVars, file, fundVars, mintVars, recent>>

-----------------------------------------------------------------------------
(* Payments of the file-backed signer.                                      *)

\* create_streaming_route_payment: the library signs and saves the payment
\* state; ensure_ok withholds a payment whose state was not saved.
Handed(outcome) == outcome = "ok"
Sign(p, msat, funding, outcome) ==
    LET balance == BalanceFromMsat(msat)
        store == Store(mem[p].funding, balance, mem[p].closed) IN
    /\ pc[p] = "session"
    /\ mem[p].funding # NoKey
    /\ Persist(p, store, outcome)
    /\ failing' = [failing EXCEPT ![p] = outcome # "ok"]
    /\ IF Handed(outcome)
       THEN /\ CreatePayment(msat, funding)
            /\ recent' = {balance}
       ELSE /\ Progress(msat, previous) /\ balance <= Capacity
            /\ recent' = recent \cup {balance}
            /\ UNCHANGED routeVars
    /\ UNCHANGED <<keyFile, fundVars, mintVars, goal, pc, key, fetched, openFault>>

-----------------------------------------------------------------------------
(* Opening a channel from the wallet.                                       *)

\* send_payment_token_for_keyset: the token is out once it is made; the entry
\* of the activity list is written afterwards.
SendToken(p, recorded) ==
    /\ pc[p] = "send"
    /\ token' = "sent" /\ listed' = recorded
    /\ Fault(~recorded) /\ NoteOpening(p, ~recorded)
    /\ IF recorded THEN Goto(p, "load") /\ UNCHANGED <<goal, mem, key, failing, fetched>>
       ELSE Leave(p)
    /\ UNCHANGED <<routeVars, file, keyFile, collected, foreign, mintVars, recent>>

\* revoke_pending_payment by the user, who finds the token in the activity
\* list: the mint lets one of the two swaps through.
Revoke ==
    /\ token = "sent" /\ listed
    /\ token' = "reclaimed"
    /\ UNCHANGED <<routeVars, file, keyFile, listed, collected, foreign, mintVars, callVars,
                   faults, openFault, recent>>

\* open_channel_from_token_async: the token is swapped for the funding of the
\* channel at the mint; the answer may be lost.
Swap(p, answered) ==
    /\ pc[p] = "swap" /\ token = "sent"
    /\ token' = "swapped"
    /\ Fault(~answered) /\ NoteOpening(p, ~answered)
    /\ IF answered THEN Goto(p, "save") /\ UNCHANGED <<goal, mem, key, failing, fetched>>
       ELSE Leave(p)
    /\ UNCHANGED <<routeVars, file, keyFile, listed, collected, foreign, mintVars, recent>>

\* save_funding, called by the library; an error is only remembered.
OnlyInMemory(p, outcome) ==
    /\ mem' = [mem EXCEPT ![p] = Store(key[p], mem[p].balance, mem[p].closed)]
    /\ UNCHANGED <<file, faults>>
KeepFunding(p, outcome) ==
    Persist(p, Store(key[p], mem[p].balance, mem[p].closed), outcome)
SaveFunding(p, outcome) ==
    /\ pc[p] = "save"
    /\ KeepFunding(p, outcome)
    /\ failing' = [failing EXCEPT ![p] = outcome # "ok"]
    /\ Goto(p, "first")
    /\ UNCHANGED <<routeVars, keyFile, fundVars, mintVars, goal, key, fetched, openFault, recent>>

\* create_payment_with_funding for opening_paid_msat, which nothing has checked:
\* the library refuses more than the capacity.
AnyBalance(balance) == TRUE
Fits(balance) == balance <= Capacity
FirstPayment(p, msat, outcome) ==
    LET balance == BalanceFromMsat(msat) IN
    /\ pc[p] = "first"
    /\ Leave(p)
    /\ IF Fits(balance)
       THEN /\ FinalPersist(Store(mem[p].funding, balance, mem[p].closed), outcome)
            /\ Fault(outcome # "ok") /\ NoteOpening(p, outcome # "ok")
            /\ IF Handed(outcome)
               THEN /\ payments' = payments \cup {Payment(balance, TRUE)}
                    /\ previous' = BalanceToMsat(balance)
                    /\ recent' = {balance}
               ELSE recent' = recent \cup {balance} /\ UNCHANGED buyerVars
       ELSE /\ outcome = "ok" /\ NoteOpening(p, failing[p])
            /\ UNCHANGED <<file, faults, recent, buyerVars>>
    /\ UNCHANGED <<terms, sellerVars, keyFile, fundVars, mintVars>>

-----------------------------------------------------------------------------
(* Recovery of the buyer's share.                                           *)

\* restore_streaming_route_cashu_spilman_refund: only the key of the channel
\* restores its outputs.  fetch_spilman_keyset_info_json names no keyset, so the
\* mint answers with its active one.
FetchKeyset(p) ==
    /\ pc[p] = "fetch"
    /\ IF key[p] = mem[p].funding
       THEN /\ fetched' = [fetched EXCEPT ![p] = keyset]
            /\ Goto(p, "check")
            /\ UNCHANGED <<goal, mem, key, failing>>
       ELSE Leave(p)
    /\ UNCHANGED <<routeVars, file, keyFile, fundVars, mintVars, faults, openFault, recent>>

\* check_funding_token_state: there is a share once the seller has spent the
\* funding.
AlwaysSpent == TRUE
FundingSpent == channel = "closed"
CheckFunding(p) ==
    /\ pc[p] = "check"
    /\ IF FundingSpent
       THEN Goto(p, "import") /\ UNCHANGED <<goal, mem, key, failing, fetched>>
       ELSE Leave(p)
    /\ UNCHANGED <<routeVars, file, keyFile, fundVars, mintVars, faults, openFault, recent>>

\* What the settlement leaves to the buyer.
Share == channel = "closed" /\ held < Capacity

\* restore_sender_proofs_with_keyset derives the buyer's outputs for the keyset
\* it is given and asks the mint for their signatures: with the keyset of the
\* settlement it finds the share, with another one perhaps nothing.
Restores(p, found) ==
    /\ found => Share
    /\ Share /\ fetched[p] = settled => found

\* import_payment_proofs of what was found; nothing is imported when nothing
\* was, and the call goes on alike.  Proofs the wallet already has are left
\* alone.
ImportProofs(p, found) ==
    /\ pc[p] = "import"
    /\ Restores(p, found)
    /\ collected' = (collected \/ found)
    /\ foreign' = (foreign \/ fetched[p] # settled)
    /\ Goto(p, "mark")
    /\ UNCHANGED <<routeVars, file, keyFile, token, listed, mintVars, goal, mem, key, failing,
                   fetched, faults, openFault, recent>>

\* set_closed, ensure_ok
MarkClosed(p, outcome) ==
    /\ pc[p] = "mark"
    /\ FinalPersist(Store(mem[p].funding, mem[p].balance, TRUE), outcome)
    /\ Fault(outcome # "ok")
    /\ Leave(p)
    /\ UNCHANGED <<routeVars, keyFile, fundVars, mintVars, openFault, recent>>

-----------------------------------------------------------------------------

CallNext(p) ==
    \/ \E g \in Goals : Start(p, g)
    \/ GiveUp(p)
    \/ Crash(p)
    \/ Load(p)
    \/ ReadKey(p)
    \/ \E synced \in BOOLEAN : CreateKey(p, synced)
    \/ \E msat \in Amounts, funding \in BOOLEAN, outcome \in Outcomes :
         Sign(p, msat, funding, outcome)
    \/ \E recorded \in BOOLEAN : SendToken(p, recorded)
    \/ \E answered \in BOOLEAN : Swap(p, answered)
    \/ \E outcome \in Outcomes : SaveFunding(p, outcome) \/ MarkClosed(p, outcome)
    \/ \E msat \in Amounts \cup {BalanceToMsat(Capacity + 1)}, outcome \in Outcomes :
         FirstPayment(p, msat, outcome)
    \/ FetchKeyset(p)
    \/ CheckFunding(p)
    \/ \E found \in BOOLEAN : ImportProofs(p, found)

\* The application restarts, and the seller takes its steps; the outputs of a
\* settlement belong to the keyset that is active then.
Elsewhere ==
    /\ ForgetPrevious \/ SellerNext
    /\ settled' = IF channel' # channel /\ channel' = "closed" THEN keyset ELSE settled
    /\ UNCHANGED <<file, keyFile, fundVars, keyset, callVars, faults, openFault, recent>>

\* The mint activates a new keyset.
Rotate ==
    /\ keyset < MaxKeyset
    /\ keyset' = keyset + 1
    /\ UNCHANGED <<routeVars, file, keyFile, fundVars, settled, callVars, faults, openFault,
                   recent>>

ClientNext == Revoke \/ Elsewhere \/ Rotate \/ \E p \in Procs : CallNext(p)

ClientSpec == ClientInit /\ [][ClientNext]_vars

-----------------------------------------------------------------------------
(* Properties.                                                              *)

Opening == \E p \in Procs : goal[p] = "open" /\ pc[p] # "idle"

\* The money of an opening is never out of sight without a fault: the user can
\* revoke the token, or the store has the channel, even when the opening
\* payment is refused and when a failed write was made good by the next one
\* (open_streaming_route_cashu_spilman_channel_from_wallet, persist).
FundsTraceable ==
    \/ Opening \/ openFault
    \/ token \in {"none", "reclaimed"}
    \/ token = "sent" /\ listed
    \/ file.funding # NoKey

\* A recorded channel belongs to the key on disk, so its refund can be signed
\* for, whichever processes created the key at the same time
\* (load_or_create_cashu_spilman_sender_key, the key check of the refund).
RefundPossible ==
    file.funding # NoKey => file.funding = keyFile

\* What the buyer has handed out is on file: the store has its funding and the
\* balance of the last payment or of a later attempt, although each writer
\* replaces the whole file with its copy (FileSpilmanPaymentSigner, ensure_ok).
HandedOutIsOnFile ==
    payments # {} => file.funding # NoKey /\ file.balance \in recent

Recovered == channel = "closed" /\ (collected \/ ~Share \/ foreign)

\* A channel is marked closed only after its settlement, and only when the
\* buyer's share is in the wallet, wherever the refund was interrupted before;
\* unless the seller took everything, or a refund looked for the share in a
\* keyset that was not the settlement's (spilman_refund.rs).
ClosedMeansCollected ==
    file.closed => Recovered

\* "Restore deterministic Spilman sender refunds from the settlement keyset ...
\* after mint key rotation" (CHANGELOG.md, 0.4.2): a channel is marked closed, and
\* never looked at again, only when the buyer has its share.  The code restores
\* from the keyset that is active when the refund runs.
RefundCollected ==
    file.closed => collected \/ ~Share
=============================================================================
