-------------------------- MODULE WalletOperations --------------------------
(***************************************************************************)
(* The operations of a wallet service on one mint and the activity list    *)
(* they keep (wallet.rs, wallet/send.rs, wallet/runtime.rs).               *)
(*                                                                         *)
(* An operation holds the operation lock from its first step to its last,  *)
(* so only the mint, payers, payees, the clock and crashes come between    *)
(* its steps.  Every movement of money (a top-up, a token sent or          *)
(* received, a Lightning payment, a collected channel) has an identity;    *)
(* the list has at most one entry for each.  Amounts are left out; of the  *)
(* wallet's proofs their keysets are kept.  CDK, its sagas and the mint    *)
(* are external.                                                           *)
(***************************************************************************)
EXTENDS Integers, FiniteSets

CONSTANTS
    Ids,          \* identities of movements of money
    NoId,
    MaxEntries,   \* K_MAX_WALLET_ACTIVITY_ENTRIES
    MaxKeyset,    \* keysets are 1..MaxKeyset, in the order of rotation
    MaxFaults     \* bound on crashes and failed writes of the list

ASSUME WalletAssumption ==
    /\ NoId \notin Ids /\ MaxEntries \in Nat \ {0}
    /\ MaxKeyset \in Nat \ {0} /\ MaxFaults \in Nat

VARIABLES
    kind,      \* kind of each movement, "none" before it is begun
    state,     \* what really happened to it, at the mint and in the wallet
    saga,      \* sends with a saga in the wallet database
    quotes,    \* local state of each mint quote
    late,      \* top-ups whose quote has expired
    status,    \* entry of the activity list, "absent" without one
    active,    \* the mint's active keyset
    proofs,    \* keysets of the wallet's unspent proofs
    op,        \* the operation that holds the lock
    hidden,    \* movements whose entry was lost to a fault
    faults

mintVars == <<kind, state, saga, quotes, proofs>>
vars == <<mintVars, late, status, active, op, hidden, faults>>

-----------------------------------------------------------------------------
(* Operations and the activity list.                                        *)

Op(k, id, at, req, sel) == [kind |-> k, id |-> id, at |-> at, req |-> req, sel |-> sel]
Idle == Op("idle", NoId, "end", 0, {})
At(k, at) == op.kind \in k /\ op.at = at
Goto(at) == op' = Op(op.kind, op.id, at, op.req, op.sel)

\* Operations that make a movement of money, and the others.
Movements == {"topup", "send", "lightning", "receive", "collect"}

Init ==
    /\ kind = [i \in Ids |-> "none"] /\ state = [i \in Ids |-> "none"]
    /\ saga = {} /\ quotes = [i \in Ids |-> "none"] /\ late = {}
    /\ status = [i \in Ids |-> "absent"]
    /\ active = 1 /\ proofs = {1}
    /\ op = Idle /\ hidden = {} /\ faults = 0

Listed == {i \in Ids : status[i] # "absent"}

\* sort_wallet_activity_entries: past the limit the oldest entry is dropped,
\* by clock and then by random id, which may be any of them.
TruncatedTo(entries, limit) ==
    LET ids == {i \in Ids : entries[i] # "absent"}
        kept == IF Cardinality(ids) <= limit THEN {ids} ELSE {ids \ {i} : i \in ids} IN
    {[i \in Ids |-> IF i \in k THEN entries[i] ELSE "absent"] : k \in kept}
TruncatedShort(entries) == TruncatedTo(entries, MaxEntries - 1)
Truncated(entries) == TruncatedTo(entries, MaxEntries)

\* lock_operation; the identity of a movement is new, but an import may be
\* repeated.  The keyset a send must use was read from the mint, or named by
\* the caller, before the lock was taken.
Begin(k, id, req) ==
    /\ op = Idle
    /\ op' = Op(k, id, IF k = "startup" THEN "melts" ELSE "recover", req, {})
    /\ k \in Movements => kind[id] = "none" \/ (k = "collect" /\ kind[id] = "collect")
    /\ k = "revoke" => kind[id] = "send"
    /\ kind' = IF k \in Movements THEN [kind EXCEPT ![id] = k] ELSE kind
    /\ UNCHANGED <<state, saga, quotes, proofs, late, status, active, hidden, faults>>

\* An error return before anything happened: the movement never was.
Abandon ==
    /\ op' = Idle
    /\ kind' = IF op.kind \in Movements /\ state[op.id] = "none"
               THEN [kind EXCEPT ![op.id] = "none"] ELSE kind

\* The process crashes, or a write fails, in the middle of an operation.
Crash ==
    /\ op # Idle /\ faults < MaxFaults
    /\ faults' = faults + 1
    /\ Abandon
    /\ hidden' = IF op.at = "append"
                 THEN hidden \cup {op.id} ELSE hidden
    /\ UNCHANGED <<state, saga, quotes, proofs, late, status, active>>

\* append_wallet_activity_entry: load, push, sort, truncate, save.
Append ==
    /\ At(Movements, "append")
    /\ status' \in Truncated([status EXCEPT ![op.id] =
                           IF op.kind \in {"topup", "send"} THEN "Pending" ELSE "Complete"])
    /\ op' = Idle
    /\ UNCHANGED <<mintVars, late, active, hidden, faults>>

-----------------------------------------------------------------------------
(* The mint and the world.                                                  *)

Rotate ==
    /\ active < MaxKeyset /\ active' = active + 1
    /\ UNCHANGED <<mintVars, late, status, op, hidden, faults>>

\* Somebody pays the invoice of a top-up, or its quote expires.
PayTopup(id) ==
    /\ kind[id] = "topup" /\ state[id] = "unpaid"
    /\ state' = [state EXCEPT ![id] = "paid"]
    /\ UNCHANGED <<kind, saga, quotes, proofs, late, status, active, op, hidden, faults>>
Expire(id) ==
    /\ kind[id] = "topup" /\ state[id] # "none" /\ id \notin late
    /\ late' = late \cup {id}
    /\ UNCHANGED <<mintVars, status, active, op, hidden, faults>>

\* The library drops its record of a quote that was issued.
ForgetQuote(id) ==
    /\ quotes[id] = "issued"
    /\ quotes' = [quotes EXCEPT ![id] = "none"]
    /\ UNCHANGED <<kind, state, saga, proofs, late, status, active, op, hidden, faults>>

\* The payee redeems a token.
Redeem(id) ==
    /\ kind[id] = "send" /\ state[id] = "out"
    /\ state' = [state EXCEPT ![id] = "redeemed"]
    /\ UNCHANGED <<kind, saga, quotes, proofs, late, status, active, op, hidden, faults>>

-----------------------------------------------------------------------------
(* Recovery, inside the other operations and at startup.                    *)

\* finalize_pending_melts; an error is only a warning.
FinalizeMelts(done) ==
    /\ At({"startup"}, "melts")
    /\ \E paid \in SUBSET {i \in Ids : state[i] = "inflight"} :
         state' = [i \in Ids |->
                     IF state[i] # "inflight" \/ ~done THEN state[i]
                     ELSE IF i \in paid THEN "paid" ELSE "failed"]
    /\ Goto("recover")
    /\ UNCHANGED <<kind, saga, quotes, proofs, late, status, active, hidden, faults>>

\* recover_incomplete_sagas: the saga of a redeemed token is finished.  After
\* an error the startup recovery goes on, and every other operation stops.
AlwaysStops == TRUE
StopsOnError == op.kind # "startup"
AfterRecovery ==
    CASE op.kind \in {"startup", "overview", "topup"} -> "quotes"
      [] op.kind = "send" -> IF op.req # 0 THEN "keyset" ELSE "prepare"
      [] OTHER -> "act"
RecoverSagas(done) ==
    /\ op.at = "recover"
    /\ saga' = IF done THEN {i \in saga : state[i] # "redeemed"} ELSE saga
    /\ IF ~done /\ StopsOnError THEN Abandon ELSE Goto(AfterRecovery) /\ UNCHANGED kind
    /\ UNCHANGED <<state, quotes, proofs, late, status, active, hidden, faults>>

\* mint_unissued_quotes: the mint issues what was paid; on an error it may have
\* issued some of it.
IssueQuotes(issued, done) ==
    /\ op.at = "quotes"
    /\ state' = [i \in Ids |-> IF i \in issued THEN "issued" ELSE state[i]]
    /\ quotes' = [i \in Ids |-> IF i \in issued THEN "issued"
                                ELSE IF kind[i] = "topup" /\ state[i] = "paid" THEN "paid"
                                ELSE quotes[i]]
    /\ proofs' = IF issued = {} THEN proofs ELSE proofs \cup {active}
    /\ IF op.kind = "topup" /\ done THEN Goto("act") /\ UNCHANGED kind ELSE Abandon
    /\ UNCHANGED <<saga, late, status, active, hidden, faults>>

PaidTopups == {i \in Ids : kind[i] = "topup" /\ state[i] = "paid"}
RefreshQuotes == IssueQuotes(PaidTopups, TRUE)
RefreshFails == \E issued \in SUBSET PaidTopups : IssueQuotes(issued, FALSE)

-----------------------------------------------------------------------------
(* The step of each operation that moves money.                             *)

Moved(id, s) == state' = [state EXCEPT ![id] = s]

\* create_topup_quote: mint_quote
CreateQuote ==
    /\ At({"topup"}, "act")
    /\ Moved(op.id, "unpaid")
    /\ quotes' = [quotes EXCEPT ![op.id] = "unpaid"]
    /\ Goto("append")
    /\ UNCHANGED <<kind, saga, proofs, late, status, active, hidden, faults>>

\* receive_payment_token: receive swaps the token into the active keyset.
ReceiveToken ==
    /\ At({"receive"}, "act")
    /\ Moved(op.id, "done")
    /\ proofs' = proofs \cup {active}
    /\ Goto("append")
    /\ UNCHANGED <<kind, saga, quotes, late, status, active, hidden, faults>>

\* import_payment_proofs: update_proofs with proofs of any keyset of the mint;
\* proofs the wallet already has are left out, and nothing new means no entry.
ImportProofs(k) ==
    /\ At({"collect"}, "act")
    /\ IF state[op.id] = "done"
       THEN op' = Idle /\ UNCHANGED <<state, proofs>>
       ELSE /\ Moved(op.id, "done")
            /\ proofs' = proofs \cup {k}
            /\ Goto("append")
    /\ UNCHANGED <<kind, saga, quotes, late, status, active, hidden, faults>>

\* send_lightning_payment_with_wallet: confirm.  The payment may be made and
\* the answer say otherwise, or lack the preimage: an error, and no entry.
PayLightning(answer) ==
    /\ At({"lightning"}, "act")
    /\ CASE answer = "paid" -> Moved(op.id, "paid") /\ Goto("append") /\ UNCHANGED hidden
         [] answer = "no preimage" ->
              Moved(op.id, "paid") /\ op' = Idle /\ hidden' = hidden \cup {op.id}
         [] answer = "unknown" ->
              Moved(op.id, "inflight") /\ op' = Idle /\ hidden' = hidden \cup {op.id}
    /\ UNCHANGED <<kind, saga, quotes, proofs, late, status, active, faults>>

\* revoke_pending_payment: revoke_send, then mark_wallet_activity_reclaimed.
RevokeSend ==
    /\ At({"revoke"}, "act") /\ op.id \in saga /\ state[op.id] = "out"
    /\ Moved(op.id, "reclaimed")
    /\ saga' = saga \ {op.id}
    /\ proofs' = proofs \cup {active}
    /\ Goto("mark")
    /\ UNCHANGED <<kind, quotes, late, status, active, hidden, faults>>
MarkReclaimed ==
    /\ At({"revoke"}, "mark")
    /\ status' = IF op.id \in Listed THEN [status EXCEPT ![op.id] = "Reclaimed"] ELSE status
    /\ op' = Idle
    /\ UNCHANGED <<mintVars, late, active, hidden, faults>>

\* The mint or the wallet refuses.
Refused ==
    /\ op.at \in {"act", "keyset", "prepare", "consolidate", "confirm"}
    /\ Abandon
    /\ UNCHANGED <<state, saga, quotes, proofs, late, status, active, hidden, faults>>

-----------------------------------------------------------------------------
(* send_payment_token_with_keyset                                           *)

\* proofs_require_keyset_consolidation
NeverForeign(keysets, req) == FALSE
Foreign(keysets, req) == \E k \in keysets : k # req

\* fetch_active_keyset: the mint may have rotated since the keyset was chosen.
CheckKeyset ==
    /\ At({"send"}, "keyset")
    /\ IF active # op.req THEN Abandon
       ELSE /\ Goto(IF Foreign(proofs, op.req) THEN "consolidate" ELSE "prepare")
            /\ UNCHANGED kind
    /\ UNCHANGED <<state, saga, quotes, proofs, late, status, active, hidden, faults>>

\* swap of all proofs into the active keyset, by now perhaps a newer one.
Consolidate ==
    /\ At({"send"}, "consolidate")
    /\ proofs' = {active}
    /\ Goto("prepare")
    /\ UNCHANGED <<kind, state, saga, quotes, late, status, active, hidden, faults>>

\* prepare_send selects proofs; proofs of another keyset are released again.
PrepareSend(sel) ==
    /\ At({"send"}, "prepare")
    /\ sel # {} /\ sel \subseteq proofs
    /\ IF op.req # 0 /\ Foreign(sel, op.req)
       THEN Abandon
       ELSE op' = Op("send", op.id, "confirm", op.req, sel) /\ UNCHANGED kind
    /\ UNCHANGED <<state, saga, quotes, proofs, late, status, active, hidden, faults>>

\* confirm, which names no keyset: selected proofs make the token, or all or
\* some of them are swapped for the exact amount into the keyset that is active
\* by then.  The selection may have used up the proofs of its keysets.
ConfirmSend(token, left) ==
    /\ At({"send"}, "confirm")
    /\ token # {} /\ token \subseteq op.sel \cup {active}
    /\ left \subseteq proofs /\ proofs \ op.sel \subseteq left
    /\ Moved(op.id, "out")
    /\ saga' = saga \cup {op.id}
    /\ proofs' = left
    /\ op' = Op("send", op.id, "append", op.req, token)
    /\ UNCHANGED <<kind, quotes, late, status, active, hidden, faults>>

-----------------------------------------------------------------------------
(* load_wallet_activity                                                     *)

\* The status an entry is given when the list is shown.
AlwaysSettled(id) == TRUE
Settled(id) == id \notin saga
Shown(id) ==
    CASE status[id] # "absent" /\ kind[id] = "topup" ->
           IF quotes[id] \in {"paid", "issued"} THEN "Complete"
           ELSE IF id \in late THEN "Expired"
           ELSE IF quotes[id] = "none" THEN status[id] ELSE "Pending"
      [] kind[id] = "send" /\ status[id] = "Pending" ->
           IF Settled(id) THEN "Complete" ELSE "Pending"
      [] OTHER -> status[id]
LoadActivity ==
    /\ op = Idle
    /\ status' = [i \in Ids |-> Shown(i)]
    /\ UNCHANGED <<mintVars, late, active, op, hidden, faults>>

-----------------------------------------------------------------------------

World ==
    \/ Rotate
    \/ \E id \in Ids : PayTopup(id) \/ Expire(id) \/ ForgetQuote(id) \/ Redeem(id)

\* select_spilman_keyset: the active keyset, or any the caller names; 0 leaves
\* the choice to the wallet.
KeysetChoices == 0..active

BeginAny ==
    \/ \E k \in {"startup", "overview"} : Begin(k, NoId, 0)
    \/ \E k \in (Movements \cup {"revoke"}) \ {"send"}, id \in Ids : Begin(k, id, 0)
    \/ \E id \in Ids, req \in KeysetChoices : Begin("send", id, req)

OpStep ==
    \/ \E done \in BOOLEAN : FinalizeMelts(done) \/ RecoverSagas(done)
    \/ RefreshQuotes \/ RefreshFails
    \/ CreateQuote
    \/ ReceiveToken
    \/ \E k \in 1..active : ImportProofs(k)
    \/ \E answer \in {"paid", "no preimage", "unknown"} : PayLightning(answer)
    \/ RevokeSend \/ MarkReclaimed \/ Refused
    \/ CheckKeyset \/ Consolidate
    \/ \E sel \in SUBSET proofs : PrepareSend(sel)
    \/ \E token \in SUBSET (1..active), left \in SUBSET proofs : ConfirmSend(token, left)
    \/ Append

Next == World \/ BeginAny \/ OpStep \/ Crash \/ LoadActivity

\* The operation lock is fair, so the startup recovery gets its turn; an
\* operation goes on to its end; the mint answers the refresh now and then.
Fairness ==
    /\ WF_vars(OpStep)
    /\ SF_vars(Begin("startup", NoId, 0))
    /\ SF_vars(RefreshQuotes)

Spec == Init /\ [][Next]_vars
FairSpec == Spec /\ Fairness

-----------------------------------------------------------------------------
(* Properties.                                                              *)

\* The list tells the truth: a token called complete or reclaimed can no
\* longer be redeemed, one that is out is offered for revocation, a top-up is
\* complete only when it was paid, whatever failed between the movement and
\* its entry (load_wallet_activity, mark_wallet_activity_reclaimed).
ActivityTruth ==
    \A i \in Listed :
      /\ kind[i] = "send" =>
           /\ state[i] = "out" => status[i] = "Pending"
           /\ status[i] = "Reclaimed" => state[i] = "reclaimed"
      /\ kind[i] = "topup" /\ status[i] = "Complete" => state[i] \in {"paid", "issued"}
      /\ kind[i] \in {"lightning", "receive", "collect"} => state[i] \in {"paid", "done"}

\* Money that moved is in the list, except where a fault or a mint's answer
\* came between the movement and its entry, or the list is full
\* (append_wallet_activity_entry, sort_wallet_activity_entries).
ActivityComplete ==
    \A i \in Ids \ (Listed \cup hidden \cup {op.id}) :
      state[i] # "none" => Cardinality(Listed) = MaxEntries

\* A token made for a keyset, to fund a channel, has proofs of that keyset and
\* of none before it, although the mint may rotate between the choice of the
\* keyset and every later step and the wallet holds proofs of old keysets; a
\* newer keyset is in it only when the mint rotated after the last check
\* (send_payment_token_for_keyset, proofs_require_keyset_consolidation).
RequiredKeyset ==
    At({"send"}, "append") /\ op.req # 0 => op.sel \subseteq op.req..active

\* A paid top-up is issued in the end: the startup recovery gets to it even
\* when the recovery of sagas never succeeds (recover_startup_state).
TopupIssued ==
    \A i \in Ids : kind[i] = "topup" /\ state[i] = "paid" ~> state[i] = "issued"
=============================================================================
