----------------------- MODULE WalletOperationsProofs -----------------------
(***************************************************************************)
(* The activity list of a wallet tells the truth and misses nothing but    *)
(* what it says it may miss, and a token for a keyset has no older proofs, *)
(* for any number of movements, keysets, entries and faults.               *)
(***************************************************************************)
EXTENDS WalletOperations, TLAPS, FiniteSetTheorems

Kinds == Movements \cup {"none"}
States == {"none", "unpaid", "paid", "issued", "out", "redeemed", "reclaimed", "inflight",
           "failed", "done"}
QuoteStates == {"none", "unpaid", "paid", "issued"}
Statuses == {"absent", "Pending", "Complete", "Expired", "Reclaimed"}
Steps == {"end", "melts", "recover", "quotes", "act", "append", "mark", "keyset", "prepare",
          "consolidate", "confirm"}
OpType ==
    [kind : Movements \cup {"idle", "startup", "overview", "revoke"}, id : Ids \cup {NoId},
     at : Steps, req : 0..MaxKeyset, sel : SUBSET (1..MaxKeyset)]

\* The variables have their types.
WalletTypeOK ==
    /\ kind \in [Ids -> Kinds] /\ state \in [Ids -> States]
    /\ quotes \in [Ids -> QuoteStates] /\ status \in [Ids -> Statuses]
    /\ saga \subseteq Ids /\ late \subseteq Ids /\ hidden \subseteq Ids
    /\ active \in 1..MaxKeyset /\ proofs \subseteq 1..active
    /\ op \in OpType /\ faults \in 0..MaxFaults

\* What can have happened to a movement of each kind, and to one whose
\* operation has moved the money and is about to append the entry.
StatesOf(k) ==
    IF k = "topup" THEN {"none", "unpaid", "paid", "issued"}
    ELSE IF k = "send" THEN {"none", "out", "redeemed", "reclaimed"}
    ELSE IF k = "lightning" THEN {"none", "inflight", "paid", "failed"}
    ELSE IF k \in {"receive", "collect"} THEN {"none", "done"} ELSE {"none"}
Reached(k) ==
    IF k = "topup" THEN {"unpaid", "paid", "issued"}
    ELSE IF k = "send" THEN {"out", "redeemed"}
    ELSE IF k = "lightning" THEN {"paid"} ELSE {"done"}

MovesOK ==
    \A i \in Ids :
        /\ state[i] \in StatesOf(kind[i])
        /\ state[i] = "out" => i \in saga
        /\ quotes[i] \in {"paid", "issued"} => kind[i] = "topup" /\ state[i] \in {"paid", "issued"}
        /\ i \in Listed => state[i] # "none"

\* The operation that has the lock: before its money moves nothing has
\* happened, but for an import that is repeated, and nothing is listed yet
\* when it appends; what a send for a keyset selected, and then its token, has
\* no keyset older than that.
KeysetKept == op.sel # {} /\ op.sel \subseteq op.req..active
OpOK ==
    /\ op.kind \in Movements \cup {"revoke"} => op.id \in Ids
    /\ op.kind \in Movements =>
          /\ kind[op.id] = op.kind
          /\ op.at # "append" =>
                state[op.id] = "none" \/ (op.kind = "collect" /\ state[op.id] = "done")
          /\ op.at = "append" => op.id \notin Listed /\ state[op.id] \in Reached(op.kind)
    /\ op.at = "append" => op.kind \in Movements
    /\ op.kind = "revoke" => kind[op.id] = "send"
    /\ op.at = "mark" => op.kind = "revoke" /\ state[op.id] = "reclaimed"
    /\ op.kind = "send" /\ op.at \in {"confirm", "append"} /\ op.req # 0 => KeysetKept

Room == IsFiniteSet(Listed) /\ Cardinality(Listed) <= MaxEntries

\* Money that moved has its entry, lost it to a fault or to a full list, or
\* is about to get it.
Covered ==
    \A i \in Ids : state[i] # "none" =>
        \/ i \in Listed \cup hidden \/ Cardinality(Listed) = MaxEntries
        \/ op.at = "append" /\ op.id = i

WalletInv == WalletTypeOK /\ MovesOK /\ OpOK /\ Room /\ Covered /\ ActivityTruth

-----------------------------------------------------------------------------
(* Steps that leave the list alone.                                         *)

LEMMA WalletTypes ==
    ASSUME WalletInv
    PROVE  /\ kind \in [Ids -> Kinds] /\ state \in [Ids -> States]
           /\ quotes \in [Ids -> QuoteStates] /\ status \in [Ids -> Statuses]
           /\ saga \subseteq Ids /\ late \subseteq Ids /\ hidden \subseteq Ids
           /\ active \in 1..MaxKeyset /\ proofs \subseteq 1..active /\ 1..active \subseteq 1..MaxKeyset
           /\ op \in OpType /\ faults \in 0..MaxFaults
           /\ MaxKeyset \in Nat /\ MaxFaults \in Nat /\ MaxEntries \in Nat
<1>1. MaxKeyset \in Nat /\ MaxFaults \in Nat /\ MaxEntries \in Nat
  BY WalletAssumption
<1>2. active \in 1..MaxKeyset
  BY DEF WalletInv, WalletTypeOK
<1>3. 1..active \subseteq 1..MaxKeyset
  BY <1>1, <1>2
<1> QED BY <1>1, <1>3 DEF WalletInv, WalletTypeOK

LEMMA OpFields ==
    ASSUME NEW k, NEW id, NEW at, NEW req, NEW sel
    PROVE  LET c == Op(k, id, at, req, sel) IN
             c.kind = k /\ c.id = id /\ c.at = at /\ c.req = req /\ c.sel = sel
BY DEF Op

LEMMA IdleFacts ==
    Idle \in OpType /\ Idle.kind = "idle" /\ Idle.at = "end" /\ Idle.id = NoId
<1>1. 0 \in 0..MaxKeyset /\ {} \in SUBSET (1..MaxKeyset)
  BY WalletAssumption
<1> QED BY <1>1 DEF Idle, Op, OpType, Steps

\* How a movement goes on: it happens, it is paid and issued, the token is
\* redeemed or reclaimed, the payment settles.
Progress(k, s, t) ==
    \/ s = "none" /\ t \in StatesOf(k)
    \/ k = "topup" /\ s \in {"unpaid", "paid"} /\ t \in {"paid", "issued"}
    \/ k = "send" /\ s = "out" /\ t \in {"redeemed", "reclaimed"}
    \/ k = "lightning" /\ s = "inflight" /\ t \in {"paid", "failed"}

\* Such a step keeps the invariant when every movement goes on, its kind is
\* settled, and one that happened is listed, hidden or about to be appended.
LEMMA ListStep ==
    ASSUME WalletInv, WalletTypeOK', OpOK', status' = status, hidden \subseteq hidden',
           \A i \in Ids : state'[i] = state[i] \/ Progress(kind[i], state[i], state'[i]),
           \A i \in Ids : kind'[i] = kind[i] \/ (state[i] = "none" /\ state'[i] = "none"),
           \A i \in Ids : state'[i] = "out" => i \in saga',
           \A i \in Ids : quotes'[i] \in {"paid", "issued"} =>
               kind'[i] = "topup" /\ state'[i] \in {"paid", "issued"},
           \A i \in Ids : state'[i] # "none" =>
               \/ state[i] # "none" /\ ~(op.at = "append" /\ op.id = i)
               \/ i \in hidden' \/ (op'.at = "append" /\ op'.id = i)
    PROVE  WalletInv'
<1>1. Listed' = Listed
  BY DEF Listed
<1>2. Listed \subseteq Ids
  BY DEF Listed
<1>3. MovesOK'
  <2>1. \A i \in Ids : /\ state[i] \in StatesOf(kind[i])
                       /\ i \in Listed => state[i] # "none"
    BY DEF WalletInv, MovesOK
  <2>2. \A i \in Ids : state'[i] \in StatesOf(kind'[i])
    BY <2>1 DEF Progress, StatesOf
  <2>3. \A i \in Listed : state'[i] # "none"
    BY <1>2, <2>1 DEF Progress
  <2> QED BY <1>1, <1>2, <2>2, <2>3 DEF MovesOK
<1>4. Room'
  BY <1>1 DEF WalletInv, Room
<1>5. Covered'
  BY <1>1 DEF WalletInv, Covered
<1>6. ActivityTruth'
  <2> SUFFICES ASSUME NEW i \in Listed
               PROVE  /\ kind'[i] = "send" =>
                           /\ state'[i] = "out" => status'[i] = "Pending"
                           /\ status'[i] = "Reclaimed" => state'[i] = "reclaimed"
                      /\ kind'[i] = "topup" /\ status'[i] = "Complete" =>
                           state'[i] \in {"paid", "issued"}
                      /\ kind'[i] \in {"lightning", "receive", "collect"} =>
                           state'[i] \in {"paid", "done"}
    BY <1>1 DEF ActivityTruth
  <2>1. i \in Ids /\ state[i] # "none" /\ kind'[i] = kind[i]
    BY <1>2 DEF WalletInv, MovesOK
  <2>2. /\ kind[i] = "send" =>
             /\ state[i] = "out" => status[i] = "Pending"
             /\ status[i] = "Reclaimed" => state[i] = "reclaimed"
        /\ kind[i] = "topup" /\ status[i] = "Complete" => state[i] \in {"paid", "issued"}
        /\ kind[i] \in {"lightning", "receive", "collect"} => state[i] \in {"paid", "done"}
    BY DEF WalletInv, ActivityTruth
  <2> QED BY <2>1, <2>2 DEF Progress
<1> QED BY <1>3, <1>4, <1>5, <1>6 DEF WalletInv

\* The same for a step that moves no money: kinds change only where nothing
\* has happened, and no operation that is to append is left behind.
LEMMA ControlStep ==
    ASSUME WalletInv, WalletTypeOK', OpOK', UNCHANGED <<state, quotes, status>>,
           hidden \subseteq hidden',
           \A i \in Ids : kind'[i] = kind[i] \/ state[i] = "none",
           \A i \in Ids : state[i] = "out" /\ i \in saga => i \in saga',
           op.at = "append" => op.id \in hidden' \/ (op'.at = "append" /\ op'.id = op.id)
    PROVE  WalletInv'
<1>1. \A i \in Ids : state'[i] = "out" => i \in saga'
  BY DEF WalletInv, MovesOK
<1>2. \A i \in Ids : quotes'[i] \in {"paid", "issued"} =>
          kind'[i] = "topup" /\ state'[i] \in {"paid", "issued"}
  BY DEF WalletInv, MovesOK
<1> QED BY <1>1, <1>2, ListStep

-----------------------------------------------------------------------------
(* Control: the lock, the next step, the end of an operation.               *)

LEMMA GotoFields ==
    ASSUME WalletInv, NEW at \in Steps, Goto(at)
    PROVE  /\ op' \in OpType /\ op'.kind = op.kind /\ op'.id = op.id /\ op'.at = at
           /\ op'.req = op.req /\ op'.sel = op.sel
<1>1. op \in OpType
  BY WalletTypes
<1> QED BY <1>1, OpFields DEF Goto, Op, OpType

\* The operation goes on, with nothing done yet.
LEMMA GoOn ==
    ASSUME WalletInv, NEW at \in Steps \ {"append", "mark", "confirm"}, Goto(at),
           op.at # "append", kind' = kind,
           op.kind \in Movements => state'[op.id] = state[op.id]
    PROVE  OpOK'
<1>1. /\ op' \in OpType /\ op'.kind = op.kind /\ op'.id = op.id /\ op'.at = at
  BY GotoFields
<1> QED BY <1>1 DEF WalletInv, OpOK

LEMMA EndOp ==
    ASSUME op' = Idle
    PROVE  OpOK' /\ op' \in OpType
BY IdleFacts DEF OpOK, Movements

LEMMA AbandonFacts ==
    ASSUME WalletInv, Abandon
    PROVE  /\ op' = Idle /\ OpOK' /\ op' \in OpType
           /\ kind' \in [Ids -> Kinds]
           /\ \A i \in Ids : kind'[i] = kind[i] \/ state[i] = "none"
<1>1. kind \in [Ids -> Kinds] /\ (op.kind \in Movements => op.id \in Ids)
  BY WalletTypes DEF WalletInv, OpOK
<1>2. op' = Idle
  BY DEF Abandon
<1>3. OpOK' /\ op' \in OpType
  BY <1>2, EndOp
<1>4. /\ kind' \in [Ids -> Kinds]
      /\ \A i \in Ids : kind'[i] = kind[i] \/ state[i] = "none"
  BY <1>1 DEF Abandon, Kinds
<1> QED BY <1>2, <1>3, <1>4

-----------------------------------------------------------------------------
(* The mint and the world.                                                  *)

LEMMA RotateKeeps ==
    ASSUME WalletInv, Rotate
    PROVE  WalletInv'
<1>1. active' \in 1..MaxKeyset /\ 1..active \subseteq 1..active'
  BY WalletTypes DEF Rotate
<1>2. UNCHANGED <<kind, state, saga, quotes, proofs, late, status, op, hidden, faults>>
  BY DEF Rotate, mintVars
<1>3. WalletTypeOK'
  BY <1>1, <1>2, WalletTypes DEF WalletTypeOK
<1>4. KeysetKept => KeysetKept'
  BY <1>1, <1>2, WalletTypes DEF KeysetKept, OpType
<1>5. OpOK'
  BY <1>2, <1>4 DEF WalletInv, OpOK, Listed
<1> QED BY <1>2, <1>3, <1>5, ControlStep

LEMMA ExpireKeeps ==
    ASSUME WalletInv, NEW id \in Ids, Expire(id)
    PROVE  WalletInv'
<1>1. UNCHANGED <<kind, state, saga, quotes, proofs, active, status, op, hidden, faults>>
  BY DEF Expire, mintVars
<1>2. WalletTypeOK'
  BY <1>1, WalletTypes DEF WalletTypeOK, Expire
<1>3. OpOK'
  BY <1>1 DEF WalletInv, OpOK, KeysetKept, Listed
<1> QED BY <1>1, <1>2, <1>3, ControlStep

LEMMA ForgetQuoteKeeps ==
    ASSUME WalletInv, NEW id \in Ids, ForgetQuote(id)
    PROVE  WalletInv'
<1>1. UNCHANGED <<kind, state, saga, proofs, late, active, status, op, hidden, faults>>
  BY DEF ForgetQuote
<1>2. /\ quotes' \in [Ids -> QuoteStates]
      /\ \A i \in Ids : quotes'[i] = quotes[i] \/ quotes'[i] = "none"
  <2>1. quotes \in [Ids -> QuoteStates] /\ "none" \in QuoteStates
    BY WalletTypes DEF QuoteStates
  <2> QED BY <2>1 DEF ForgetQuote
<1>3. WalletTypeOK'
  BY <1>1, <1>2, WalletTypes DEF WalletTypeOK
<1>4. OpOK'
  BY <1>1 DEF WalletInv, OpOK, KeysetKept, Listed
<1>5. \A i \in Ids : quotes'[i] \in {"paid", "issued"} =>
          kind'[i] = "topup" /\ state'[i] \in {"paid", "issued"}
  BY <1>1, <1>2 DEF WalletInv, MovesOK
<1>6. \A i \in Ids : state'[i] = "out" => i \in saga'
  BY <1>1 DEF WalletInv, MovesOK
<1> QED BY <1>1, <1>3, <1>4, <1>5, <1>6, ListStep

\* Somebody else moves a movement on.
LEMMA WorldStep ==
    ASSUME WalletInv, NEW id \in Ids, NEW t \in States,
           state' = [state EXCEPT ![id] = t],
           \/ kind[id] = "topup" /\ state[id] = "unpaid" /\ t = "paid"
           \/ kind[id] = "send" /\ state[id] = "out" /\ t = "redeemed",
           UNCHANGED <<kind, saga, quotes, proofs, late, status, active, op, hidden, faults>>
    PROVE  WalletInv'
<1>1. state \in [Ids -> States]
  BY WalletTypes
<1>2. state'[id] = t /\ \A i \in Ids : i # id => state'[i] = state[i]
  BY <1>1
<1>3. WalletTypeOK'
  BY <1>1, WalletTypes DEF WalletTypeOK
<1>4. OpOK'
  <2>1. op.kind \in Movements /\ op.id = id => op.at = "append" /\ t \in Reached(op.kind)
    BY DEF WalletInv, OpOK, Reached
  <2>2. op.at = "mark" => op.id # id
    BY DEF WalletInv, OpOK
  <2>3. Listed' = Listed /\ KeysetKept' = KeysetKept
    BY DEF Listed, KeysetKept
  <2> QED BY <1>2, <2>1, <2>2, <2>3 DEF WalletInv, OpOK, Movements
<1>5. \A i \in Ids : state'[i] = state[i] \/ Progress(kind[i], state[i], state'[i])
  BY <1>2 DEF Progress
<1>6. \A i \in Ids : state'[i] = "out" => i \in saga'
  BY <1>2 DEF WalletInv, MovesOK
<1>7. \A i \in Ids : quotes'[i] \in {"paid", "issued"} =>
          kind'[i] = "topup" /\ state'[i] \in {"paid", "issued"}
  BY <1>2 DEF WalletInv, MovesOK
<1>8. \A i \in Ids : state'[i] # "none" =>
          \/ state[i] # "none" /\ ~(op.at = "append" /\ op.id = i)
          \/ i \in hidden' \/ (op'.at = "append" /\ op'.id = i)
  BY <1>2
<1> QED BY <1>3, <1>4, <1>5, <1>6, <1>7, <1>8, ListStep

LEMMA WorldKeeps ==
    ASSUME WalletInv, World
    PROVE  WalletInv'
<1>1. CASE Rotate
  BY <1>1, RotateKeeps
<1>2. ASSUME NEW id \in Ids, PayTopup(id) \/ Expire(id) \/ ForgetQuote(id) \/ Redeem(id)
      PROVE  WalletInv'
  <2>1. "paid" \in States /\ "redeemed" \in States
    BY DEF States
  <2> QED BY <1>2, <2>1, WorldStep, ExpireKeeps, ForgetQuoteKeeps DEF PayTopup, Redeem
<1> QED BY <1>1, <1>2 DEF World

-----------------------------------------------------------------------------
(* The operations.                                                          *)

LEMMA BeginKeeps ==
    ASSUME WalletInv, NEW k \in Movements \cup {"startup", "overview", "revoke"},
           NEW id \in Ids \cup {NoId}, NEW req \in 0..MaxKeyset, Begin(k, id, req),
           k \in Movements \cup {"revoke"} => id \in Ids
    PROVE  WalletInv'
<1> DEFINE at == IF k = "startup" THEN "melts" ELSE "recover"
<1>1. UNCHANGED <<state, saga, quotes, proofs, late, status, active, hidden, faults>>
  BY DEF Begin
<1>2. op.at = "end" /\ op' = Op(k, id, at, req, {})
  BY IdleFacts DEF Begin
<1>3. /\ op' \in OpType /\ op'.kind = k /\ op'.id = id /\ op'.at \in {"melts", "recover"}
  BY <1>2 DEF Op, OpType, Steps
<1>4. /\ kind' \in [Ids -> Kinds]
      /\ \A i \in Ids : i # id => kind'[i] = kind[i]
      /\ k \in Movements => kind'[id] = k
      /\ k \notin Movements => kind' = kind
  BY WalletTypes DEF Begin, Kinds
<1>5. k \in Movements => state[id] = "none" \/ (k = "collect" /\ kind[id] = "collect")
  BY DEF Begin, WalletInv, MovesOK, StatesOf
<1>6. WalletTypeOK'
  BY <1>1, <1>3, <1>4, WalletTypes DEF WalletTypeOK
<1>7. OpOK'
  <2>1. k \in Movements => state[id] = "none" \/ (k = "collect" /\ state[id] = "done")
    BY <1>5 DEF WalletInv, MovesOK, StatesOf
  <2>2. k = "revoke" => k \notin Movements /\ kind[id] = "send"
    BY DEF Begin, Movements
  <2> QED BY <1>1, <1>3, <1>4, <2>1, <2>2 DEF OpOK
<1>8. \A i \in Ids : kind'[i] = kind[i] \/ state[i] = "none"
  BY <1>4, <1>5
<1> QED BY <1>1, <1>2, <1>6, <1>7, <1>8, ControlStep

\* An operation ends with an error and nothing more happened.
LEMMA AbandonKeeps ==
    ASSUME WalletInv, Abandon, op.at # "append",
           UNCHANGED <<state, quotes, proofs, late, status, active, hidden, faults>>,
           saga' \subseteq saga, \A i \in saga : state[i] = "out" => i \in saga'
    PROVE  WalletInv'
<1>1. WalletTypeOK'
  BY AbandonFacts, WalletTypes DEF WalletTypeOK
<1> QED BY <1>1, AbandonFacts, ControlStep

\* An operation goes on to its next step and no money moved.
LEMMA GoOnKeeps ==
    ASSUME WalletInv, NEW at \in Steps \ {"append", "mark", "confirm"}, Goto(at),
           op.at # "append",
           UNCHANGED <<kind, state, quotes, late, status, active, hidden, faults>>,
           proofs' \subseteq 1..active,
           saga' \subseteq saga, \A i \in saga : state[i] = "out" => i \in saga'
    PROVE  WalletInv'
<1>1. op' \in OpType
  BY GotoFields
<1>2. WalletTypeOK'
  BY <1>1, WalletTypes DEF WalletTypeOK
<1>3. OpOK'
  BY GoOn
<1> QED BY <1>2, <1>3, ControlStep

LEMMA CrashKeeps ==
    ASSUME WalletInv, Crash
    PROVE  WalletInv'
<1>1. /\ UNCHANGED <<state, saga, quotes, proofs, late, status, active>> /\ Abandon
      /\ hidden' = IF op.at = "append" THEN hidden \cup {op.id} ELSE hidden
      /\ faults' \in 0..MaxFaults
  BY WalletTypes DEF Crash
<1>2. op.at = "append" => op.id \in Ids
  BY DEF WalletInv, OpOK
<1>3. WalletTypeOK'
  BY <1>1, <1>2, AbandonFacts, WalletTypes DEF WalletTypeOK
<1> QED BY <1>1, <1>3, AbandonFacts, ControlStep

LEMMA FinalizeMeltsKeeps ==
    ASSUME WalletInv, NEW done \in BOOLEAN, FinalizeMelts(done)
    PROVE  WalletInv'
<1>1. /\ op.kind = "startup" /\ op.at = "melts" /\ Goto("recover")
      /\ UNCHANGED <<kind, saga, quotes, proofs, late, status, active, hidden, faults>>
  BY DEF FinalizeMelts, At
<1>2. /\ state' \in [Ids -> States]
      /\ \A i \in Ids : \/ state'[i] = state[i]
                        \/ state[i] = "inflight" /\ state'[i] \in {"paid", "failed"}
  <2>1. state \in [Ids -> States] /\ "paid" \in States /\ "failed" \in States
    BY WalletTypes DEF States
  <2> QED BY <2>1 DEF FinalizeMelts
<1>3. op' \in OpType
  BY <1>1, GotoFields DEF Steps
<1>4. WalletTypeOK'
  BY <1>1, <1>2, <1>3, WalletTypes DEF WalletTypeOK
<1>5. OpOK'
  <2>1. "recover" \in Steps \ {"append", "mark", "confirm"}
    BY DEF Steps
  <2>2. op.kind \notin Movements
    BY <1>1 DEF Movements
  <2> QED BY <1>1, <2>1, <2>2, GoOn
<1>6. \A i \in Ids : state[i] = "inflight" => kind[i] = "lightning"
  BY DEF WalletInv, MovesOK, StatesOf
<1>7. \A i \in Ids : state'[i] = state[i] \/ Progress(kind[i], state[i], state'[i])
  BY <1>2, <1>6 DEF Progress
<1>8. \A i \in Ids : state'[i] = "out" => i \in saga'
  BY <1>1, <1>2 DEF WalletInv, MovesOK
<1>9. \A i \in Ids : quotes'[i] \in {"paid", "issued"} =>
          kind'[i] = "topup" /\ state'[i] \in {"paid", "issued"}
  BY <1>1, <1>2, <1>6 DEF WalletInv, MovesOK
<1>10. \A i \in Ids : state'[i] # "none" =>
           state[i] # "none" /\ ~(op.at = "append" /\ op.id = i)
  BY <1>1, <1>2
<1> QED BY <1>1, <1>4, <1>5, <1>7, <1>8, <1>9, <1>10, ListStep

LEMMA RecoverSagasKeeps ==
    ASSUME WalletInv, NEW done \in BOOLEAN, RecoverSagas(done)
    PROVE  WalletInv'
<1>1. /\ op.at = "recover" /\ saga' \subseteq saga
      /\ \A i \in saga : state[i] = "out" => i \in saga'
      /\ UNCHANGED <<state, quotes, proofs, late, status, active, hidden, faults>>
  BY DEF RecoverSagas
<1>2. CASE Abandon
  BY <1>1, <1>2, AbandonKeeps
<1>3. CASE Goto(AfterRecovery) /\ UNCHANGED kind
  <2>1. AfterRecovery \in {"quotes", "keyset", "prepare", "act"}
    BY DEF AfterRecovery
  <2>2. AfterRecovery \in Steps \ {"append", "mark", "confirm"}
    BY <2>1 DEF Steps
  <2>3. proofs' \subseteq 1..active
    BY <1>1, WalletTypes
  <2>4. PICK at \in Steps \ {"append", "mark", "confirm"} : at = AfterRecovery
    BY <2>2
  <2>5. Goto(at)
    BY <1>3, <2>4
  <2> QED BY <1>1, <1>3, <2>3, <2>5, GoOnKeeps
<1> QED BY <1>2, <1>3 DEF RecoverSagas

LEMMA IssueQuotesKeeps ==
    ASSUME WalletInv, NEW issued \in SUBSET PaidTopups, NEW done \in BOOLEAN,
           IssueQuotes(issued, done)
    PROVE  WalletInv'
<1>1. op.at = "quotes" /\ UNCHANGED <<saga, late, status, active, hidden, faults>>
  BY DEF IssueQuotes
<1>2. \A i \in issued : i \in Ids /\ kind[i] = "topup" /\ state[i] = "paid"
  BY DEF PaidTopups
<1>3. /\ state' \in [Ids -> States]
      /\ \A i \in issued : state'[i] = "issued"
      /\ \A i \in Ids \ issued : state'[i] = state[i]
  <2>1. state \in [Ids -> States] /\ "issued" \in States
    BY WalletTypes DEF States
  <2> QED BY <1>2, <2>1 DEF IssueQuotes
<1>4. /\ quotes' \in [Ids -> QuoteStates]
      /\ \A i \in Ids \ issued : quotes'[i] = quotes[i] \/ (kind[i] = "topup" /\ state[i] = "paid")
  <2>1. quotes \in [Ids -> QuoteStates] /\ "issued" \in QuoteStates /\ "paid" \in QuoteStates
    BY WalletTypes DEF QuoteStates
  <2> QED BY <2>1 DEF IssueQuotes
<1>5. proofs' \subseteq 1..active
  BY WalletTypes DEF IssueQuotes
<1>6. op.kind \in Movements => op.id \notin issued /\ op.id \in Ids
  BY <1>1, <1>2 DEF WalletInv, OpOK
<1>7. /\ kind' \in [Ids -> Kinds] /\ op' \in OpType /\ OpOK'
      /\ \A i \in Ids : kind'[i] = kind[i] \/ state[i] = "none"
  <2>1. CASE Abandon
    BY <2>1, AbandonFacts
  <2>2. CASE Goto("act") /\ UNCHANGED kind
    <3>1. "act" \in Steps \ {"append", "mark", "confirm"}
      BY DEF Steps
    <3>2. OpOK' /\ op' \in OpType
      BY <1>1, <1>3, <1>6, <2>2, <3>1, GoOn, GotoFields
    <3> QED BY <2>2, <3>2, WalletTypes
  <2> QED BY <2>1, <2>2 DEF IssueQuotes
<1>8. WalletTypeOK'
  BY <1>1, <1>3, <1>4, <1>5, <1>7, WalletTypes DEF WalletTypeOK
<1>9. \A i \in Ids : state'[i] = state[i] \/ Progress(kind[i], state[i], state'[i])
  BY <1>2, <1>3 DEF Progress
<1>10. \A i \in Ids : kind'[i] = kind[i] \/ (state[i] = "none" /\ state'[i] = "none")
  BY <1>2, <1>3, <1>7
<1>11. \A i \in Ids : state'[i] = "out" => i \in saga'
  BY <1>1, <1>2, <1>3 DEF WalletInv, MovesOK
<1>12. \A i \in Ids : quotes'[i] \in {"paid", "issued"} =>
           kind'[i] = "topup" /\ state'[i] \in {"paid", "issued"}
  BY <1>2, <1>3, <1>4, <1>10 DEF WalletInv, MovesOK
<1>13. \A i \in Ids : state'[i] # "none" =>
           state[i] # "none" /\ ~(op.at = "append" /\ op.id = i)
  BY <1>1, <1>2, <1>3
<1> QED BY <1>1, <1>7, <1>8, <1>9, <1>10, <1>11, <1>12, <1>13, ListStep

-----------------------------------------------------------------------------
(* The money moves.                                                         *)

\* The operation's movement happens, and its entry is appended next or hidden.
LEMMA MoneyMoves ==
    ASSUME WalletInv, op.kind \in Movements, op.at # "append", state[op.id] = "none",
           NEW t \in States, Moved(op.id, t), t # "none", t \in StatesOf(op.kind),
           UNCHANGED <<kind, late, status, active, faults>>,
           hidden \subseteq hidden', hidden' \subseteq hidden \cup {op.id},
           saga' \in {saga, saga \cup {op.id}}, t = "out" => op.id \in saga',
           quotes' \in [Ids -> QuoteStates],
           \A i \in Ids : quotes'[i] = quotes[i] \/ quotes'[i] \notin {"paid", "issued"},
           proofs' \subseteq 1..active, op' \in OpType,
           \/ op' = Idle /\ op.id \in hidden'
           \/ /\ op'.kind = op.kind /\ op'.id = op.id /\ op'.at = "append"
              /\ t \in Reached(op.kind)
              /\ op.kind = "send" /\ op'.req # 0 => KeysetKept'
    PROVE  WalletInv'
<1>1. /\ op.id \in Ids /\ kind[op.id] = op.kind /\ op.id \notin Listed
  BY DEF WalletInv, OpOK, MovesOK
<1>2. /\ state' \in [Ids -> States] /\ state'[op.id] = t
      /\ \A i \in Ids : i # op.id => state'[i] = state[i]
  BY <1>1, WalletTypes DEF Moved
<1>3. WalletTypeOK'
  BY <1>1, <1>2, WalletTypes DEF WalletTypeOK
<1>4. OpOK'
  <2>1. CASE op' = Idle
    BY <2>1, EndOp
  <2>2. CASE /\ op'.kind = op.kind /\ op'.id = op.id /\ op'.at = "append"
             /\ t \in Reached(op.kind)
             /\ op.kind = "send" /\ op'.req # 0 => KeysetKept'
    <3>1. op.id \notin Listed'
      BY <1>1 DEF Listed
    <3> QED BY <1>1, <1>2, <2>2, <3>1 DEF OpOK, Movements
  <2> QED BY <2>1, <2>2
<1>5. \A i \in Ids : state'[i] = state[i] \/ Progress(kind[i], state[i], state'[i])
  BY <1>1, <1>2 DEF Progress
<1>6. \A i \in Ids : state'[i] = "out" => i \in saga'
  BY <1>2 DEF WalletInv, MovesOK
<1>7. \A i \in Ids : quotes'[i] \in {"paid", "issued"} =>
          kind'[i] = "topup" /\ state'[i] \in {"paid", "issued"}
  BY <1>2 DEF WalletInv, MovesOK
<1>8. \A i \in Ids : state'[i] # "none" =>
          \/ state[i] # "none" /\ ~(op.at = "append" /\ op.id = i)
          \/ i \in hidden' \/ (op'.at = "append" /\ op'.id = i)
  BY <1>2
<1> QED BY <1>3, <1>4, <1>5, <1>6, <1>7, <1>8, ListStep

LEMMA CreateQuoteKeeps ==
    ASSUME WalletInv, CreateQuote
    PROVE  WalletInv'
<1>1. /\ op.kind = "topup" /\ op.at = "act" /\ Moved(op.id, "unpaid") /\ Goto("append")
      /\ UNCHANGED <<kind, saga, proofs, late, status, active, hidden, faults>>
  BY DEF CreateQuote, At
<1>2. op.kind \in Movements /\ op.id \in Ids /\ state[op.id] = "none"
  BY <1>1 DEF WalletInv, OpOK, Movements
<1>3. op' \in OpType /\ op'.kind = op.kind /\ op'.id = op.id /\ op'.at = "append"
  BY <1>1, GotoFields DEF Steps
<1>4. /\ quotes' \in [Ids -> QuoteStates]
      /\ \A i \in Ids : quotes'[i] = quotes[i] \/ quotes'[i] \notin {"paid", "issued"}
  <2>1. quotes \in [Ids -> QuoteStates] /\ "unpaid" \in QuoteStates
    BY WalletTypes DEF QuoteStates
  <2> QED BY <1>2, <2>1 DEF CreateQuote
<1>5. "unpaid" \in States /\ "unpaid" \in StatesOf(op.kind) /\ "unpaid" \in Reached(op.kind)
  BY <1>1 DEF States, StatesOf, Reached
<1>6. proofs' \subseteq 1..active
  BY <1>1, WalletTypes
<1> QED BY <1>1, <1>2, <1>3, <1>4, <1>5, <1>6, MoneyMoves

LEMMA ReceiveTokenKeeps ==
    ASSUME WalletInv, ReceiveToken
    PROVE  WalletInv'
<1>1. /\ op.kind = "receive" /\ op.at = "act" /\ Moved(op.id, "done") /\ Goto("append")
      /\ UNCHANGED <<kind, saga, quotes, late, status, active, hidden, faults>>
  BY DEF ReceiveToken, At
<1>2. op.kind \in Movements /\ state[op.id] = "none"
  BY <1>1 DEF WalletInv, OpOK, Movements
<1>3. op' \in OpType /\ op'.kind = op.kind /\ op'.id = op.id /\ op'.at = "append"
  BY <1>1, GotoFields DEF Steps
<1>4. "done" \in States /\ "done" \in StatesOf(op.kind) /\ "done" \in Reached(op.kind)
  BY <1>1 DEF States, StatesOf, Reached
<1>5. proofs' \subseteq 1..active
  BY WalletTypes DEF ReceiveToken
<1>6. quotes' \in [Ids -> QuoteStates]
  BY <1>1, WalletTypes
<1> QED BY <1>1, <1>2, <1>3, <1>4, <1>5, <1>6, MoneyMoves

LEMMA ImportProofsKeeps ==
    ASSUME WalletInv, NEW k \in 1..active, ImportProofs(k)
    PROVE  WalletInv'
<1>1. /\ op.kind = "collect" /\ op.at = "act"
      /\ UNCHANGED <<kind, saga, quotes, late, status, active, hidden, faults>>
  BY DEF ImportProofs, At
<1>2. CASE state[op.id] = "done"
  <2>1. op' = Idle /\ UNCHANGED <<state, proofs>>
    BY <1>2 DEF ImportProofs
  <2>2. OpOK' /\ op' \in OpType
    BY <2>1, EndOp
  <2>3. WalletTypeOK'
    BY <1>1, <2>1, <2>2, WalletTypes DEF WalletTypeOK
  <2> QED BY <1>1, <2>1, <2>2, <2>3, ControlStep
<1>3. CASE state[op.id] # "done"
  <2>1. Moved(op.id, "done") /\ proofs' = proofs \cup {k} /\ Goto("append")
    BY <1>3 DEF ImportProofs
  <2>2. op.kind \in Movements /\ state[op.id] = "none"
    BY <1>1, <1>3 DEF WalletInv, OpOK, Movements
  <2>3. op' \in OpType /\ op'.kind = op.kind /\ op'.id = op.id /\ op'.at = "append"
    BY <2>1, GotoFields DEF Steps
  <2>4. "done" \in States /\ "done" \in StatesOf(op.kind) /\ "done" \in Reached(op.kind)
    BY <1>1 DEF States, StatesOf, Reached
  <2>5. proofs' \subseteq 1..active
    BY <2>1, WalletTypes
  <2>6. quotes' \in [Ids -> QuoteStates]
    BY <1>1, WalletTypes
  <2> QED BY <1>1, <2>1, <2>2, <2>3, <2>4, <2>5, <2>6, MoneyMoves
<1> QED BY <1>2, <1>3

LEMMA PayLightningKeeps ==
    ASSUME WalletInv, NEW answer \in {"paid", "no preimage", "unknown"}, PayLightning(answer)
    PROVE  WalletInv'
<1>1. /\ op.kind = "lightning" /\ op.at = "act"
      /\ UNCHANGED <<kind, saga, quotes, proofs, late, status, active, faults>>
  BY DEF PayLightning, At
<1>2. op.kind \in Movements /\ state[op.id] = "none"
  BY <1>1 DEF WalletInv, OpOK, Movements
<1>3. \/ Moved(op.id, "paid") /\ Goto("append") /\ UNCHANGED hidden
      \/ \E t \in {"paid", "inflight"} :
            Moved(op.id, t) /\ op' = Idle /\ hidden' = hidden \cup {op.id}
  BY DEF PayLightning
<1>4. /\ "paid" \in Reached(op.kind)
      /\ \A t \in {"paid", "inflight"} : t \in States /\ t \in StatesOf(op.kind)
  BY <1>1 DEF States, StatesOf, Reached
<1>5. proofs' \subseteq 1..active /\ quotes' \in [Ids -> QuoteStates]
  BY <1>1, WalletTypes
<1>6. CASE Moved(op.id, "paid") /\ Goto("append") /\ UNCHANGED hidden
  <2>1. op' \in OpType /\ op'.kind = op.kind /\ op'.id = op.id /\ op'.at = "append"
    BY <1>6, GotoFields DEF Steps
  <2> QED BY <1>1, <1>2, <1>4, <1>5, <1>6, <2>1, MoneyMoves
<1>7. ASSUME NEW t \in {"paid", "inflight"}, Moved(op.id, t), op' = Idle,
             hidden' = hidden \cup {op.id}
      PROVE  WalletInv'
  <2>1. op' \in OpType
    BY <1>7, EndOp
  <2> QED BY <1>1, <1>2, <1>4, <1>5, <1>7, <2>1, MoneyMoves
<1> QED BY <1>3, <1>6, <1>7

LEMMA RevokeSendKeeps ==
    ASSUME WalletInv, RevokeSend
    PROVE  WalletInv'
<1>1. /\ op.kind = "revoke" /\ op.at = "act" /\ state[op.id] = "out" /\ Goto("mark")
      /\ Moved(op.id, "reclaimed") /\ saga' = saga \ {op.id}
      /\ UNCHANGED <<kind, quotes, late, status, active, hidden, faults>>
  BY DEF RevokeSend, At
<1>2. op.id \in Ids /\ kind[op.id] = "send"
  BY <1>1 DEF WalletInv, OpOK
<1>3. op' \in OpType /\ op'.kind = op.kind /\ op'.id = op.id /\ op'.at = "mark"
  BY <1>1, GotoFields DEF Steps
<1>4. /\ state' \in [Ids -> States] /\ state'[op.id] = "reclaimed"
      /\ \A i \in Ids : i # op.id => state'[i] = state[i]
  <2>1. state \in [Ids -> States] /\ "reclaimed" \in States
    BY WalletTypes DEF States
  <2> QED BY <1>1, <1>2, <2>1 DEF Moved
<1>5. proofs' \subseteq 1..active
  BY WalletTypes DEF RevokeSend
<1>6. WalletTypeOK'
  BY <1>1, <1>3, <1>4, <1>5, WalletTypes DEF WalletTypeOK
<1>7. OpOK'
  BY <1>1, <1>2, <1>3, <1>4 DEF OpOK, Movements
<1>8. \A i \in Ids : state'[i] = state[i] \/ Progress(kind[i], state[i], state'[i])
  BY <1>1, <1>2, <1>4 DEF Progress
<1>9. \A i \in Ids : state'[i] = "out" => i \in saga'
  BY <1>1, <1>4 DEF WalletInv, MovesOK
<1>10. \A i \in Ids : quotes'[i] \in {"paid", "issued"} =>
           kind'[i] = "topup" /\ state'[i] \in {"paid", "issued"}
  BY <1>1, <1>2, <1>4 DEF WalletInv, MovesOK
<1>11. \A i \in Ids : state'[i] # "none" =>
           state[i] # "none" /\ ~(op.at = "append" /\ op.id = i)
  BY <1>1, <1>4
<1> QED BY <1>1, <1>6, <1>7, <1>8, <1>9, <1>10, <1>11, ListStep

LEMMA RefusedKeeps ==
    ASSUME WalletInv, Refused
    PROVE  WalletInv'
BY AbandonKeeps DEF Refused

-----------------------------------------------------------------------------
(* Sending.                                                                 *)

LEMMA CheckKeysetKeeps ==
    ASSUME WalletInv, CheckKeyset
    PROVE  WalletInv'
<1>1. op.at = "keyset" /\
      UNCHANGED <<state, saga, quotes, proofs, late, status, active, hidden, faults>>
  BY DEF CheckKeyset, At
<1>2. CASE Abandon
  BY <1>1, <1>2, AbandonKeeps
<1>3. ASSUME NEW at \in {"consolidate", "prepare"}, Goto(at), UNCHANGED kind
      PROVE  WalletInv'
  <2>1. at \in Steps \ {"append", "mark", "confirm"}
    BY DEF Steps
  <2>2. proofs' \subseteq 1..active
    BY <1>1, WalletTypes
  <2> QED BY <1>1, <1>3, <2>1, <2>2, GoOnKeeps
<1> QED BY <1>2, <1>3 DEF CheckKeyset

LEMMA ConsolidateKeeps ==
    ASSUME WalletInv, Consolidate
    PROVE  WalletInv'
<1>1. "prepare" \in Steps \ {"append", "mark", "confirm"}
  BY DEF Steps
<1>2. proofs' \subseteq 1..active
  BY WalletTypes DEF Consolidate
<1> QED BY <1>1, <1>2, GoOnKeeps DEF Consolidate, At

LEMMA PrepareSendKeeps ==
    ASSUME WalletInv, NEW sel \in SUBSET proofs, PrepareSend(sel)
    PROVE  WalletInv'
<1>1. /\ op.kind = "send" /\ op.at = "prepare" /\ sel # {}
      /\ UNCHANGED <<state, saga, quotes, proofs, late, status, active, hidden, faults>>
  BY DEF PrepareSend, At
<1>2. CASE Abandon
  BY <1>1, <1>2, AbandonKeeps
<1>3. CASE /\ ~(op.req # 0 /\ Foreign(sel, op.req))
           /\ op' = Op("send", op.id, "confirm", op.req, sel) /\ UNCHANGED kind
  <2>1. /\ op' \in OpType /\ op'.kind = "send" /\ op'.id = op.id /\ op'.at = "confirm"
        /\ op'.req = op.req /\ op'.sel = sel
    <3>1. op \in OpType /\ sel \in SUBSET (1..MaxKeyset)
      BY WalletTypes
    <3> QED BY <1>3, <3>1 DEF Op, OpType, Movements, Steps
  <2>2. op.req # 0 => KeysetKept'
    <3>1. op.req # 0 => sel = {op.req} /\ op.req \in 1..active
      BY <1>1, <1>3, WalletTypes DEF Foreign
    <3> QED BY <1>1, <2>1, <3>1, WalletTypes DEF KeysetKept
  <2>3. WalletTypeOK'
    BY <1>1, <1>3, <2>1, WalletTypes DEF WalletTypeOK
  <2>4. OpOK'
    BY <1>1, <1>3, <2>1, <2>2 DEF WalletInv, OpOK, Movements
  <2> QED BY <1>1, <1>3, <2>3, <2>4, ControlStep
<1> QED BY <1>2, <1>3 DEF PrepareSend

LEMMA ConfirmSendKeeps ==
    ASSUME WalletInv, NEW token \in SUBSET (1..active), NEW left \in SUBSET proofs,
           ConfirmSend(token, left)
    PROVE  WalletInv'
<1>1. /\ op.kind = "send" /\ op.at = "confirm" /\ Moved(op.id, "out")
      /\ saga' = saga \cup {op.id} /\ proofs' = left
      /\ token # {} /\ token \subseteq op.sel \cup {active}
      /\ op' = Op("send", op.id, "append", op.req, token)
      /\ UNCHANGED <<kind, quotes, late, status, active, hidden, faults>>
  BY DEF ConfirmSend, At
<1>2. op.kind \in Movements /\ state[op.id] = "none"
  BY <1>1 DEF WalletInv, OpOK, Movements
<1>3. op.req # 0 => token \subseteq op.req..active
  <2>1. op.req # 0 => op.sel # {} /\ op.sel \subseteq op.req..active
    BY <1>1 DEF WalletInv, OpOK, KeysetKept
  <2>2. op.req \in Nat /\ active \in Nat
    BY WalletTypes DEF OpType
  <2>3. op.req # 0 => active \in op.req..active
    BY <2>1, <2>2
  <2> QED BY <1>1, <2>1, <2>3
<1>4. /\ op' \in OpType /\ op'.kind = "send" /\ op'.id = op.id /\ op'.at = "append"
      /\ op'.req = op.req /\ op'.sel = token
  <2>1. op \in OpType /\ token \in SUBSET (1..MaxKeyset)
    BY WalletTypes
  <2> QED BY <1>1, <2>1 DEF Op, OpType, Movements, Steps
<1>5. "out" \in States /\ "out" \in StatesOf(op.kind) /\ "out" \in Reached(op.kind)
  BY <1>1 DEF States, StatesOf, Reached
<1>6. proofs' \subseteq 1..active /\ quotes' \in [Ids -> QuoteStates]
  BY <1>1, WalletTypes
<1>7. op'.req # 0 => KeysetKept'
  BY <1>1, <1>3, <1>4 DEF KeysetKept
<1> QED BY <1>1, <1>2, <1>4, <1>5, <1>6, <1>7, MoneyMoves

-----------------------------------------------------------------------------
(* The list is written.                                                     *)

\* One entry more: the list stays within its limit, and it is full once it
\* has dropped one.
LEMMA AppendList ==
    ASSUME WalletInv, NEW id \in Ids \ Listed, NEW v \in Statuses \ {"absent"},
           status' \in Truncated([status EXCEPT ![id] = v])
    PROVE  /\ status' \in [Ids -> Statuses]
           /\ \A i \in Listed' : status'[i] = IF i = id THEN v ELSE status[i]
           /\ Listed' \subseteq Listed \cup {id}
           /\ IsFiniteSet(Listed') /\ Cardinality(Listed') <= MaxEntries
           /\ \/ Listed' = Listed \cup {id} /\ Cardinality(Listed) # MaxEntries
              \/ Cardinality(Listed') = MaxEntries
<1> DEFINE e == [status EXCEPT ![id] = v]
           S == Listed \cup {id}
<1>1. status \in [Ids -> Statuses] /\ MaxEntries \in Nat
  BY WalletTypes
<1>2. /\ e \in [Ids -> Statuses] /\ e[id] = v
      /\ \A i \in Ids : i # id => e[i] = status[i]
  BY <1>1
<1>3. {i \in Ids : e[i] # "absent"} = S
  BY <1>2 DEF Listed
<1>4. /\ IsFiniteSet(Listed) /\ Cardinality(Listed) \in Nat
      /\ Cardinality(Listed) <= MaxEntries
  BY FS_CardinalityType DEF WalletInv, Room
<1>5. IsFiniteSet(S) /\ Cardinality(S) = Cardinality(Listed) + 1
  BY <1>4, FS_AddElement
<1> HIDE DEF e
<1>6. PICK K \in IF Cardinality(S) <= MaxEntries THEN {S} ELSE {S \ {i} : i \in S} :
         status' = [i \in Ids |-> IF i \in K THEN e[i] ELSE "absent"]
  BY <1>3 DEF Truncated, TruncatedTo, e
<1>7. K \subseteq S /\ S \subseteq Ids
  BY <1>6 DEF Listed
<1>8. \A i \in S : e[i] # "absent"
  BY <1>3
<1>9. Listed' = K
  BY <1>6, <1>7, <1>8 DEF Listed
<1>10. status' \in [Ids -> Statuses]
  BY <1>2, <1>6 DEF Statuses
<1>11. \A i \in Listed' : status'[i] = IF i = id THEN v ELSE status[i]
  BY <1>2, <1>6, <1>7, <1>9
<1>12. CASE Cardinality(S) <= MaxEntries
  <2>1. K = S
    BY <1>6, <1>12
  <2>2. Cardinality(Listed) # MaxEntries
    BY <1>1, <1>4, <1>5, <1>12
  <2> QED BY <1>5, <1>9, <1>10, <1>11, <1>12, <2>1, <2>2
<1>13. CASE ~(Cardinality(S) <= MaxEntries)
  <2>1. PICK x \in S : K = S \ {x}
    BY <1>6, <1>13
  <2>2. IsFiniteSet(K) /\ Cardinality(K) = Cardinality(S) - 1
    BY <1>5, <2>1, FS_RemoveElement
  <2>3. Cardinality(K) = MaxEntries
    BY <1>1, <1>4, <1>5, <1>13, <2>2
  <2> QED BY <1>1, <1>7, <1>9, <1>10, <1>11, <2>2, <2>3
<1> QED BY <1>12, <1>13

LEMMA AppendKeeps ==
    ASSUME WalletInv, Append
    PROVE  WalletInv'
<1>1. /\ op.kind \in Movements /\ op.at = "append" /\ op' = Idle
      /\ UNCHANGED <<kind, state, saga, quotes, proofs, late, active, hidden, faults>>
  BY DEF Append, At, mintVars
<1>2. PICK v \in Statuses \ {"absent"} :
         /\ v = IF op.kind \in {"topup", "send"} THEN "Pending" ELSE "Complete"
         /\ status' \in Truncated([status EXCEPT ![op.id] = v])
  BY DEF Append, Statuses
<1>3. /\ op.id \in Ids \ Listed /\ kind[op.id] = op.kind
      /\ state[op.id] \in Reached(op.kind)
  BY <1>1 DEF WalletInv, OpOK
<1>4. /\ status' \in [Ids -> Statuses]
      /\ \A i \in Listed' : status'[i] = IF i = op.id THEN v ELSE status[i]
      /\ Listed' \subseteq Listed \cup {op.id}
      /\ IsFiniteSet(Listed') /\ Cardinality(Listed') <= MaxEntries
      /\ \/ Listed' = Listed \cup {op.id} /\ Cardinality(Listed) # MaxEntries
         \/ Cardinality(Listed') = MaxEntries
  BY <1>2, <1>3, AppendList
<1>5. OpOK' /\ op' \in OpType
  BY <1>1, EndOp
<1>6. WalletTypeOK'
  BY <1>1, <1>4, <1>5, WalletTypes DEF WalletTypeOK
<1>7. Room'
  BY <1>4 DEF Room
<1>8. Covered'
  BY <1>1, <1>4 DEF WalletInv, Covered
<1>9. MovesOK'
  <2>1. state[op.id] # "none"
    BY <1>3 DEF Reached
  <2> QED BY <1>1, <1>4, <2>1 DEF WalletInv, MovesOK
<1>10. ActivityTruth'
  <2> SUFFICES ASSUME NEW i \in Listed'
               PROVE  /\ kind[i] = "send" =>
                           /\ state[i] = "out" => status'[i] = "Pending"
                           /\ status'[i] = "Reclaimed" => state[i] = "reclaimed"
                      /\ kind[i] = "topup" /\ status'[i] = "Complete" =>
                           state[i] \in {"paid", "issued"}
                      /\ kind[i] \in {"lightning", "receive", "collect"} =>
                           state[i] \in {"paid", "done"}
    BY <1>1 DEF ActivityTruth
  <2>1. CASE i = op.id
    BY <1>2, <1>3, <1>4, <2>1 DEF Reached
  <2>2. CASE i # op.id
    BY <1>4, <2>2 DEF WalletInv, ActivityTruth
  <2> QED BY <2>1, <2>2
<1> QED BY <1>5, <1>6, <1>7, <1>8, <1>9, <1>10 DEF WalletInv

\* A step that rewrites entries and adds or drops none.
LEMMA RewriteStep ==
    ASSUME WalletInv, status' \in [Ids -> Statuses], Listed' = Listed, ActivityTruth',
           UNCHANGED <<kind, state, saga, quotes, proofs, late, active, hidden, faults>>,
           op' = Idle, op.at # "append"
    PROVE  WalletInv'
<1>1. OpOK' /\ op' \in OpType
  BY EndOp
<1>2. WalletTypeOK'
  BY <1>1, WalletTypes DEF WalletTypeOK
<1>3. Room' /\ Covered' /\ MovesOK'
  BY DEF WalletInv, Room, Covered, MovesOK
<1> QED BY <1>1, <1>2, <1>3 DEF WalletInv

LEMMA MarkReclaimedKeeps ==
    ASSUME WalletInv, MarkReclaimed
    PROVE  WalletInv'
<1>1. /\ op.kind = "revoke" /\ op.at = "mark" /\ op' = Idle
      /\ UNCHANGED <<kind, state, saga, quotes, proofs, late, active, hidden, faults>>
  BY DEF MarkReclaimed, At, mintVars
<1>2. state[op.id] = "reclaimed" /\ kind[op.id] = "send" /\ op.id \in Ids
  BY <1>1 DEF WalletInv, OpOK
<1>3. status \in [Ids -> Statuses] /\ "Reclaimed" \in Statuses
  BY WalletTypes DEF Statuses
<1>4. /\ status' \in [Ids -> Statuses]
      /\ \A i \in Ids : i # op.id => status'[i] = status[i]
      /\ op.id \in Listed => status'[op.id] = "Reclaimed"
      /\ op.id \notin Listed => status' = status
  BY <1>2, <1>3 DEF MarkReclaimed
<1>5. Listed' = Listed
  BY <1>2, <1>4 DEF Listed
<1>6. ActivityTruth'
  <2> SUFFICES ASSUME NEW i \in Listed
               PROVE  /\ kind[i] = "send" =>
                           /\ state[i] = "out" => status'[i] = "Pending"
                           /\ status'[i] = "Reclaimed" => state[i] = "reclaimed"
                      /\ kind[i] = "topup" /\ status'[i] = "Complete" =>
                           state[i] \in {"paid", "issued"}
                      /\ kind[i] \in {"lightning", "receive", "collect"} =>
                           state[i] \in {"paid", "done"}
    BY <1>1, <1>5 DEF ActivityTruth
  <2>1. CASE i = op.id
    BY <1>2, <2>1
  <2>2. CASE i # op.id
    BY <1>4, <2>2 DEF WalletInv, ActivityTruth, Listed
  <2> QED BY <2>1, <2>2
<1> QED BY <1>1, <1>4, <1>5, <1>6, RewriteStep

LEMMA LoadActivityKeeps ==
    ASSUME WalletInv, LoadActivity
    PROVE  WalletInv'
<1>1. /\ op' = Idle /\ op.at = "end" /\ status' = [i \in Ids |-> Shown(i)]
      /\ UNCHANGED <<kind, state, saga, quotes, proofs, late, active, hidden, faults>>
  BY IdleFacts DEF LoadActivity, mintVars
<1>2. status \in [Ids -> Statuses]
  BY WalletTypes
<1>3. \A i \in Ids : Shown(i) \in Statuses /\ (Shown(i) = "absent" <=> status[i] = "absent")
  BY <1>2 DEF Shown, Statuses
<1>4. status' \in [Ids -> Statuses] /\ Listed' = Listed
  BY <1>1, <1>3 DEF Listed
<1>5. ActivityTruth'
  <2> SUFFICES ASSUME NEW i \in Listed
               PROVE  /\ kind[i] = "send" =>
                           /\ state[i] = "out" => Shown(i) = "Pending"
                           /\ Shown(i) = "Reclaimed" => state[i] = "reclaimed"
                      /\ kind[i] = "topup" /\ Shown(i) = "Complete" =>
                           state[i] \in {"paid", "issued"}
                      /\ kind[i] \in {"lightning", "receive", "collect"} =>
                           state[i] \in {"paid", "done"}
    BY <1>1, <1>4 DEF ActivityTruth, Listed
  <2>1. /\ i \in Ids /\ status[i] # "absent"
        /\ state[i] = "out" => i \in saga
        /\ quotes[i] \in {"paid", "issued"} => state[i] \in {"paid", "issued"}
    BY DEF WalletInv, MovesOK, Listed
  <2>2. /\ kind[i] = "send" =>
             /\ state[i] = "out" => status[i] = "Pending"
             /\ status[i] = "Reclaimed" => state[i] = "reclaimed"
        /\ kind[i] = "topup" /\ status[i] = "Complete" => state[i] \in {"paid", "issued"}
        /\ kind[i] \in {"lightning", "receive", "collect"} => state[i] \in {"paid", "done"}
    BY DEF WalletInv, ActivityTruth
  <2> QED BY <2>1, <2>2 DEF Shown, Settled
<1> QED BY <1>1, <1>4, <1>5, RewriteStep

-----------------------------------------------------------------------------
(* The invariant.                                                           *)

LEMMA WalletInvInit == Init => WalletInv
<1> SUFFICES ASSUME Init PROVE WalletInv
  OBVIOUS
<1>1. Listed = {} /\ \A i \in Ids : state[i] = "none" /\ quotes[i] = "none"
  BY DEF Init, Listed
<1>2. op = Idle /\ op \in OpType /\ op.kind = "idle" /\ op.at = "end"
  BY IdleFacts DEF Init
<1>3. active \in 1..MaxKeyset /\ proofs \subseteq 1..active /\ faults \in 0..MaxFaults
  BY WalletAssumption DEF Init
<1>4. WalletTypeOK
  BY <1>2, <1>3 DEF WalletTypeOK, Init, Kinds, States, QuoteStates, Statuses
<1>5. MovesOK
  BY <1>1 DEF MovesOK, StatesOf
<1>6. OpOK
  BY <1>2 DEF OpOK, Movements
<1>7. Room
  BY <1>1, FS_EmptySet, WalletAssumption DEF Room
<1>8. Covered /\ ActivityTruth
  BY <1>1 DEF Covered, ActivityTruth
<1> QED BY <1>4, <1>5, <1>6, <1>7, <1>8 DEF WalletInv

LEMMA WalletInvStep == WalletInv /\ [Next]_vars => WalletInv'
<1> SUFFICES ASSUME WalletInv, [Next]_vars PROVE WalletInv'
  OBVIOUS
<1>1. CASE World
  BY <1>1, WorldKeeps
<1>2. CASE BeginAny
  <2>1. /\ 0 \in 0..MaxKeyset /\ KeysetChoices \subseteq 0..MaxKeyset
    BY WalletTypes DEF KeysetChoices
  <2>2. ASSUME NEW k \in {"startup", "overview"}, Begin(k, NoId, 0)
        PROVE  WalletInv'
    BY <2>1, <2>2, BeginKeeps DEF Movements
  <2>3. ASSUME NEW k \in (Movements \cup {"revoke"}) \ {"send"}, NEW id \in Ids,
               Begin(k, id, 0)
        PROVE  WalletInv'
    BY <2>1, <2>3, BeginKeeps
  <2>4. ASSUME NEW id \in Ids, NEW req \in KeysetChoices, Begin("send", id, req)
        PROVE  WalletInv'
    BY <2>1, <2>4, BeginKeeps DEF Movements
  <2> QED BY <1>2, <2>2, <2>3, <2>4 DEF BeginAny
<1>3. CASE OpStep
  <2>1. ASSUME NEW done \in BOOLEAN, FinalizeMelts(done) \/ RecoverSagas(done)
        PROVE  WalletInv'
    BY <2>1, FinalizeMeltsKeeps, RecoverSagasKeeps
  <2>2. ASSUME RefreshQuotes \/ RefreshFails
        PROVE  WalletInv'
    BY <2>2, IssueQuotesKeeps DEF RefreshQuotes, RefreshFails
  <2>3. ASSUME NEW token \in SUBSET (1..active), NEW left \in SUBSET proofs,
               ConfirmSend(token, left)
        PROVE  WalletInv'
    BY <2>3, ConfirmSendKeeps
  <2> QED BY <1>3, <2>1, <2>2, <2>3, CreateQuoteKeeps, ReceiveTokenKeeps,
             ImportProofsKeeps, PayLightningKeeps, RevokeSendKeeps, MarkReclaimedKeeps,
             RefusedKeeps, CheckKeysetKeeps, ConsolidateKeeps, PrepareSendKeeps, AppendKeeps
          DEF OpStep
<1>4. CASE Crash
  BY <1>4, CrashKeeps
<1>5. CASE LoadActivity
  BY <1>5, LoadActivityKeeps
<1>6. CASE UNCHANGED vars
  BY <1>6 DEF vars, mintVars, WalletInv, WalletTypeOK, MovesOK, OpOK, KeysetKept, Room, Covered,
              ActivityTruth, Listed
<1> QED BY <1>1, <1>2, <1>3, <1>4, <1>5, <1>6 DEF Next

LEMMA WalletInvariant == Spec => []WalletInv
BY WalletInvInit, WalletInvStep, PTL DEF Spec

\* Every entry of the activity list agrees with what happened to its movement
\* (load_wallet_activity, mark_wallet_activity_reclaimed), whatever fails and
\* whatever the mint, the payers and the payees do between two steps.
THEOREM ActivityIsTrue == Spec => []ActivityTruth
<1>1. WalletInv => ActivityTruth
  BY DEF WalletInv
<1> QED BY <1>1, WalletInvariant, PTL

\* A movement of money that no fault hid is in the list, or the list is full
\* (append_wallet_activity_entry, sort_wallet_activity_entries).
THEOREM ActivityIsComplete == Spec => []ActivityComplete
<1>1. WalletInv => ActivityComplete
  BY DEF WalletInv, Covered, ActivityComplete
<1> QED BY <1>1, WalletInvariant, PTL

\* The token of send_payment_token_for_keyset has no proof older than that
\* keyset, and one of a newer keyset only after the mint rotated past it.
THEOREM TokenHasKeyset == Spec => []RequiredKeyset
<1>1. WalletInv => RequiredKeyset
  BY DEF WalletInv, OpOK, KeysetKept, RequiredKeyset, At
<1> QED BY <1>1, WalletInvariant, PTL

=============================================================================
