---------------------------- MODULE CreditStore ----------------------------
(***************************************************************************)
(* The SQLite store of credit accounts (crates/cashu-service,              *)
(* credit_store.rs) and the workers that share it: each loads an account,  *)
(* applies operations to its own copy and saves the copy under the         *)
(* revision it loaded.                                                     *)
(*                                                                         *)
(* An account is the sequence of the operations applied to it, its         *)
(* revision the number of them (CreditAccount.tla: every mutation adds     *)
(* one).  A save or a create is a transaction of several statements; an    *)
(* Immediate transaction holds the write lock of the database from its     *)
(* first statement to its end, readers see the committed rows, and a       *)
(* transaction dropped by an error return or a crash is rolled back.       *)
(***************************************************************************)
EXTENDS Integers, Sequences

CONSTANTS
    Workers,      \* processes with a connection of their own
    AccountIds,
    Ops,          \* operations callers may apply to an account
    DepositKeys,  \* pairs of an issuer and a deposit id
    DepositOf,    \* the backing deposit an operation records, or None
    None,
    MaxRevision   \* bound on the operations of one account

VARIABLES
    stored,   \* credit_account_snapshots: committed row of each account
    claims,   \* credit_account_backing_claims
    txn,      \* the open write transaction, or None
    mem       \* the account each worker holds in memory, or None

vars == <<stored, claims, txn, mem>>

ASSUME DepositAssumption ==
    /\ DepositOf \in [Ops -> DepositKeys \cup {None}]
    /\ None \notin DepositKeys \cup AccountIds \cup Workers
    /\ MaxRevision \in Nat

Log == Seq(Ops)
Row == [revision : Nat, snapshot : Log]
Copy == [id : AccountIds, expected : Nat \cup {None}, log : Log]
Transaction == [worker : Workers, id : AccountIds, snapshot : Log,
                claims : [DepositKeys -> AccountIds \cup {None}]]

ASSUME NoneAssumption == None \notin Row \cup Copy \cup Transaction \cup Nat

\* CreditAccount::backing_deposits.
BackingDeposits(log) == {DepositOf[log[n]] : n \in 1..Len(log)} \ {None}

Applied(log) == {log[n] : n \in 1..Len(log)}

Init ==
    /\ stored = [id \in AccountIds |-> None]
    /\ claims = [k \in DepositKeys |-> None]
    /\ txn = None
    /\ mem = [w \in Workers |-> None]

-----------------------------------------------------------------------------
(* A worker and its copy.  "expected" is the revision it was loaded at, and *)
(* None for an account that is not stored yet.                              *)

\* The worker is not inside create or save, which borrow the store and the
\* copy until they return.
Idle(w) == txn # None => txn.worker # w

New(w, id) ==
    /\ Idle(w)
    /\ mem' = [mem EXCEPT ![w] = [id |-> id, expected |-> None, log |-> <<>>]]
    /\ UNCHANGED <<stored, claims, txn>>

Load(w, id) ==
    /\ Idle(w)
    /\ stored[id] # None
    /\ stored[id].revision = Len(stored[id].snapshot)   \* else SnapshotRevisionMismatch
    /\ mem' = [mem EXCEPT ![w] =
           [id |-> id, expected |-> stored[id].revision, log |-> stored[id].snapshot]]
    /\ UNCHANGED <<stored, claims, txn>>

\* A repeated operation is AlreadyApplied, one with another content and the
\* deposit key of a recorded one is refused; both leave the account alone.
Apply(w, op) ==
    /\ Idle(w)
    /\ mem[w] # None
    /\ Len(mem[w].log) < MaxRevision
    /\ op \notin Applied(mem[w].log)
    /\ DepositOf[op] \notin BackingDeposits(mem[w].log)
    /\ mem' = [mem EXCEPT ![w] =
           [id |-> mem[w].id, expected |-> mem[w].expected, log |-> Append(mem[w].log, op)]]
    /\ UNCHANGED <<stored, claims, txn>>

-----------------------------------------------------------------------------
(* create and save.                                                         *)

\* The revision column of the row (snapshot.revision()).
UnadvancedRevision(log) == Len(log) - 1
Revision(log) == Len(log)

Open(w) == [worker |-> w, id |-> mem[w].id, snapshot |-> mem[w].log, claims |-> claims]

\* INSERT OR IGNORE; an existing row is AlreadyExists.
Inserts(c) == stored[c.id] = None

\* UPDATE ... WHERE revision = expected; no such row is CasConflict or NotFound.
UncheckedUpdate(c) == stored[c.id] # None
Updates(c) == stored[c.id] # None /\ stored[c.id].revision = c.expected

Create(w) ==
    /\ txn = None /\ mem[w] # None /\ mem[w].expected = None
    /\ Inserts(mem[w])
    /\ txn' = Open(w)
    /\ UNCHANGED <<stored, claims, mem>>

Save(w) ==
    /\ txn = None /\ mem[w] # None /\ mem[w].expected # None
    /\ Len(mem[w].log) > mem[w].expected              \* else NonMonotonicRevision
    /\ Updates(mem[w])
    /\ txn' = Open(w)
    /\ UNCHANGED <<stored, claims, mem>>

\* bind_backing_deposits: one deposit of the account still to be claimed.
Unbound == {k \in BackingDeposits(txn.snapshot) : txn.claims[k] # txn.id}

StolenClaim(k) == TRUE
Claimable(k) == txn.claims[k] = None

BindBackingDeposit(w) ==
    /\ txn # None /\ txn.worker = w
    /\ \E k \in Unbound :
         /\ Claimable(k)
         /\ txn' = [worker |-> w, id |-> txn.id, snapshot |-> txn.snapshot,
                    claims |-> [txn.claims EXCEPT ![k] = txn.id]]
    /\ UNCHANGED <<stored, claims, mem>>

\* A deposit of another account: the statements so far are rolled back.
ClaimConflict(w) ==
    /\ txn # None /\ txn.worker = w
    /\ \E k \in Unbound : txn.claims[k] # None
    /\ txn' = None
    /\ UNCHANGED <<stored, claims, mem>>

EarlyCommit == TRUE
AllBound == Unbound = {}

\* The caller of a save that returned Ok holds the stored account.
Commit(w) ==
    /\ txn # None /\ txn.worker = w
    /\ AllBound
    /\ stored' = [stored EXCEPT ![txn.id] =
           [revision |-> Revision(txn.snapshot), snapshot |-> txn.snapshot]]
    /\ claims' = txn.claims
    /\ txn' = None
    /\ mem' = [mem EXCEPT ![w] =
           [id |-> txn.id, expected |-> Revision(txn.snapshot), log |-> txn.snapshot]]

\* A database error inside the transaction is returned to the caller, who
\* keeps the copy and its revision and may try again.
DatabaseError(w) ==
    /\ txn # None /\ txn.worker = w
    /\ txn' = None
    /\ UNCHANGED <<stored, claims, mem>>

\* The process dies, or drops its copy; only committed rows survive.
Crash(w) ==
    /\ mem[w] # None
    /\ mem' = [mem EXCEPT ![w] = None]
    /\ txn' = IF Idle(w) THEN txn ELSE None
    /\ UNCHANGED <<stored, claims>>

Next ==
    \E w \in Workers :
        \/ \E id \in AccountIds : New(w, id) \/ Load(w, id)
        \/ \E op \in Ops : Apply(w, op)
        \/ Create(w)
        \/ Save(w)
        \/ BindBackingDeposit(w)
        \/ ClaimConflict(w)
        \/ Commit(w)
        \/ DatabaseError(w)
        \/ Crash(w)

Spec == Init /\ [][Next]_vars

-----------------------------------------------------------------------------
(* Properties.                                                              *)

\* Rows, claims, the open transaction and the copies are well formed, and a
\* row's revision column is the revision of its snapshot.
StoreTypeOK ==
    /\ stored \in [AccountIds -> Row \cup {None}]
    /\ \A id \in AccountIds :
          stored[id] # None => stored[id].revision = Len(stored[id].snapshot)
    /\ claims \in [DepositKeys -> AccountIds \cup {None}]
    /\ txn \in Transaction \cup {None}
    /\ mem \in [Workers -> Copy \cup {None}]

\* The claims table holds exactly the deposits of the committed accounts: a
\* save that failed or crashed leaves no claim behind, one that committed has
\* claimed all, and so no deposit backs two accounts.
ClaimsExact ==
    \A k \in DepositKeys, id \in AccountIds :
        claims[k] = id <=>
            stored[id] # None /\ k \in BackingDeposits(stored[id].snapshot)

\* A revision identifies a history: a copy, however old and whatever was
\* applied to it since, agrees with the stored account on all operations up
\* to the revision it was loaded at, so a save that passes the comparison of
\* revisions overwrites nobody's operation.
RevisionIdentifiesHistory ==
    \A w \in Workers :
        mem[w] # None /\ mem[w].expected # None =>
            LET row == stored[mem[w].id] IN
            /\ row # None
            /\ mem[w].expected <= Len(row.snapshot)
            /\ mem[w].expected <= Len(mem[w].log)
            /\ \A n \in 1..mem[w].expected : mem[w].log[n] = row.snapshot[n]

\* The store implements the log of CreditLog: no committed operation is ever
\* lost and no deposit is shared, whatever the workers do.
Accounts ==
    [id \in AccountIds |-> IF stored[id] = None THEN None ELSE stored[id].snapshot]
Ideal == INSTANCE CreditLog WITH log <- Accounts
ImplementsCreditLog == Ideal!Spec
=============================================================================
