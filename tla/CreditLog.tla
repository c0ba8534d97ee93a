----------------------------- MODULE CreditLog -----------------------------
(***************************************************************************)
(* What the account store promises its callers: every account is a log of  *)
(* applied operations that only grows, and a backing deposit belongs to    *)
(* the log of one account for ever.  CreditStore implements it with a      *)
(* revision compare-and-swap and a table of claims.                        *)
(***************************************************************************)
EXTENDS Integers, Sequences

CONSTANTS AccountIds, Ops, DepositKeys, DepositOf, None

VARIABLE log    \* the log of each account, None before it is created

Backing(s) == {DepositOf[s[n]] : n \in 1..Len(s)} \ {None}

\* Every operation of s is still in t, at its place.
Extends(t, s) == Len(s) <= Len(t) /\ \A n \in 1..Len(s) : t[n] = s[n]

\* No other account holds a deposit of the log s.
Unshared(id, s) ==
    \A other \in AccountIds \ {id} :
        log[other] # None => Backing(log[other]) \cap Backing(s) = {}

Init == log = [id \in AccountIds |-> None]

\* The account is created or its log extended; the others stay.
Write(id) ==
    /\ log'[id] \in Seq(Ops)
    /\ log[id] # None => Extends(log'[id], log[id])
    /\ Unshared(id, log'[id])
    /\ log' = [log EXCEPT ![id] = log'[id]]

Next == \E id \in AccountIds : Write(id)

Spec == Init /\ [][Next]_log
=============================================================================
