------------------------ MODULE MCCrossMintTransfer ------------------------
(***************************************************************************)
(* Small instances of CrossMintTransfer.  "t" is authorized until time 1;  *)
(* another authorization reuses its id with another maximum fee; the other *)
(* authorizations must be refused by the adapter.                          *)
(***************************************************************************)
EXTENDS CrossMintTransfer

MCRoute == [issuer |-> "alice", source |-> "mintA"]

Authorization(id, max_fee, reserved) ==
    [settlement_id |-> id, issuer |-> "alice", counterparty |-> "bob",
     payout_destination |-> "mintB", amount |-> 2, max_fee |-> max_fee,
     reserved |-> reserved, authorized_at |-> 0, expires_at |-> 1]

MCAuthorizations ==
    {Authorization("t", 1, 3), Authorization("t", 2, 4), Authorization("t", 1, 4),
     [Authorization("t", 1, 3) EXCEPT !.payout_destination = "mintA"],
     [Authorization("t", 1, 3) EXCEPT !.issuer = "mallory"]}

OneAuthorization == {Authorization("t", 1, 3)}

=============================================================================
