-------------------------------- MODULE MCAmm --------------------------------
(***************************************************************************)
(* Instances of Amm: two mints, two users.                                 *)
(***************************************************************************)
EXTENDS Amm, TLC

CONSTANTS A, B, u1, u2, owner

BothMints == {A, B}
OneUser   == {u1}
TwoUsers  == {u1, u2}

Nothing == {}

Amounts(a, b) == [m \in Mints |-> IF m = A THEN a ELSE b]
NoLp          == [h \in Holders |-> 0]

\* Nothing is deposited yet; both users can.
Fresh(a, b) ==
  [vault    |-> Amounts(0, 0),
   lpSupply |-> 0,
   lpWallet |-> NoLp,
   wallet   |-> [h \in Holders |-> IF h = u1 THEN Amounts(a, b)
                                   ELSE IF h = u2 THEN Amounts(2, 2) ELSE Amounts(0, 0)]]

\* Both users hold LP tokens of vaults that belong to no pool yet.
Existing(a, b) ==
  [vault    |-> Amounts(a, b),
   lpSupply |-> Cardinality(Users),
   lpWallet |-> [h \in Holders |-> IF h \in Users THEN 1 ELSE 0],
   wallet   |-> [h \in Holders |-> IF h = u1 THEN Amounts(a, b) ELSE Amounts(0, 0)]]

StartFresh    == {Fresh(7, 7)}
StartExisting == {Existing(2, 3)}
StartEither   == {Fresh(4, 3), Existing(2, 3)}

TwoDeposits     == {Amounts(3, 4), Amounts(2, 1)}
BalancedDeposit == {Amounts(7, 7)}
=============================================================================
