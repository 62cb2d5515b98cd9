--------------------------- MODULE EmissionPromise ---------------------------
(***************************************************************************)
(* What an admin promises farmers when they open harvest periods, with no  *)
(* periods and no array: a rate for every slot, paid for in advance.  What *)
(* has been released is never revised, and what is being released now is   *)
(* not taken back.  Emission implements this specification.                *)
(***************************************************************************)
EXTENDS Integers, Functions

CONSTANT Horizon  \* the slots for which a rate may be announced are 1 .. Horizon

VARIABLES
  now,   \* the current slot
  rate,  \* rate[s]: tokens released to all farmers together at slot s
  fund   \* tokens the admin has paid in and not taken back

vars == <<now, rate, fund>>

Total(r) == SumFunction(r)

Init == now = 1 /\ rate = [s \in 1 .. Horizon |-> 0] /\ fund = 0

Announce ==
  /\ rate' \in [1 .. Horizon -> Nat]
  /\ \A s \in 1 .. now - 1 : rate'[s] = rate[s]
  /\ rate[now] # 0 => rate'[now] = rate[now]
  /\ fund' = Total(rate')
  /\ UNCHANGED now

Elapse == now' = now + 1 /\ UNCHANGED <<rate, fund>>

Next == Announce \/ Elapse

Spec == Init /\ [][Next]_vars
=============================================================================
