----------------------------- MODULE MCAccrual -----------------------------
(***************************************************************************)
(* The accrual algorithm against its definition over every history that    *)
(* a farm can build: snapshots of every amount are taken, periods    *)
(* open, are scheduled and edited, and time passes.                        *)
(***************************************************************************)
EXTENDS Accrual

\* Bounds.
CONSTANTS
  Amounts,  \* what a snapshot may record
  Stakes,   \* what a farmer may have staked
  Rates, Delays, Lengths,  \* of a period: its tps, when it starts, how long it is
  MaxSlot

ASSUME BoundsAssumption ==
  /\ Amounts \cup Stakes \cup Rates \cup Lengths \cup {MaxSlot} \subseteq Nat
  /\ Delays \subseteq Nat

VARIABLES slot, buffer, periods

vars == <<slot, buffer, periods>>

Init == slot = 1 /\ buffer = EmptyBuffer /\ periods = NoPeriods

Snap(a) ==
  /\ SufficientTimePassed(buffer, 1, slot)
  /\ buffer' = Push(buffer, a, slot)
  /\ UNCHANGED <<slot, periods>>

Open(p) ==
  /\ AcceptsPeriod(periods, slot, p, Oldest(buffer).startedAt)
  /\ periods' = SetPeriod(periods, slot, p)
  /\ UNCHANGED <<slot, buffer>>

Tick == slot < MaxSlot /\ slot' = slot + 1 /\ UNCHANGED <<buffer, periods>>

Next ==
  \/ \E a \in Amounts : Snap(a)
  \/ \E d \in Delays, n \in Lengths, tps \in Rates :
       Open([tps |-> tps, startsAt |-> slot + d, endsAt |-> slot + d + n - 1])
  \/ Tick

Spec == Init /\ [][Next]_vars

\* The nested loops of eligible_harvest_until, with their two cursors into the
\* history of rates, pay each window's share of what was released in it, no
\* slot twice and none missed, and never underflow: for every stake and every
\* interval in which a farmer can ask.
AccrualIsExact ==
  \A since \in 1 .. slot, until \in 1 .. slot, staked \in Stakes :
    since <= until =>
      LET e == EligibleHarvest(buffer, periods, since, until, staked)
      IN  e.ok /\ e.tokens = Owed(buffer, periods, since, until, staked)

\* Updating often is neither a gain nor, rounding aside, a loss: an interval
\* harvested in two parts pays at most one token less than at once, since only
\* one window is cut.
SplitLosesOnlyRounding ==
  \A mid \in 1 .. slot - 1, staked \in Stakes :
    LET whole == EligibleHarvest(buffer, periods, 1, slot, staked).tokens
        parts == EligibleHarvest(buffer, periods, 1, mid, staked).tokens
                   + EligibleHarvest(buffer, periods, mid + 1, slot, staked).tokens
    IN  parts <= whole /\ whole <= parts + 1
=============================================================================
