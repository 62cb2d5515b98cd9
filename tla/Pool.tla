-------------------------------- MODULE Pool --------------------------------
(***************************************************************************)
(* The Pool account (programs/amm/src/models/pool.rs) and what its methods *)
(* compute.  A method that may fail is the set of its results.             *)
(***************************************************************************)
EXTENDS StableCurve

CONSTANTS
  InvertAbove,   \* a reserve above it inverts the deposit ratio; 10^10 in the code
  MaxTokens      \* TokenAmount::max_value()

ASSUME InvertAboveAssumption == InvertAbove \in Nat
ASSUME MaxTokensAssumption == MaxTokens \in Nat \ {0}

\* `first` is the mint of reserves[0].  amp = 0 stands for Curve::ConstProd.
PoolOver(mints) ==
  [first : mints, reserves : [mints -> Nat], amp : Nat, invariant : Nat, swapFee : 0 .. Dec(1)]

IsConstProd(p) == p.amp = 0
Dimension(p)   == Cardinality(DOMAIN p.reserves)
HasEmpty(p)    == \E m \in DOMAIN p.reserves : p.reserves[m] = 0

-----------------------------------------------------------------------------
(* Deposits.                                                               *)

IsInverted(p) == \E m \in DOMAIN p.reserves : p.reserves[m] > InvertAbove

\* get_deposit_ratio: the smallest of the ratios, or the largest of the inverted
\* ones.  Dividing by an empty reserve or by a ratio of 0 fails.
Ratio(p, max, m)        == Div(Dec(max[m]), Dec(p.reserves[m]))
InverseRatio(p, max, m) == Div(Dec(p.reserves[m]), Dec(max[m]))

\* Broken variant: the largest of the ratios.
LargestRatio(p, max) ==
  {Ratio(p, max, k) : k \in {m \in DOMAIN max :
     ~HasEmpty(p) /\ \A o \in DOMAIN max : Ratio(p, max, m) >= Ratio(p, max, o)}}

DirectRatio(p, max) ==
  {Ratio(p, max, k) : k \in {m \in DOMAIN max :
     ~HasEmpty(p) /\ \A o \in DOMAIN max : Ratio(p, max, m) <= Ratio(p, max, o)}}

InvertedRatio(p, max) ==
  {InverseRatio(p, max, k) : k \in {m \in DOMAIN max :
     \A o \in DOMAIN max : InverseRatio(p, max, m) >= InverseRatio(p, max, o)}} \ {0}

\* The amounts that keep the ratios between the reserves.
ProportionalDeposit(p, max) ==
  IF IsInverted(p)
    THEN {[m \in DOMAIN max |-> Ceil(Div(Dec(p.reserves[m]), r))] : r \in InvertedRatio(p, max)}
    ELSE {[m \in DOMAIN max |-> Ceil(Mul(Dec(p.reserves[m]), r))] : r \in DirectRatio(p, max)}

\* try_mul_div, on the path that amounts of 64 bits take.
MulDiv(a, b, c) == Div(Mul(a, b), c)

\* Broken variant: rounded up.
EligibleLpTokensUp(p, deposit, supply) ==
  Ceil(MulDiv(Dec(supply), Dec(deposit[p.first]), Dec(p.reserves[p.first])))

\* get_eligible_lp_tokens: measured by the first reserve only.
EligibleLpTokens(p, deposit, supply) ==
  Floor(MulDiv(Dec(supply), Dec(deposit[p.first]), Dec(p.reserves[p.first])))

\* deposit_tokens: what is taken and how many LP tokens it is worth, 0 for None.
DepositTokens(p, max, supply) ==
  IF \E m \in DOMAIN max : max[m] = 0 THEN {}
  ELSE IF supply = 0
    THEN {[tokens |-> max, lp |-> n] : n \in {k \in Range(max) : \A m \in DOMAIN max : k <= max[m]}}
  ELSE {[tokens |-> d, lp |-> EligibleLpTokens(p, d, supply)]
          : d \in {x \in ProportionalDeposit(p, max) : p.reserves[p.first] > 0}}

Deposited(p, tokens) == [p EXCEPT !.reserves = [m \in DOMAIN @ |-> @[m] + tokens[m]]]

-----------------------------------------------------------------------------
(* Redemptions.                                                            *)

\* Broken variant: rounded up.
TokensToRedeemUp(p, burn, supply) ==
  [m \in DOMAIN p.reserves |-> Ceil(Mul(Dec(p.reserves[m]), Div(Dec(burn), Dec(supply))))]

\* redeem_tokens: the part of each reserve that the LP tokens stand for.
TokensToRedeem(p, burn, supply) ==
  [m \in DOMAIN p.reserves |-> Floor(Mul(Dec(p.reserves[m]), Div(Dec(burn), Dec(supply))))]

\* Broken variant: the last LP token cannot be redeemed.
RedeemTokensNotLast(p, min, burn, supply) ==
  IF supply = 0 \/ burn >= supply THEN {}
  ELSE {t \in {TokensToRedeem(p, burn, supply)} : \A m \in DOMAIN t : t[m] >= min[m]}

RedeemTokens(p, min, burn, supply) ==
  IF supply = 0 \/ burn > supply THEN {}
  ELSE {t \in {TokensToRedeem(p, burn, supply)} : \A m \in DOMAIN t : t[m] >= min[m]}

Redeemed(p, tokens) == [p EXCEPT !.reserves = [m \in DOMAIN @ |-> @[m] - tokens[m]]]

-----------------------------------------------------------------------------
(* Swaps.                                                                  *)

\* The reserves after the swap, without the one that is bought.
OtherReserves(p, sell, tokens, buy) ==
  [m \in DOMAIN p.reserves \ {buy} |-> p.reserves[m] + IF m = sell THEN tokens ELSE 0]

BoughtBalanceAfter(p, others) ==
  IF IsConstProd(p)
    THEN {Div(Dec(Product(p.reserves)), Dec(Product(others)))}
    ELSE BuyReserveAfterSwap(Dimension(p), p.amp, p.invariant, Dec(Sum(others)), Dec(Product(others)))

\* calculate_swap.  A balance above the reserve cannot be subtracted from it.
TokensToReceive(p, sell, tokens, buy) ==
  IF HasEmpty(p) \/ tokens >= p.reserves[sell] THEN {}
  ELSE {Floor(Dec(p.reserves[buy]) - after) :
          after \in BoughtBalanceAfter(p, OtherReserves(p, sell, tokens, buy))
                      \cap (0 .. Dec(p.reserves[buy]))}

Swapped(p, sell, sold, buy, bought) ==
  [p EXCEPT !.reserves[sell] = @ + sold, !.reserves[buy] = @ - bought]

-----------------------------------------------------------------------------

\* An SDecimal stores the units of a Decimal, which has no sign.
Storable(decimals) == decimals \cap Nat

\* Broken variant: an invariant that is there already is not computed again.
WithFirstInvariant(p) ==
  IF IsConstProd(p) \/ p.invariant > 0 THEN {p}
  ELSE IF HasEmpty(p) THEN {[p EXCEPT !.invariant = 0]}
  ELSE {[p EXCEPT !.invariant = d] : d \in Storable(ComputeInvariant(p.amp, p.reserves))}

\* update_curve_invariant, after every change of the reserves.
WithCurveInvariant(p) ==
  IF IsConstProd(p) THEN {p}
  ELSE IF HasEmpty(p) THEN {[p EXCEPT !.invariant = 0]}
  ELSE {[p EXCEPT !.invariant = d] : d \in Storable(ComputeInvariant(p.amp, p.reserves))}
=============================================================================
