--------------------------------- MODULE Amm ---------------------------------
(***************************************************************************)
(* The AMM program (programs/amm): every endpoint as an action on one pool *)
(* and the token accounts around it.  A transaction is atomic: an endpoint *)
(* that fails changes nothing, so its checks are the guards of its action. *)
(* Who may sign (the admin, the authorities) is not told apart from whoever*)
(* takes the action.                                                       *)
(*                                                                         *)
(* The SPL token program is external: token accounts are balances, and     *)
(* their owners may also use them without the AMM (Donate, BurnLp).        *)
(***************************************************************************)
EXTENDS Pool

CONSTANTS
  Mints, Users,
  Toll,         \* the owner of the program toll wallet
  TollShare,    \* consts::PROGRAM_TOLL_SWAP_FEE_SHARE, a Decimal
  MaxSwapFee,   \* consts::MAX_SWAP_FEE, a Decimal
  MaxReserves,  \* consts::MAX_RESERVES
  None          \* an account that does not exist

\* Bounds: the starting balances, and what a transaction may ask for.
CONSTANTS
  Starts, Amplifiers, MaxDeposits, BurnAmounts, SellAmounts, MinAmounts, Donations,
  Fees, Discounted, Discounts, Validity, MaxSlot,
  MaxSupply     \* deposits and swaps stop when there would be more LP tokens

Holders == Users \cup {Toll}

\* LP tokens and tokens in the vaults may exist before the pool does.
StartingBalances ==
  [vault : [Mints -> Nat], lpSupply : Nat, lpWallet : [Holders -> Nat],
   wallet : [Holders -> [Mints -> Nat]]]

ASSUME MintsAssumption == IsFiniteSet(Mints)
ASSUME UsersAssumption == IsFiniteSet(Users)
ASSUME TollAssumption == Toll \notin Users
ASSUME TollShareAssumption == TollShare \in 0 .. Dec(1)
ASSUME MaxSwapFeeAssumption == MaxSwapFee \in 0 .. Dec(1)
ASSUME MaxReservesAssumption == MaxReserves \in Nat
ASSUME NoneAssumption == None \notin PoolOver(Mints)
ASSUME BoundsAssumption ==
  /\ Starts \subseteq StartingBalances
  /\ MaxDeposits \subseteq [Mints -> Nat]
  /\ Amplifiers \cup BurnAmounts \cup SellAmounts \cup MinAmounts \cup Donations \subseteq Nat
  /\ Fees \cup Validity \cup {MaxSlot, MaxSupply} \subseteq Nat
  /\ Discounted \subseteq Users
  /\ Discounts \subseteq 0 .. Dec(1)

\* The token program keeps the supply of a mint equal to what its accounts hold.
ASSUME SupplyAssumption == \A s \in Starts : s.lpSupply = Sum(s.lpWallet)

VARIABLES
  slot,         \* Clock::get()?.slot
  tollExists,   \* the ProgramToll account
  settingsExist,\* the DiscountSettings account
  discount,     \* the Discount accounts, one PDA per user
  pool,         \* the Pool account
  vault,        \* balances of the pool signer's vaults
  lpSupply,     \* lp_mint.supply
  lpWallet,     \* LP tokens of each holder
  wallet        \* tokens of each holder

accounts == <<tollExists, settingsExist, discount>>
tokens   == <<vault, lpSupply, lpWallet, wallet>>
vars     == <<slot, accounts, pool, tokens>>

PoolExists == pool # None

TypeOK ==
  /\ slot \in Nat
  /\ tollExists \in BOOLEAN /\ settingsExist \in BOOLEAN
  /\ discount \in [Users -> [amount : 0 .. Dec(1), validUntil : Nat]]
  /\ PoolExists => pool \in PoolOver(Mints)
  /\ vault \in [Mints -> Nat]
  /\ lpSupply \in Nat
  /\ lpWallet \in [Holders -> Nat]
  /\ wallet \in [Holders -> [Mints -> Nat]]

\* A discount of nothing stands for an account that does not exist.
NoDiscount == [amount |-> 0, validUntil |-> 0]

Init ==
  /\ slot = 1
  /\ tollExists = FALSE /\ settingsExist = FALSE
  /\ discount = [u \in Users |-> NoDiscount]
  /\ pool = None
  /\ \E s \in Starts :
       /\ vault = s.vault /\ wallet = s.wallet
       /\ lpWallet = s.lpWallet /\ lpSupply = s.lpSupply

-----------------------------------------------------------------------------
(* The program owner's and the pool admin's endpoints.                     *)

CreateProgramToll ==
  /\ ~tollExists
  /\ tollExists' = TRUE
  /\ UNCHANGED <<slot, settingsExist, discount, pool, tokens>>

CreateDiscountSettings ==
  /\ ~settingsExist
  /\ settingsExist' = TRUE
  /\ UNCHANGED <<slot, tollExists, discount, pool, tokens>>

\* Creates or overwrites the discount of a user.
PutDiscount(u, amount, validUntil) ==
  /\ settingsExist
  /\ validUntil > slot
  /\ amount <= Dec(1)
  /\ discount' = [discount EXCEPT ![u] = [amount |-> amount, validUntil |-> validUntil]]
  /\ UNCHANGED <<slot, tollExists, settingsExist, pool, tokens>>

\* Broken variant: the vaults are not compared with the LP supply.
CreatePoolUnchecked(amp, first) ==
  /\ tollExists /\ ~PoolExists
  /\ pool' = [first |-> first, reserves |-> vault, amp |-> amp, invariant |-> 0, swapFee |-> 0]
  /\ UNCHANGED <<slot, accounts, tokens>>

\* Vaults have tokens exactly when there are LP tokens.  The invariant of a
\* stable curve starts as 0.
CreatePool(amp, first) ==
  /\ tollExists /\ ~PoolExists
  /\ Cardinality(Mints) \in 2 .. MaxReserves
  /\ \A m \in Mints : vault[m] = 0 <=> lpSupply = 0
  /\ pool' = [first |-> first, reserves |-> vault, amp |-> amp, invariant |-> 0, swapFee |-> 0]
  /\ UNCHANGED <<slot, accounts, tokens>>

\* Broken variant: the fee is not limited.
SetAnySwapFee(fee) ==
  /\ PoolExists
  /\ pool' = [pool EXCEPT !.swapFee = fee]
  /\ UNCHANGED <<slot, accounts, tokens>>

SetPoolSwapFee(fee) ==
  /\ PoolExists
  /\ fee <= MaxSwapFee
  /\ pool' = [pool EXCEPT !.swapFee = fee]
  /\ UNCHANGED <<slot, accounts, tokens>>

-----------------------------------------------------------------------------
(* The endpoints of liquidity providers.                                   *)

Plus(f, g)  == [m \in DOMAIN f |-> f[m] + g[m]]
Minus(f, g) == [m \in DOMAIN f |-> f[m] - g[m]]
AtMost(f, g) == \A m \in DOMAIN f : f[m] <= g[m]

\* A deposit that is worth no LP token is refused.
DepositLiquidity(u, max) ==
  /\ PoolExists
  /\ \E d \in DepositTokens(pool, max, lpSupply) :
       /\ d.lp > 0
       /\ AtMost(d.tokens, wallet[u])
       /\ wallet' = [wallet EXCEPT ![u] = Minus(@, d.tokens)]
       /\ vault' = Plus(vault, d.tokens)
       /\ lpWallet' = [lpWallet EXCEPT ![u] = @ + d.lp]
       /\ lpSupply' = lpSupply + d.lp
       /\ pool' \in WithCurveInvariant(Deposited(pool, d.tokens))
  /\ UNCHANGED <<slot, accounts>>

\* Broken variant: only the supply limits what is burnt.
MayBurnSupply(h, burn) == burn <= lpSupply

MayBurn(h, burn) == burn <= lpWallet[h] /\ burn <= lpSupply

RedeemLiquidity(h, burn, min) ==
  /\ PoolExists
  /\ MayBurn(h, burn)
  /\ \E t \in RedeemTokens(pool, min, burn, lpSupply) :
       /\ AtMost(t, vault)
       /\ vault' = Minus(vault, t)
       /\ wallet' = [wallet EXCEPT ![h] = Plus(@, t)]
       /\ lpWallet' = [lpWallet EXCEPT ![h] = @ - burn]
       /\ lpSupply' = lpSupply - burn
       /\ pool' \in WithCurveInvariant(Redeemed(pool, t))
  /\ UNCHANGED <<slot, accounts>>

-----------------------------------------------------------------------------
(* Swaps.                                                                  *)

DiscountApplies(u) == discount[u].amount > 0 /\ slot <= discount[u].validUntil

SwapFeeShare(u) ==
  IF DiscountApplies(u) THEN pool.swapFee - Mul(pool.swapFee, discount[u].amount) ELSE pool.swapFee

SwapFee(u, sold) == Ceil(Mul(Dec(sold), SwapFeeShare(u)))

TollInSellTokens(fee) == Round(Div(Mul(Dec(fee), TollShare), Dec(Dimension(pool))))

\* Broken variant: the other reserves limit the deposit.
TollInOtherTokens(p, fee, sell) ==
  LET toll == TollInSellTokens(fee)
  IN  IF toll = 0 THEN {0}
      ELSE {d.lp : d \in DepositTokens(p,
              [m \in DOMAIN p.reserves |-> IF m = sell THEN MaxTokens ELSE toll], lpSupply)}

\* calculate_toll_in_lp_tokens: what a deposit to the pool p, limited by the
\* toll in sell tokens, would be worth.
TollInLpTokens(p, fee, sell) ==
  LET toll == TollInSellTokens(fee)
  IN  IF toll = 0 THEN {0}
      ELSE {d.lp : d \in DepositTokens(p,
              [m \in DOMAIN p.reserves |-> IF m = sell THEN toll ELSE MaxTokens], lpSupply)}

\* The pool p is pool after the swap, the fee included.
SettleSwap(u, sell, sold, buy, bought, fee, p) ==
  /\ bought <= vault[buy]
  /\ vault' = [vault EXCEPT ![sell] = @ + sold, ![buy] = @ - bought]
  /\ wallet' = [wallet EXCEPT ![u][sell] = @ - sold, ![u][buy] = @ + bought]
  /\ \E toll \in TollInLpTokens(p, fee, sell) :
       /\ lpWallet' = [lpWallet EXCEPT ![Toll] = @ + toll]
       /\ lpSupply' = lpSupply + toll
  /\ pool' \in WithCurveInvariant(p)
  /\ UNCHANGED <<slot, accounts>>

\* Broken variant: the fee is added to a reserve that has it already.
SwapWithFeeTwice(u, sell, sold, buy, minBuy, fee) ==
  \E bought \in TokensToReceive(pool, sell, sold - fee, buy) :
    /\ minBuy <= bought
    /\ SettleSwap(u, sell, sold, buy, bought, fee, Swapped(pool, sell, sold + fee, buy, bought))

SwapWithFee(u, sell, sold, buy, minBuy, fee) ==
  \E bought \in TokensToReceive(pool, sell, sold - fee, buy) :
    /\ minBuy <= bought
    /\ SettleSwap(u, sell, sold, buy, bought, fee, Swapped(pool, sell, sold, buy, bought))

Swap(u, sell, sold, buy, minBuy) ==
  /\ PoolExists
  /\ lpSupply > 0
  /\ sell # buy
  /\ sold \in 1 .. wallet[u][sell]
  /\ SwapWithFee(u, sell, sold, buy, minBuy, SwapFee(u, sold))

-----------------------------------------------------------------------------
(* What happens around the program.                                        *)

Tick ==
  /\ slot < MaxSlot
  /\ slot' = slot + 1
  /\ UNCHANGED <<accounts, pool, tokens>>

\* Anybody may transfer tokens to a vault; the reserve does not count them.
Donate(u, m, amount) ==
  /\ amount <= wallet[u][m]
  /\ vault' = [vault EXCEPT ![m] = @ + amount]
  /\ wallet' = [wallet EXCEPT ![u][m] = @ - amount]
  /\ UNCHANGED <<slot, accounts, pool, lpSupply, lpWallet>>

\* The owner of LP tokens may burn them with the token program.
BurnLp(u, amount) ==
  /\ amount <= lpWallet[u] /\ amount <= lpSupply
  /\ lpWallet' = [lpWallet EXCEPT ![u] = @ - amount]
  /\ lpSupply' = lpSupply - amount
  /\ UNCHANGED <<slot, accounts, pool, vault, wallet>>

OwnerNext ==
  \/ CreateProgramToll
  \/ CreateDiscountSettings
  \/ \E u \in Discounted, amount \in Discounts, n \in Validity : PutDiscount(u, amount, slot + n)
  \/ \E amp \in Amplifiers, first \in Mints : CreatePool(amp, first)
  \/ \E fee \in Fees : SetPoolSwapFee(fee)

AtLeast(n) == [m \in Mints |-> n]

RedeemAll(h) == RedeemLiquidity(h, lpWallet[h], AtLeast(0))

Redeem(h) ==
  \/ RedeemAll(h)
  \/ \E burn \in BurnAmounts, n \in MinAmounts : RedeemLiquidity(h, burn, AtLeast(n))

SupplyIsBounded == lpSupply' <= MaxSupply

UserNext(u) ==
  \/ \E max \in MaxDeposits : DepositLiquidity(u, max) /\ SupplyIsBounded
  \/ \E sell, buy \in Mints, sold \in SellAmounts, n \in MinAmounts :
       Swap(u, sell, sold, buy, n) /\ SupplyIsBounded
  \/ \E m \in Mints, amount \in Donations : Donate(u, m, amount)
  \/ \E amount \in BurnAmounts : BurnLp(u, amount)

Next ==
  \/ OwnerNext
  \/ \E u \in Users : UserNext(u)
  \/ \E h \in Holders : Redeem(h)
  \/ Tick

Spec == Init /\ [][Next]_vars
-----------------------------------------------------------------------------
(* Properties.                                                             *)

\* The vaults hold at least what the reserves record, whatever the mix of fees,
\* tolls, roundings and gifts: no transfer out of a vault fails.
ReservesAreBacked == PoolExists => AtMost(pool.reserves, vault)

\* On a constant product curve no reserve runs dry while somebody holds LP
\* tokens: floored redemptions and swaps leave something.
NoReserveRunsDry == PoolExists /\ IsConstProd(pool) /\ lpSupply > 0 => ~HasEmpty(pool)

\* What a pool promises liquidity providers (LiquidityShares): redemptions,
\* swaps and tolls never take more of a reserve than their share.
Shares == INSTANCE LiquidityShares WITH
  Assets <- Mints, Precision <- Wad, parts <- lpWallet,
  fund  <- IF PoolExists THEN pool.reserves ELSE vault,
  curve <- IF ~PoolExists THEN "none" ELSE IF IsConstProd(pool) THEN "product" ELSE "stable"
ImplementsShares == Shares!Spec

\* The inverted ratio tells the user's limit from the next larger amount.
IsPrecise(p, max, m) == max[m] <= InverseRatio(p, max, m)

\* Rounding up (pool.rs: "we ceil to prevent deposit of 0 tokens") may take more
\* than the user allowed: never with the direct ratio, one token more with the
\* inverted ratio, while that is precise.
DepositStaysWithinLimit ==
  PoolExists =>
    \A max \in MaxDeposits : \A d \in DepositTokens(pool, max, lpSupply) : \A m \in Mints :
      \/ d.tokens[m] <= max[m]
      \/ IsInverted(pool) /\ (IsPrecise(pool, max, m) => d.tokens[m] = max[m] + 1)

\* The LP tokens of a deposit are measured by the first reserve, rounded up
\* ("any given token in the pool can be used", pool.rs): what the other holders'
\* parts stand for falls by at most what one token of that reserve is worth.
DepositDilutesByOneToken ==
  [][\A u \in Users : lpWallet'[u] > lpWallet[u] /\ lpSupply > 0 =>
       LET old == pool.reserves
           new == pool'.reserves
       IN  \A m \in Mints :
             old[pool.first] * Wad * (old[m] * lpSupply' - new[m] * lpSupply)
               <= lpSupply * (old[m] * Wad + old[pool.first])]_vars

\* swap.rs takes the fee off the sale with an unchecked subtraction: rounded up
\* and after any discount, it is never more than what is sold.
FeeFitsSale == PoolExists => \A u \in Users, sold \in SellAmounts : SwapFee(u, sold) <= sold

\* The toll's share of the fee on `sold` tokens, rounded, for each reserve.
TollLimit(sold) == TollInSellTokens(Ceil(Mul(Dec(sold), pool.swapFee)))

\* A reserve in units of 1 / Wad, as the deposit ratio sees it: the inverted ratio
\* of it to a limit is truncated, by less than a unit for each token of the limit.
SeenReserve(p, m, limit) == Dec(p.reserves[m]) - IF IsInverted(p) THEN limit ELSE 0

\* "We deposit tokens which are in total worth the swap_fee * toll_share"
\* (swap.rs): minted after the trade and measured by the reserves after it, the
\* toll is worth no more than its share of the fee and the rounding of one token
\* of the first reserve, on either side of the threshold of the inverted ratio.
TollIsPartOfFee ==
  [][\A m \in Mints :
       lpWallet'[Toll] > lpWallet[Toll] /\ pool'.reserves[m] > pool.reserves[m] =>
         LET limit == TollLimit(pool'.reserves[m] - pool.reserves[m])
             seen  == SeenReserve(pool', m, limit)
             first == pool'.reserves[pool.first]
         IN  (lpSupply' - lpSupply) * first * seen
               <= lpSupply * (limit * first * Wad + seen)]_vars

\* The polynomial of which "the value of curve invariant D should always
\* correspond to the positive zero" (README), in whole tokens.
StablePolynomial(p, d) ==
  LET n == Dimension(p)
      q == n^n * Product(p.reserves)
  IN  d^(n + 1) + d * (p.amp * n^n - 1) * q - p.amp * n^n * Sum(p.reserves) * q

\* Newton's method may stop up to 1 above the root, scaled up like the values.
NewtonSlack(p) == ScaleCoef(Dec(Sum(p.reserves)))

HasInvariant(p) == ~IsConstProd(p) /\ p.invariant > 0

\* Once computed, the invariant follows every deposit, redemption and swap.
InvariantIsNearRoot ==
  PoolExists /\ HasInvariant(pool) =>
    /\ StablePolynomial(pool, Floor(pool.invariant) - NewtonSlack(pool)) <= 0
    /\ StablePolynomial(pool, Floor(pool.invariant) + 1) >= 0

\* The stored invariant is the one that the reserves of now have: no endpoint
\* leaves it behind, the fee and the toll of a swap included.  README.md:274
\* says otherwise ("we do not recompute the invariant after a swap"), but
\* `swap` ends with update_curve_invariant.
InvariantIsCurrent ==
  PoolExists /\ HasInvariant(pool) => pool.invariant \in ComputeInvariant(pool.amp, pool.reserves)

\* Newton's method only descends from the sum of the reserves, which the
\* invariant of balanced reserves is: what a stable pool is worth by its curve
\* is never more than what is in it.
InvariantIsAtMostSum ==
  PoolExists /\ ~IsConstProd(pool) => pool.invariant <= Dec(Sum(pool.reserves))

IsSwap == \E sell, buy \in Mints : vault'[sell] > vault[sell] /\ vault'[buy] < vault[buy]

\* A swap on a stable curve leaves reserves that are still worth the invariant
\* from which the trader's tokens were computed, to within one token.
SwapKeepsInvariant ==
  [][IsSwap /\ HasInvariant(pool) /\ ~HasEmpty(pool') =>
       StablePolynomial(pool', Floor(pool.invariant) - 1) <= 0]_vars

-----------------------------------------------------------------------------
(* Liveness.  A holder who keeps asking to redeem everything gets out of a *)
(* constant product pool; the last one does, too.                          *)

Holds(h) == PoolExists /\ IsConstProd(pool) /\ lpWallet[h] > 0
Leave(h) == Holds(h) /\ RedeemAll(h)

LiveSpec == Spec /\ \A h \in Holders : WF_vars(Leave(h))

\* No swap, deposit, toll or fee makes a redemption fail for good.
LiquidityComesBack == \A h \in Holders : Holds(h) ~> ~Holds(h)

-----------------------------------------------------------------------------
(* What the code's comments say and the code does not do.                  *)

\* "The only case where equality holds is when prev_val is a precise root"
\* (stable_curve_invariant.rs): no deposit fails for want of an invariant.
NewtonFindsInvariant ==
  PoolExists /\ ~IsConstProd(pool) =>
    \A max \in MaxDeposits : \A d \in DepositTokens(pool, max, lpSupply) :
      WithCurveInvariant(Deposited(pool, d.tokens)) # {}

\* "The value of curve invariant D should always correspond to the positive
\* zero of SSP(D)" (README), which is not 0 when there are reserves.
ReservesHaveInvariant ==
  PoolExists /\ ~IsConstProd(pool) /\ ~HasEmpty(pool) => pool.invariant > 0
=============================================================================
