------------------------------ MODULE AmmProofs ------------------------------
(***************************************************************************)
(* Proofs about Amm for every number of mints and users and every bound:   *)
(* vaults back the reserves, what rounding costs a depositor and the       *)
(* others, a constant product pool never runs dry, the supply of LP tokens *)
(* is what the holders own together, Amm implements LiquidityShares, the   *)
(* toll is its part of the fee, and the invariant of a stable curve is the *)
(* one of its reserves and no more than their sum.                         *)
(***************************************************************************)
EXTENDS Amm, FoldFacts

\* Rounding up a part of a whole number of Decimals does not exceed it.
LEMMA RoundsUp ==
  ASSUME NEW a \in Nat, NEW n \in Nat, a <= Wad * n
  PROVE  Ceil(a) \in Nat /\ Ceil(a) <= n
<1> DEFINE c == (a + Wad - 1) \div Wad
<1>1. a + Wad - 1 \in Nat
  BY WadAssumption
<1>2. c \in Nat /\ Wad * c <= a + Wad - 1
  BY <1>1, Truncates, WadAssumption
<1>3. SUFFICES ASSUME c >= n + 1 PROVE FALSE
  BY <1>2 DEF Ceil
<1>4. Wad * (n + 1) <= Wad * c
  BY <1>2, <1>3, Products, WadAssumption
<1>5. Wad * (n + 1) = Wad * n + Wad
  BY WadAssumption
<1>6. Wad * n \in Nat /\ Wad * c \in Nat
  BY <1>2, Products, WadAssumption
<1>7. QED
  BY <1>2, <1>4, <1>5, <1>6, WadAssumption

\* The operations of a Decimal yield Decimals.
LEMMA DecimalTypes ==
  ASSUME NEW a \in Nat, NEW b \in Nat
  PROVE  /\ Dec(a) \in Nat
         /\ Mul(a, b) \in Nat
         /\ b # 0 => Div(a, b) \in Nat
         /\ Floor(a) \in Nat /\ Ceil(a) \in Nat /\ Round(a) \in Nat
<1>1. a * Wad \in Nat /\ a * b \in Nat /\ a + Wad - 1 \in Nat /\ a + (Wad \div 2) \in Nat
  BY WadAssumption, Truncates
<1>2. QED
  BY <1>1, WadAssumption, Truncates DEF Dec, Mul, Div, Floor, Ceil, Round

-----------------------------------------------------------------------------
(* What the methods of Pool return.                                        *)

\* What is asked of a deposit in whole tokens gives whole tokens, and ratios
\* are Decimals where they are defined.
LEMMA RatioTypes ==
  ASSUME NEW p \in PoolOver(Mints), NEW max \in [Mints -> Nat], NEW m \in Mints
  PROVE  /\ ~HasEmpty(p) => Ratio(p, max, m) \in Nat
         /\ max[m] > 0 => InverseRatio(p, max, m) \in Nat
<1>1. p.reserves \in [Mints -> Nat]
  BY DEF PoolOver
<1>2. max[m] \in Nat /\ p.reserves[m] \in Nat
  BY <1>1
<1>3. /\ max[m] > 0 => Dec(max[m]) # 0
      /\ p.reserves[m] > 0 => Dec(p.reserves[m]) # 0
  BY <1>2, WadAssumption DEF Dec
<1>4. ~HasEmpty(p) => p.reserves[m] > 0
  BY <1>1, <1>2 DEF HasEmpty
<1>5. Dec(max[m]) \in Nat /\ Dec(p.reserves[m]) \in Nat
  BY <1>2, DecimalTypes
<1>6. QED
  BY <1>3, <1>4, <1>5, DecimalTypes DEF Ratio, InverseRatio

\* deposit_tokens takes whole tokens of every mint and issues whole LP tokens.
LEMMA DepositType ==
  ASSUME NEW p \in PoolOver(Mints), NEW max \in [Mints -> Nat], NEW supply \in Nat,
         NEW d \in DepositTokens(p, max, supply)
  PROVE  d.tokens \in [Mints -> Nat] /\ d.lp \in Nat
<1>1. p.reserves \in [Mints -> Nat] /\ p.first \in Mints
  BY DEF PoolOver
<1>2. \A m \in Mints : max[m] > 0
  BY DEF DepositTokens
<1>3. CASE supply = 0
  <2>1. PICK n \in Range(max) : d = [tokens |-> max, lp |-> n]
    BY <1>2, <1>3 DEF DepositTokens
  <2>2. n \in Nat
    BY <2>1 DEF Range
  <2>3. QED
    BY <2>1, <2>2
<1>4. CASE supply # 0
  <2>1. PICK x \in ProportionalDeposit(p, max) :
          d = [tokens |-> x, lp |-> EligibleLpTokens(p, x, supply)] /\ p.reserves[p.first] > 0
    BY <1>2, <1>4 DEF DepositTokens
  <2>2. x \in [Mints -> Nat]
    <3>1. CASE IsInverted(p)
      <4>1. PICK r \in InvertedRatio(p, max) :
              x = [m \in Mints |-> Ceil(Div(Dec(p.reserves[m]), r))]
        BY <2>1, <3>1 DEF ProportionalDeposit
      <4>2. PICK k \in Mints : r = InverseRatio(p, max, k) /\ r # 0
        BY <4>1 DEF InvertedRatio
      <4>3. r \in Nat /\ r # 0
        BY <1>2, <4>2, RatioTypes
      <4>4. \A m \in Mints : Ceil(Div(Dec(p.reserves[m]), r)) \in Nat
        BY <1>1, <4>3, DecimalTypes
      <4>5. QED
        BY <4>1, <4>4
    <3>2. CASE ~IsInverted(p)
      <4>1. PICK r \in DirectRatio(p, max) :
              x = [m \in Mints |-> Ceil(Mul(Dec(p.reserves[m]), r))]
        BY <2>1, <3>2 DEF ProportionalDeposit
      <4>2. PICK k \in Mints : r = Ratio(p, max, k) /\ ~HasEmpty(p)
        BY <4>1 DEF DirectRatio
      <4>3. r \in Nat
        BY <4>2, RatioTypes
      <4>4. \A m \in Mints : Ceil(Mul(Dec(p.reserves[m]), r)) \in Nat
        BY <1>1, <4>3, DecimalTypes
      <4>5. QED
        BY <4>1, <4>4
    <3>3. QED
      BY <3>1, <3>2
  <2>3. EligibleLpTokens(p, x, supply) \in Nat
    <3>1. x[p.first] \in Nat /\ p.reserves[p.first] \in Nat \ {0}
      BY <1>1, <2>1, <2>2
    <3>2. Dec(p.reserves[p.first]) \in Nat /\ Dec(p.reserves[p.first]) # 0
      BY <3>1, WadAssumption DEF Dec
    <3>3. Dec(supply) \in Nat /\ Dec(x[p.first]) \in Nat
      BY <3>1, DecimalTypes
    <3>4. MulDiv(Dec(supply), Dec(x[p.first]), Dec(p.reserves[p.first])) \in Nat
      BY <3>2, <3>3, DecimalTypes DEF MulDiv
    <3>5. QED
      BY <3>4, DecimalTypes DEF EligibleLpTokens
  <2>4. QED
    BY <2>1, <2>2, <2>3
<1>5. QED
  BY <1>3, <1>4

\* A part of a reserve, floored twice, is at most the part that the LP tokens
\* are of their supply.
LEMMA PartIsFloored ==
  ASSUME NEW r \in Nat, NEW burn \in Nat, NEW supply \in Nat \ {0}
  PROVE  /\ Floor(Mul(Dec(r), Div(Dec(burn), Dec(supply)))) \in Nat
         /\ Floor(Mul(Dec(r), Div(Dec(burn), Dec(supply)))) * supply <= r * burn
<1> DEFINE w == Div(Dec(burn), Dec(supply))
           x == Floor(Mul(Dec(r), w))
<1>1. Dec(burn) \in Nat /\ Dec(r) \in Nat /\ Dec(supply) \in Nat \ {0}
  BY WadAssumption DEF Dec
<1>2. w \in Nat
  BY <1>1, DecimalTypes
<1>3. Dec(supply) * w <= Dec(burn) * Wad
  <2>1. Dec(burn) * Wad \in Nat
    BY <1>1, Products, WadAssumption
  <2>2. QED
    BY <1>1, <2>1, Truncates DEF Div
<1>4. supply * w <= burn * Wad
  <2>1. Wad * (supply * w) <= Wad * (burn * Wad)
    BY <1>2, <1>3, WadAssumption DEF Dec
  <2>2. supply * w \in Nat /\ burn * Wad \in Nat
    BY <1>2, Products, WadAssumption
  <2>3. QED
    BY <2>1, <2>2, Cancels, WadAssumption
<1>5. Mul(Dec(r), w) = r * w
  BY <1>2, WadAssumption, Truncates DEF Mul, Dec
<1>6. x \in Nat /\ Wad * x <= r * w
  BY <1>2, <1>5, WadAssumption, Truncates DEF Floor
<1>7. (Wad * x) * supply <= (r * w) * supply
  BY <1>2, <1>6, WadAssumption
<1>8. (r * w) * supply <= r * (burn * Wad)
  BY <1>2, <1>4, WadAssumption
<1>9. Wad * (x * supply) <= Wad * (r * burn)
  BY <1>2, <1>6, <1>7, <1>8, WadAssumption
<1>10. x * supply <= r * burn
  BY <1>6, <1>9, WadAssumption
<1>11. QED
  BY <1>6, <1>10

\* redeem_tokens returns at most the share of every reserve, and so never more
\* than the reserve.
LEMMA RedeemType ==
  ASSUME NEW p \in PoolOver(Mints), NEW min \in [Mints -> Nat],
         NEW burn \in Nat, NEW supply \in Nat, NEW t \in RedeemTokens(p, min, burn, supply)
  PROVE  /\ t \in [Mints -> Nat]
         /\ \A m \in Mints : t[m] * supply <= p.reserves[m] * burn /\ t[m] <= p.reserves[m]
<1>1. p.reserves \in [Mints -> Nat]
  BY DEF PoolOver
<1>2. supply # 0 /\ burn <= supply /\ t = TokensToRedeem(p, burn, supply)
  BY DEF RedeemTokens
<1>3. \A m \in Mints : t[m] \in Nat /\ t[m] * supply <= p.reserves[m] * burn
  BY <1>1, <1>2, PartIsFloored DEF TokensToRedeem
<1>4. t \in [Mints -> Nat]
  BY <1>1, <1>2, <1>3 DEF TokensToRedeem
<1>5. ASSUME NEW m \in Mints PROVE t[m] <= p.reserves[m]
  <2>1. \A x, r \in Nat : x * supply <= r * burn => x <= r
    <3>1. SUFFICES ASSUME NEW x \in Nat, NEW r \in Nat, x > r PROVE ~(x * supply <= r * burn)
      OBVIOUS
    <3>2. r * burn <= r * supply
      BY <1>2
    <3>3. r * supply < x * supply
      BY <1>2, <3>1
    <3>4. QED
      BY <3>2, <3>3
  <2>2. QED
    BY <1>1, <1>3, <2>1
<1>6. QED
  BY <1>3, <1>4, <1>5

\* calculate_swap returns at most the reserve that is bought.
LEMMA ReceiveType ==
  ASSUME NEW p \in PoolOver(Mints), NEW sell \in Mints, NEW buy \in Mints, NEW n \in Int,
         NEW bought \in TokensToReceive(p, sell, n, buy)
  PROVE  bought \in Nat /\ bought <= p.reserves[buy]
<1>1. p.reserves \in [Mints -> Nat]
  BY DEF PoolOver
<1>2. PICK after \in 0 .. Dec(p.reserves[buy]) : bought = Floor(Dec(p.reserves[buy]) - after)
  BY DEF TokensToReceive
<1>3. p.reserves[buy] \in Nat
  BY <1>1
<1>4. /\ Dec(p.reserves[buy]) - after \in Nat
      /\ Dec(p.reserves[buy]) - after <= Wad * p.reserves[buy]
  BY <1>3, WadAssumption DEF Dec
<1>5. QED
  BY <1>2, <1>3, <1>4, Truncates, DivideBelow, WadAssumption DEF Floor

\* update_curve_invariant changes nothing but the invariant.
LEMMA InvariantOnly ==
  ASSUME NEW p \in PoolOver(Mints), NEW q \in WithCurveInvariant(p)
  PROVE  /\ q \in PoolOver(Mints)
         /\ q.reserves = p.reserves /\ q.amp = p.amp /\ q.first = p.first
<1>1. \A n \in Nat : [p EXCEPT !.invariant = n] \in PoolOver(Mints)
  BY DEF PoolOver
<1>2. CASE IsConstProd(p)
  BY <1>2 DEF WithCurveInvariant
<1>3. CASE ~IsConstProd(p)
  <2>1. PICK n \in Nat : q = [p EXCEPT !.invariant = n]
    BY <1>3 DEF WithCurveInvariant, Storable
  <2>2. QED
    BY <1>1, <2>1 DEF PoolOver
<1>4. QED
  BY <1>2, <1>3

-----------------------------------------------------------------------------
(* The invariant: a pool has reserves of at least two mints, so that the   *)
(* toll is divided by their number, and the vaults back the reserves.      *)

HasDimension == PoolExists => Cardinality(Mints) \in Nat \ {0}

Sound == TypeOK /\ HasDimension /\ ReservesAreBacked

\* A tightly typed pool is not the absent one.
LEMMA PoolTyped ==
  ASSUME Sound, PoolExists
  PROVE  /\ pool \in PoolOver(Mints) /\ pool.reserves \in [Mints -> Nat]
         /\ Dimension(pool) \in Nat \ {0}
         /\ \A m \in Mints : pool.reserves[m] <= vault[m]
<1>1. pool \in PoolOver(Mints) /\ pool.reserves \in [Mints -> Nat]
  BY DEF Sound, TypeOK, PoolOver
<1>2. Dimension(pool) = Cardinality(Mints)
  BY <1>1 DEF Dimension
<1>3. QED
  BY <1>1, <1>2 DEF Sound, HasDimension, ReservesAreBacked, AtMost

\* The fee is rounded up and still never exceeds what is sold: swap.rs subtracts
\* it without a check.
LEMMA FeeOfSale ==
  ASSUME NEW sold \in Nat, NEW share \in 0 .. Dec(1)
  PROVE  /\ Ceil(Mul(Dec(sold), share)) \in Nat
         /\ Ceil(Mul(Dec(sold), share)) <= sold
<1>1. share \in Nat /\ share <= Wad
  BY WadAssumption DEF Dec
<1>2. Mul(Dec(sold), share) = sold * share
  <2>1. sold * share \in Nat
    BY <1>1, Products
  <2>2. (sold * Wad) * share = Wad * (sold * share)
    BY <1>1, WadAssumption
  <2>3. QED
    BY <2>1, <2>2, WadAssumption DEF Mul, Dec
<1>3. sold * share \in Nat /\ sold * share <= Wad * sold
  BY <1>1, Products, WadAssumption
<1>4. Ceil(sold * share) \in Nat /\ Ceil(sold * share) <= sold
  BY <1>3, RoundsUp
<1>5. QED
  BY <1>2, <1>4

\* A discount leaves a share between nothing and the whole fee.
LEMMA FeeShareType ==
  ASSUME Sound, PoolExists, NEW u \in Users
  PROVE  SwapFeeShare(u) \in 0 .. Dec(1)
<1>1. pool.swapFee \in 0 .. Dec(1) /\ discount[u].amount \in 0 .. Dec(1)
  BY PoolTyped DEF PoolOver, Sound, TypeOK
<1>2. Dec(1) = Wad
  BY WadAssumption DEF Dec
<1>3. pool.swapFee \in Nat /\ discount[u].amount \in Nat /\ discount[u].amount <= Wad
  BY <1>1, <1>2, WadAssumption
<1>4. pool.swapFee * discount[u].amount <= Wad * pool.swapFee
  BY <1>3, Products, WadAssumption
<1>5. pool.swapFee * discount[u].amount \in Nat
  BY <1>3, Products
<1>6. Mul(pool.swapFee, discount[u].amount) <= pool.swapFee
  BY <1>3, <1>4, <1>5, DivideBelow, WadAssumption DEF Mul
<1>7. Mul(pool.swapFee, discount[u].amount) \in Nat
  BY <1>3, DecimalTypes
<1>8. pool.swapFee - Mul(pool.swapFee, discount[u].amount) \in 0 .. Wad
  BY <1>1, <1>2, <1>3, <1>6, <1>7, WadAssumption
<1>9. QED
  BY <1>1, <1>2, <1>8 DEF SwapFeeShare

LEMMA SwapFeeType ==
  ASSUME Sound, PoolExists, NEW u \in Users, NEW sold \in Nat
  PROVE  SwapFee(u, sold) \in Nat /\ SwapFee(u, sold) <= sold
BY FeeShareType, FeeOfSale DEF SwapFee

\* The toll is a whole number of LP tokens.
LEMMA TollType ==
  ASSUME Sound, PoolExists, NEW p \in PoolOver(Mints), NEW fee \in Nat, NEW sell \in Mints,
         NEW toll \in TollInLpTokens(p, fee, sell)
  PROVE  toll \in Nat
<1>1. Dec(Dimension(pool)) \in Nat \ {0}
  BY PoolTyped, WadAssumption DEF Dec
<1>2. TollShare \in Nat
  BY TollShareAssumption, WadAssumption DEF Dec
<1>3. TollInSellTokens(fee) \in Nat
  BY <1>1, <1>2, DecimalTypes DEF TollInSellTokens
<1>4. CASE TollInSellTokens(fee) = 0
  BY <1>4 DEF TollInLpTokens
<1>5. CASE TollInSellTokens(fee) # 0
  <2> DEFINE max == [m \in Mints |-> IF m = sell THEN TollInSellTokens(fee) ELSE MaxTokens]
  <2>1. max \in [Mints -> Nat] /\ DOMAIN p.reserves = Mints
    BY <1>3, MaxTokensAssumption DEF PoolOver
  <2>2. PICK d \in DepositTokens(p, max, lpSupply) : toll = d.lp
    BY <1>5, <2>1 DEF TollInLpTokens
  <2>3. lpSupply \in Nat
    BY DEF Sound, TypeOK
  <2>4. QED
    BY <2>1, <2>2, <2>3, DepositType
<1>6. QED
  BY <1>4, <1>5

-----------------------------------------------------------------------------
(* Every action keeps the invariant.                                       *)

LEMMA InitSound == Init => Sound
<1> SUFFICES ASSUME Init PROVE Sound
  OBVIOUS
<1>1. ~PoolExists
  BY DEF Init, PoolExists
<1>2. PICK s \in StartingBalances :
        vault = s.vault /\ wallet = s.wallet /\ lpWallet = s.lpWallet /\ lpSupply = s.lpSupply
  BY BoundsAssumption DEF Init
<1>3. /\ vault \in [Mints -> Nat] /\ wallet \in [Holders -> [Mints -> Nat]]
      /\ lpWallet \in [Holders -> Nat] /\ lpSupply \in Nat
  BY <1>2 DEF StartingBalances
<1>4. discount \in [Users -> [amount : 0 .. Dec(1), validUntil : Nat]]
  BY WadAssumption DEF Init, NoDiscount, Dec
<1>5. QED
  BY <1>1, <1>3, <1>4 DEF Init, Sound, TypeOK, HasDimension, ReservesAreBacked

\* What only concerns the accounts beside the pool.
LEMMA AccountsSound ==
  ASSUME Sound, UNCHANGED <<pool, tokens>>, slot' \in Nat,
         tollExists' \in BOOLEAN, settingsExist' \in BOOLEAN,
         discount' \in [Users -> [amount : 0 .. Dec(1), validUntil : Nat]]
  PROVE  Sound'
BY DEF Sound, TypeOK, HasDimension, ReservesAreBacked, PoolExists, tokens, AtMost

\* A new pool records what the vaults hold.
LEMMA CreatePoolSound ==
  ASSUME Sound, NEW amp \in Amplifiers, NEW first \in Mints, CreatePool(amp, first)
  PROVE  Sound'
<1>1. amp \in Nat /\ vault \in [Mints -> Nat] /\ 0 \in 0 .. Dec(1)
  BY BoundsAssumption, WadAssumption DEF Sound, TypeOK, Dec
<1>2. pool' \in PoolOver(Mints) /\ pool'.reserves = vault
  BY <1>1 DEF CreatePool, PoolOver
<1>3. /\ TypeOK' /\ vault' = vault
  BY <1>2 DEF CreatePool, Sound, TypeOK, accounts, tokens
<1>4. ReservesAreBacked'
  BY <1>1, <1>2, <1>3 DEF ReservesAreBacked, AtMost
<1>5. HasDimension'
  BY MaxReservesAssumption DEF CreatePool, HasDimension
<1>6. QED
  BY <1>3, <1>4, <1>5 DEF Sound

LEMMA SetPoolSwapFeeSound ==
  ASSUME Sound, NEW fee \in Fees, SetPoolSwapFee(fee)
  PROVE  Sound'
<1>1. pool \in PoolOver(Mints) /\ PoolExists
  BY PoolTyped DEF SetPoolSwapFee
<1>2. fee \in 0 .. Dec(1)
  BY BoundsAssumption, MaxSwapFeeAssumption, WadAssumption DEF SetPoolSwapFee, Dec
<1>3. pool' = [pool EXCEPT !.swapFee = fee]
  BY DEF SetPoolSwapFee
<1>4. pool' \in PoolOver(Mints) /\ pool'.reserves = pool.reserves
  BY <1>1, <1>2, <1>3 DEF PoolOver
<1>5. TypeOK' /\ vault' = vault
  BY <1>4 DEF SetPoolSwapFee, Sound, TypeOK, accounts, tokens
<1>6. QED
  BY <1>1, <1>4, <1>5 DEF Sound, HasDimension, ReservesAreBacked, AtMost

\* What is taken from the user goes to the vault and is added to the reserve.
LEMMA DepositSound ==
  ASSUME Sound, NEW u \in Users, NEW max \in MaxDeposits, DepositLiquidity(u, max)
  PROVE  Sound'
<1>1. PoolExists /\ max \in [Mints -> Nat] /\ u \in Holders
  BY BoundsAssumption DEF DepositLiquidity, Holders
<1>2. /\ pool \in PoolOver(Mints) /\ pool.reserves \in [Mints -> Nat]
      /\ \A m \in Mints : pool.reserves[m] <= vault[m]
  BY <1>1, PoolTyped
<1>3. /\ vault \in [Mints -> Nat] /\ lpSupply \in Nat /\ lpWallet \in [Holders -> Nat]
      /\ wallet \in [Holders -> [Mints -> Nat]]
  BY DEF Sound, TypeOK
<1>4. PICK d \in DepositTokens(pool, max, lpSupply) :
        /\ AtMost(d.tokens, wallet[u])
        /\ wallet' = [wallet EXCEPT ![u] = Minus(wallet[u], d.tokens)]
        /\ vault' = Plus(vault, d.tokens)
        /\ lpWallet' = [lpWallet EXCEPT ![u] = lpWallet[u] + d.lp]
        /\ lpSupply' = lpSupply + d.lp
        /\ pool' \in WithCurveInvariant(Deposited(pool, d.tokens))
  BY DEF DepositLiquidity
<1>5. d.tokens \in [Mints -> Nat] /\ d.lp \in Nat
  BY <1>1, <1>2, <1>3, <1>4, DepositType
<1>6. /\ Deposited(pool, d.tokens) \in PoolOver(Mints)
      /\ Deposited(pool, d.tokens).reserves
            = [m \in Mints |-> pool.reserves[m] + d.tokens[m]]
  BY <1>2, <1>5 DEF Deposited, PoolOver
<1>7. /\ pool' \in PoolOver(Mints)
      /\ pool'.reserves = [m \in Mints |-> pool.reserves[m] + d.tokens[m]]
  BY <1>4, <1>6, InvariantOnly
<1>8. vault' = [m \in Mints |-> vault[m] + d.tokens[m]]
  BY <1>3, <1>4 DEF Plus
<1>9. wallet' \in [Holders -> [Mints -> Nat]]
  <2>1. wallet[u] \in [Mints -> Nat]
    BY <1>1, <1>3
  <2>2. Minus(wallet[u], d.tokens) \in [Mints -> Nat]
    BY <1>4, <1>5, <2>1 DEF Minus, AtMost
  <2>3. QED
    BY <1>3, <1>4, <2>2
<1>10. vault' \in [Mints -> Nat] /\ lpSupply' \in Nat /\ lpWallet' \in [Holders -> Nat]
  BY <1>1, <1>3, <1>4, <1>5, <1>8
<1>11. TypeOK'
  BY <1>7, <1>9, <1>10 DEF DepositLiquidity, Sound, TypeOK, accounts
<1>12. ReservesAreBacked'
  BY <1>2, <1>3, <1>5, <1>7, <1>8 DEF ReservesAreBacked, AtMost
<1>13. QED
  BY <1>1, <1>11, <1>12 DEF Sound, HasDimension

\* A redemption takes the same from a reserve and from its vault.
LEMMA RedeemSound ==
  ASSUME Sound, NEW h \in Holders, NEW burn \in Nat, NEW min \in [Mints -> Nat],
         RedeemLiquidity(h, burn, min)
  PROVE  Sound'
<1>1. PoolExists /\ burn <= lpWallet[h] /\ burn <= lpSupply
  BY DEF RedeemLiquidity, MayBurn
<1>2. /\ pool \in PoolOver(Mints) /\ pool.reserves \in [Mints -> Nat]
      /\ \A m \in Mints : pool.reserves[m] <= vault[m]
  BY <1>1, PoolTyped
<1>3. /\ vault \in [Mints -> Nat] /\ lpSupply \in Nat /\ lpWallet \in [Holders -> Nat]
      /\ wallet \in [Holders -> [Mints -> Nat]]
  BY DEF Sound, TypeOK
<1>4. PICK t \in RedeemTokens(pool, min, burn, lpSupply) :
        /\ AtMost(t, vault)
        /\ vault' = Minus(vault, t)
        /\ wallet' = [wallet EXCEPT ![h] = Plus(wallet[h], t)]
        /\ lpWallet' = [lpWallet EXCEPT ![h] = lpWallet[h] - burn]
        /\ lpSupply' = lpSupply - burn
        /\ pool' \in WithCurveInvariant(Redeemed(pool, t))
  BY DEF RedeemLiquidity
<1>5. t \in [Mints -> Nat] /\ \A m \in Mints : t[m] <= pool.reserves[m]
  BY <1>2, <1>3, <1>4, RedeemType
<1>6. /\ Redeemed(pool, t) \in PoolOver(Mints)
      /\ Redeemed(pool, t).reserves = [m \in Mints |-> pool.reserves[m] - t[m]]
  BY <1>2, <1>5 DEF Redeemed, PoolOver
<1>7. /\ pool' \in PoolOver(Mints)
      /\ pool'.reserves = [m \in Mints |-> pool.reserves[m] - t[m]]
  BY <1>4, <1>6, InvariantOnly
<1>8. vault' = [m \in Mints |-> vault[m] - t[m]]
  BY <1>3, <1>4 DEF Minus
<1>9. wallet' \in [Holders -> [Mints -> Nat]]
  <2>1. wallet[h] \in [Mints -> Nat]
    BY <1>3
  <2>2. Plus(wallet[h], t) \in [Mints -> Nat]
    BY <1>5, <2>1 DEF Plus
  <2>3. QED
    BY <1>3, <1>4, <2>2
<1>10. vault' \in [Mints -> Nat] /\ lpSupply' \in Nat /\ lpWallet' \in [Holders -> Nat]
  BY <1>1, <1>2, <1>3, <1>4, <1>5, <1>8
<1>11. TypeOK'
  BY <1>7, <1>9, <1>10 DEF RedeemLiquidity, Sound, TypeOK, accounts
<1>12. ReservesAreBacked'
  BY <1>2, <1>3, <1>5, <1>7, <1>8 DEF ReservesAreBacked, AtMost
<1>13. QED
  BY <1>1, <1>11, <1>12 DEF Sound, HasDimension

\* The whole sale, with its fee, goes to the vault and to the reserve, and what
\* is bought leaves both.
LEMMA SwapSound ==
  ASSUME Sound, NEW u \in Users, NEW sell \in Mints, NEW buy \in Mints, NEW sold \in Nat,
         NEW minBuy \in Nat, Swap(u, sell, sold, buy, minBuy)
  PROVE  Sound'
<1> DEFINE fee == SwapFee(u, sold)
<1>1. /\ PoolExists /\ sell # buy /\ u \in Holders
      /\ sold \in 1 .. wallet[u][sell]
      /\ SwapWithFee(u, sell, sold, buy, minBuy, fee)
  BY DEF Swap, Holders
<1>2. /\ pool \in PoolOver(Mints) /\ pool.reserves \in [Mints -> Nat]
      /\ \A m \in Mints : pool.reserves[m] <= vault[m]
  BY <1>1, PoolTyped
<1>3. /\ vault \in [Mints -> Nat] /\ lpSupply \in Nat /\ lpWallet \in [Holders -> Nat]
      /\ wallet \in [Holders -> [Mints -> Nat]]
  BY DEF Sound, TypeOK
<1>4. fee \in Nat
  BY <1>1, SwapFeeType
<1>5. PICK bought \in TokensToReceive(pool, sell, sold - fee, buy) :
        SettleSwap(u, sell, sold, buy, bought, fee, Swapped(pool, sell, sold, buy, bought))
  BY <1>1 DEF SwapWithFee
<1>6. bought \in Nat /\ bought <= pool.reserves[buy]
  BY <1>2, <1>4, ReceiveType
<1> DEFINE q == Swapped(pool, sell, sold, buy, bought)
           r == [pool.reserves EXCEPT ![sell] = @ + sold, ![buy] = @ - bought]
<1>7. r \in [Mints -> Nat]
  BY <1>1, <1>2, <1>6
<1>8. q \in PoolOver(Mints) /\ q.reserves = r
  <2>1. q = [pool EXCEPT !.reserves = r]
    BY DEF Swapped
  <2>2. QED
    BY <1>2, <1>7, <2>1 DEF PoolOver
<1>9. PICK toll \in TollInLpTokens(q, fee, sell) :
        /\ lpWallet' = [lpWallet EXCEPT ![Toll] = lpWallet[Toll] + toll]
        /\ lpSupply' = lpSupply + toll
  BY <1>5 DEF SettleSwap
<1>10. toll \in Nat
  BY <1>1, <1>4, <1>8, TollType
<1>11. lpWallet' \in [Holders -> Nat] /\ lpSupply' \in Nat
  BY <1>3, <1>9, <1>10 DEF Holders
<1>12. /\ vault' = [vault EXCEPT ![sell] = @ + sold, ![buy] = @ - bought]
       /\ wallet' = [wallet EXCEPT ![u][sell] = @ - sold, ![u][buy] = @ + bought]
       /\ bought <= vault[buy]
  BY <1>5 DEF SettleSwap
<1>13. vault' \in [Mints -> Nat]
  BY <1>1, <1>3, <1>6, <1>12
<1>14. wallet' \in [Holders -> [Mints -> Nat]]
  <2>1. wallet[u] \in [Mints -> Nat]
    BY <1>1, <1>3
  <2>2. [wallet[u] EXCEPT ![sell] = @ - sold, ![buy] = @ + bought]
          \in [Mints -> Nat]
    BY <1>1, <1>6, <2>1
  <2>3. QED
    BY <1>3, <1>12, <2>2
<1>15. pool' \in PoolOver(Mints) /\ pool'.reserves = r
  BY <1>5, <1>8, InvariantOnly DEF SettleSwap
<1>16. TypeOK'
  BY <1>5, <1>11, <1>13, <1>14, <1>15 DEF SettleSwap, Sound, TypeOK, accounts
<1>17. \A m \in Mints : r[m] <= vault'[m]
  BY <1>1, <1>2, <1>3, <1>6, <1>12
<1>18. ReservesAreBacked'
  BY <1>7, <1>15, <1>17 DEF ReservesAreBacked, AtMost
<1>19. QED
  BY <1>1, <1>16, <1>18 DEF Sound, HasDimension

\* A gift only makes a vault richer.
LEMMA DonateSound ==
  ASSUME Sound, NEW u \in Users, NEW m \in Mints, NEW amount \in Nat, Donate(u, m, amount)
  PROVE  Sound'
<1>1. /\ vault \in [Mints -> Nat] /\ wallet \in [Holders -> [Mints -> Nat]] /\ u \in Holders
  BY DEF Sound, TypeOK, Holders
<1>2. /\ vault' = [vault EXCEPT ![m] = vault[m] + amount]
      /\ wallet' = [wallet EXCEPT ![u] = [wallet[u] EXCEPT ![m] = wallet[u][m] - amount]]
      /\ amount <= wallet[u][m]
  BY DEF Donate
<1>3. [wallet[u] EXCEPT ![m] = wallet[u][m] - amount] \in [Mints -> Nat]
  BY <1>1, <1>2
<1>4. vault' \in [Mints -> Nat] /\ wallet' \in [Holders -> [Mints -> Nat]]
  BY <1>1, <1>2, <1>3
<1>5. TypeOK'
  BY <1>4 DEF Donate, Sound, TypeOK, accounts, PoolExists
<1>6. pool' = pool
  BY DEF Donate
<1>7. ASSUME PoolExists PROVE \A k \in Mints : pool.reserves[k] <= vault'[k]
  <2>1. pool.reserves \in [Mints -> Nat] /\ \A k \in Mints : pool.reserves[k] <= vault[k]
    BY <1>7, PoolTyped
  <2>2. QED
    BY <1>1, <1>2, <2>1
<1>8. QED
  BY <1>5, <1>6, <1>7, PoolTyped DEF Sound, HasDimension, ReservesAreBacked, AtMost, PoolExists

\* Burning LP tokens leaves the reserves to the others.
LEMMA BurnLpSound ==
  ASSUME Sound, NEW u \in Users, NEW amount \in Nat, BurnLp(u, amount)
  PROVE  Sound'
<1>1. /\ lpWallet \in [Holders -> Nat] /\ lpSupply \in Nat /\ u \in Holders
  BY DEF Sound, TypeOK, Holders
<1>2. lpWallet' \in [Holders -> Nat] /\ lpSupply' \in Nat
  BY <1>1 DEF BurnLp
<1>3. QED
  BY <1>2 DEF BurnLp, Sound, TypeOK, HasDimension, ReservesAreBacked, AtMost, PoolExists, accounts

LEMMA NextSound ==
  ASSUME Sound, [Next]_vars
  PROVE  Sound'
<1>1. CASE CreateProgramToll
  BY <1>1, AccountsSound DEF CreateProgramToll, Sound, TypeOK
<1>2. CASE CreateDiscountSettings
  BY <1>2, AccountsSound DEF CreateDiscountSettings, Sound, TypeOK
<1>3. ASSUME NEW u \in Discounted, NEW amount \in Discounts, NEW n \in Validity,
             PutDiscount(u, amount, slot + n)
      PROVE  Sound'
  <2>1. u \in Users /\ amount \in 0 .. Dec(1) /\ slot + n \in Nat
    BY <1>3, BoundsAssumption DEF Sound, TypeOK
  <2>2. discount' \in [Users -> [amount : 0 .. Dec(1), validUntil : Nat]]
    BY <1>3, <2>1 DEF PutDiscount, Sound, TypeOK
  <2>3. QED
    BY <1>3, <2>2, AccountsSound DEF PutDiscount, Sound, TypeOK
<1>4. ASSUME NEW amp \in Amplifiers, NEW first \in Mints, CreatePool(amp, first) PROVE Sound'
  BY <1>4, CreatePoolSound
<1>5. ASSUME NEW fee \in Fees, SetPoolSwapFee(fee) PROVE Sound'
  BY <1>5, SetPoolSwapFeeSound
<1>6. ASSUME NEW u \in Users, NEW max \in MaxDeposits, DepositLiquidity(u, max) PROVE Sound'
  BY <1>6, DepositSound
<1>7. ASSUME NEW u \in Users, NEW sell \in Mints, NEW buy \in Mints, NEW sold \in SellAmounts,
             NEW n \in MinAmounts, Swap(u, sell, sold, buy, n)
      PROVE  Sound'
  BY <1>7, SwapSound, BoundsAssumption
<1>8. ASSUME NEW u \in Users, NEW m \in Mints, NEW amount \in Donations, Donate(u, m, amount)
      PROVE  Sound'
  BY <1>8, DonateSound, BoundsAssumption
<1>9. ASSUME NEW u \in Users, NEW amount \in BurnAmounts, BurnLp(u, amount) PROVE Sound'
  BY <1>9, BurnLpSound, BoundsAssumption
<1>10. ASSUME NEW h \in Holders, Redeem(h) PROVE Sound'
  <2>1. \A n \in Nat : AtLeast(n) \in [Mints -> Nat]
    BY DEF AtLeast
  <2>2. CASE RedeemAll(h)
    <3>1. lpWallet[h] \in Nat
      BY DEF Sound, TypeOK
    <3>2. QED
      BY <2>1, <2>2, <3>1, RedeemSound DEF RedeemAll
  <2>3. CASE \E burn \in BurnAmounts, n \in MinAmounts : RedeemLiquidity(h, burn, AtLeast(n))
    <3>1. PICK burn \in BurnAmounts, n \in MinAmounts : RedeemLiquidity(h, burn, AtLeast(n))
      BY <2>3
    <3>2. burn \in Nat /\ AtLeast(n) \in [Mints -> Nat]
      BY <2>1, BoundsAssumption
    <3>3. QED
      BY <3>1, <3>2, RedeemSound
  <2>4. QED
    BY <1>10, <2>2, <2>3 DEF Redeem
<1>11. CASE Tick
  BY <1>11, AccountsSound DEF Tick, accounts, Sound, TypeOK
<1>12. CASE UNCHANGED vars
  BY <1>12, AccountsSound DEF vars, accounts, Sound, TypeOK
<1>13. QED
  BY <1>1, <1>2, <1>3, <1>4, <1>5, <1>6, <1>7, <1>8, <1>9, <1>10, <1>11, <1>12
     DEF Next, OwnerNext, UserNext

LEMMA SpecSound == Spec => []Sound
BY InitSound, NextSound, PTL DEF Spec

-----------------------------------------------------------------------------
(* The theorems about the states of the program.                           *)

\* Balances, reserves, supply and accounts keep their types: no subtraction
\* that the endpoints make goes below zero.
THEOREM TypeCorrect == Spec => []TypeOK
<1>1. Sound => TypeOK
  BY DEF Sound
<1>2. QED
  BY <1>1, SpecSound, PTL

\* Whatever the mix of deposits, redemptions, swaps, fees, tolls and gifts, a
\* vault holds at least the reserve that is recorded of it.
THEOREM ReservesStayBacked == Spec => []ReservesAreBacked
<1>1. Sound => ReservesAreBacked
  BY DEF Sound
<1>2. QED
  BY <1>1, SpecSound, PTL

-----------------------------------------------------------------------------
(* The rounding of a deposit.                                              *)

\* A whole amount times a Decimal is not truncated.
LEMMA WholeTimes ==
  ASSUME NEW a \in Nat, NEW r \in Nat
  PROVE  Mul(Dec(a), r) = a * r /\ a * r \in Nat
<1>1. a * r \in Nat
  BY Products
<1>2. (a * Wad) * r = Wad * (a * r)
  BY WadAssumption
<1>3. QED
  BY <1>1, <1>2, WadAssumption DEF Mul, Dec

\* Rounding up adds less than one.
LEMMA CeilBounds ==
  ASSUME NEW a \in Nat
  PROVE  Ceil(a) \in Nat /\ a <= Wad * Ceil(a) /\ Wad * Ceil(a) <= a + Wad - 1
<1>1. a + Wad - 1 \in Nat
  BY WadAssumption
<1>2. QED
  BY <1>1, Truncates, WadAssumption DEF Ceil

\* A quotient of whole amounts, scaled back by its divisor.
LEMMA QuotientOfWhole ==
  ASSUME NEW a \in Nat, NEW b \in Nat \ {0}
  PROVE  /\ Div(Dec(a), Dec(b)) \in Nat
         /\ b * Div(Dec(a), Dec(b)) <= a * Wad
         /\ a * Wad < b * Div(Dec(a), Dec(b)) + b
<1> DEFINE r == Div(Dec(a), Dec(b))
<1>1. Dec(a) \in Nat /\ Dec(b) \in Nat \ {0} /\ a * Wad \in Nat
  BY WadAssumption, Products DEF Dec
<1>2. Dec(a) * Wad \in Nat
  BY <1>1, Products, WadAssumption
<1>3. r \in Nat /\ Dec(b) * r <= Dec(a) * Wad /\ Dec(a) * Wad < Dec(b) * r + Dec(b)
  BY <1>1, <1>2, Truncates DEF Div
<1>4. b * r \in Nat
  BY <1>3, Products
<1>5. Dec(b) * r = Wad * (b * r) /\ Dec(a) * Wad = Wad * (a * Wad) /\ Dec(b) = Wad * b
  BY <1>3, WadAssumption DEF Dec
<1>6. b * r <= a * Wad
  BY <1>1, <1>3, <1>4, <1>5, Cancels, WadAssumption
<1>7. SUFFICES ASSUME b * r + b <= a * Wad PROVE FALSE
  BY <1>1, <1>3, <1>4, <1>6
<1>8. Wad * (b * r + b) <= Wad * (a * Wad)
  BY <1>1, <1>4, <1>7, Products, WadAssumption
<1>9. Wad * (b * r + b) = Wad * (b * r) + Wad * b
  BY <1>4, WadAssumption
<1>10. Wad * (b * r) \in Nat /\ Wad * b \in Nat /\ Wad * (a * Wad) \in Nat
  BY <1>1, <1>4, Products, WadAssumption
<1>11. QED
  BY <1>3, <1>5, <1>8, <1>9, <1>10

\* What the two ratios do: the amount x of a mint is rounded up from some part
\* of its reserve, and the parts of two reserves differ by truncation only.
Part(p, r, m) == IF IsInverted(p) THEN Div(Dec(p.reserves[m]), r) ELSE Mul(Dec(p.reserves[m]), r)

LEMMA DepositIsPart ==
  ASSUME NEW p \in PoolOver(Mints), NEW max \in [Mints -> Nat], NEW supply \in Nat \ {0},
         NEW d \in DepositTokens(p, max, supply)
  PROVE  /\ p.reserves[p.first] > 0
         /\ d.lp = EligibleLpTokens(p, d.tokens, supply)
         /\ \A m \in Mints : max[m] > 0
         /\ \E r \in Nat :
              /\ \A m \in Mints : d.tokens[m] = Ceil(Part(p, r, m)) /\ Part(p, r, m) \in Nat
              /\ IsInverted(p) => r > 0 /\ \A m \in Mints : r >= InverseRatio(p, max, m)
              /\ ~IsInverted(p) =>
                   ~HasEmpty(p) /\ \A m \in Mints : r <= Ratio(p, max, m)
<1>1. p.reserves \in [Mints -> Nat]
  BY DEF PoolOver
<1>2. \A m \in Mints : max[m] > 0
  BY DEF DepositTokens
<1>3. PICK x \in ProportionalDeposit(p, max) :
        d = [tokens |-> x, lp |-> EligibleLpTokens(p, x, supply)] /\ p.reserves[p.first] > 0
  BY <1>2 DEF DepositTokens
<1>4. d.tokens = x /\ d.lp = EligibleLpTokens(p, x, supply)
  BY <1>3
<1>5. CASE IsInverted(p)
  <2>1. PICK r \in InvertedRatio(p, max) :
          x = [m \in Mints |-> Ceil(Div(Dec(p.reserves[m]), r))]
    BY <1>3, <1>5 DEF ProportionalDeposit
  <2>2. PICK k \in Mints : r = InverseRatio(p, max, k) /\ r # 0
                             /\ \A m \in Mints : r >= InverseRatio(p, max, m)
    BY <2>1 DEF InvertedRatio
  <2>3. r \in Nat
    BY <1>2, <2>2, RatioTypes
  <2>4. \A m \in Mints : Part(p, r, m) = Div(Dec(p.reserves[m]), r) /\ Part(p, r, m) \in Nat
    BY <1>1, <1>5, <2>2, <2>3, DecimalTypes DEF Part
  <2>5. QED
    BY <1>2, <1>3, <1>4, <1>5, <2>1, <2>2, <2>3, <2>4
<1>6. CASE ~IsInverted(p)
  <2>1. PICK r \in DirectRatio(p, max) :
          x = [m \in Mints |-> Ceil(Mul(Dec(p.reserves[m]), r))]
    BY <1>3, <1>6 DEF ProportionalDeposit
  <2>2. PICK k \in Mints : r = Ratio(p, max, k) /\ ~HasEmpty(p)
                             /\ \A m \in Mints : r <= Ratio(p, max, m)
    BY <2>1 DEF DirectRatio
  <2>3. r \in Nat
    BY <2>2, RatioTypes
  <2>4. \A m \in Mints : Part(p, r, m) = Mul(Dec(p.reserves[m]), r) /\ Part(p, r, m) \in Nat
    BY <1>1, <1>6, <2>3, DecimalTypes DEF Part
  <2>5. QED
    BY <1>2, <1>3, <1>4, <1>6, <2>1, <2>2, <2>3, <2>4
<1>7. QED
  BY <1>5, <1>6

\* With the direct ratio no amount exceeds the user's limit.
LEMMA DirectWithinLimit ==
  ASSUME NEW res \in Nat \ {0}, NEW lim \in Nat, NEW r \in Nat,
         r <= Div(Dec(lim), Dec(res))
  PROVE  Ceil(Mul(Dec(res), r)) <= lim
<1>1. Mul(Dec(res), r) = res * r /\ res * r \in Nat
  BY WholeTimes
<1>2. /\ Div(Dec(lim), Dec(res)) \in Nat
      /\ res * Div(Dec(lim), Dec(res)) <= lim * Wad
  BY QuotientOfWhole
<1>3. res * r <= res * Div(Dec(lim), Dec(res))
  BY <1>2, Products
<1>4. res * r <= Wad * lim
  <2>1. lim * Wad = Wad * lim /\ lim * Wad \in Nat /\ res * Div(Dec(lim), Dec(res)) \in Nat
    BY <1>2, Products, WadAssumption
  <2>2. QED
    BY <1>1, <1>2, <1>3, <2>1
<1>5. QED
  BY <1>1, <1>4, RoundsUp

\* With the inverted ratio an amount exceeds the limit by at most one, as long
\* as the ratio has at least as many units as the limit has tokens.
LEMMA InvertedWithinLimit ==
  ASSUME NEW res \in Nat, NEW lim \in Nat \ {0}, NEW q \in Nat \ {0},
         q >= Div(Dec(res), Dec(lim)), lim <= Div(Dec(res), Dec(lim))
  PROVE  Ceil(Div(Dec(res), q)) <= lim + 1
<1> DEFINE rho == Div(Dec(res), Dec(lim))
           part == Div(Dec(res), q)
<1>1. rho \in Nat /\ res * Wad < lim * rho + lim
  BY QuotientOfWhole
<1>2. Dec(res) \in Nat /\ Dec(res) * Wad \in Nat /\ res * Wad \in Nat
  BY Products, DecimalTypes, WadAssumption
<1>3. part \in Nat /\ q * part <= Dec(res) * Wad
  BY <1>2, Truncates DEF Div
<1>4. lim * rho <= lim * q
  BY <1>1, Products
<1>5. res * Wad <= lim * q + q
  <2>1. lim * rho \in Nat /\ lim * q \in Nat /\ lim <= q
    BY <1>1, Products
  <2>2. QED
    BY <1>1, <1>2, <1>4, <2>1
<1>6. Dec(res) * Wad = Wad * (res * Wad)
  BY WadAssumption DEF Dec
<1>7. Wad * (res * Wad) <= Wad * (lim * q + q)
  <2>1. lim * q + q \in Nat
    BY Products
  <2>2. QED
    BY <1>2, <1>5, <2>1, Products, WadAssumption
<1>8. Wad * (lim * q + q) = q * (Wad * (lim + 1))
  BY WadAssumption
<1>9. Wad * (lim + 1) \in Nat
  BY Products, WadAssumption
<1>10. q * part <= q * (Wad * (lim + 1))
  <2>1. q * part \in Nat /\ q * (Wad * (lim + 1)) \in Nat
    BY <1>3, <1>9, Products
  <2>2. QED
    BY <1>2, <1>3, <1>6, <1>7, <1>8, <2>1
<1>11. part <= Wad * (lim + 1)
  BY <1>3, <1>9, <1>10, Cancels
<1>12. QED
  BY <1>3, <1>11, RoundsUp

\* deposit_tokens takes at most the user's limit, or one token more.
THEOREM DepositsStayWithinLimit == Spec => []DepositStaysWithinLimit
<1>1. ASSUME Sound, PoolExists, NEW max \in MaxDeposits,
             NEW d \in DepositTokens(pool, max, lpSupply), NEW m \in Mints
      PROVE  \/ d.tokens[m] <= max[m]
             \/ IsInverted(pool) /\ (IsPrecise(pool, max, m) => d.tokens[m] = max[m] + 1)
  <2>1. /\ pool \in PoolOver(Mints) /\ pool.reserves \in [Mints -> Nat]
        /\ max \in [Mints -> Nat] /\ lpSupply \in Nat
    BY <1>1, PoolTyped, BoundsAssumption DEF Sound, TypeOK
  <2>2. d.tokens \in [Mints -> Nat]
    BY <2>1, DepositType
  <2>3. CASE lpSupply = 0
    <3>1. d.tokens = max
      BY <2>3 DEF DepositTokens
    <3>2. QED
      BY <2>1, <3>1
  <2>4. CASE lpSupply # 0
    <3>1. max[m] > 0
      BY <2>1, <2>4, DepositIsPart
    <3>2. PICK r \in Nat :
            /\ d.tokens[m] = Ceil(Part(pool, r, m))
            /\ IsInverted(pool) => r > 0 /\ r >= InverseRatio(pool, max, m)
            /\ ~IsInverted(pool) => ~HasEmpty(pool) /\ r <= Ratio(pool, max, m)
      BY <2>1, <2>4, DepositIsPart
    <3>3. CASE IsInverted(pool)
      <4>1. SUFFICES ASSUME d.tokens[m] > max[m], IsPrecise(pool, max, m)
                     PROVE  d.tokens[m] = max[m] + 1
        BY <2>1, <2>2, <3>3
      <4>2. d.tokens[m] <= max[m] + 1
        BY <2>1, <3>1, <3>2, <3>3, <4>1, InvertedWithinLimit DEF Part, InverseRatio, IsPrecise
      <4>3. QED
        BY <2>1, <2>2, <4>1, <4>2
    <3>4. CASE ~IsInverted(pool)
      <4>1. pool.reserves[m] # 0
        BY <2>1, <3>2, <3>4 DEF HasEmpty
      <4>2. QED
        BY <2>1, <3>2, <3>4, <4>1, DirectWithinLimit DEF Part, Ratio
    <3>5. QED
      BY <3>3, <3>4
  <2>5. QED
    BY <2>3, <2>4
<1>2. Sound => DepositStaysWithinLimit
  BY <1>1 DEF DepositStaysWithinLimit
<1>3. QED
  BY <1>2, SpecSound, PTL

-----------------------------------------------------------------------------
(* What a deposit is worth.                                                *)

LEMMA Scales ==
  ASSUME NEW a \in Nat, NEW b \in Int, NEW c \in Int, b <= c
  PROVE  a * b \in Int /\ a * c \in Int /\ a * b <= a * c
OBVIOUS

\* Truncation aside, the parts of two reserves are in the reserves' ratio.
LEMMA PartsAgree ==
  ASSUME NEW p \in PoolOver(Mints), NEW r \in Nat, IsInverted(p) => r > 0,
         NEW f \in Mints, NEW m \in Mints
  PROVE  /\ Part(p, r, f) \in Nat /\ Part(p, r, m) \in Nat
         /\ p.reserves[m] * Part(p, r, f) <= p.reserves[f] * (Part(p, r, m) + 1)
<1> DEFINE a == p.reserves[f]
           b == p.reserves[m]
<1>1. a \in Nat /\ b \in Nat
  BY DEF PoolOver
<1>2. CASE ~IsInverted(p)
  <2>1. /\ Part(p, r, f) = a * r /\ Part(p, r, m) = b * r
        /\ a * r \in Nat /\ b * r \in Nat
    BY <1>1, <1>2, WholeTimes DEF Part
  <2>2. b * (a * r) = a * (b * r)
    BY <1>1
  <2>3. a * (b * r) <= a * (b * r + 1)
    BY <1>1, <2>1, Scales
  <2>4. QED
    BY <2>1, <2>2, <2>3
<1>3. CASE IsInverted(p)
  <2> DEFINE x == Part(p, r, f)
             y == Part(p, r, m)
  <2>1. /\ Dec(a) * Wad \in Nat /\ Dec(b) * Wad \in Nat
        /\ Dec(a) * Wad = a * (Wad * Wad) /\ Dec(b) * Wad = b * (Wad * Wad)
    BY <1>1, Products, WadAssumption DEF Dec
  <2>2. /\ x \in Nat /\ y \in Nat
        /\ r * x <= Dec(a) * Wad /\ Dec(b) * Wad < r * y + r
    <3>1. /\ r \in Nat \ {0}
          /\ x = (Dec(a) * Wad) \div r /\ y = (Dec(b) * Wad) \div r
      BY <1>3 DEF Part, Div
    <3> HIDE DEF x, y
    <3>2. x \in Nat /\ r * x <= Dec(a) * Wad
      BY <2>1, <3>1, Truncates
    <3>3. y \in Nat /\ Dec(b) * Wad < r * y + r
      BY <2>1, <3>1, Truncates
    <3>4. QED
      BY <3>2, <3>3
  <2> HIDE DEF x, y
  <2>3. b * (r * x) <= b * (a * (Wad * Wad))
    BY <1>1, <2>1, <2>2, Scales, Products
  <2>4. a * (b * (Wad * Wad)) <= a * (r * y + r)
    BY <1>1, <2>1, <2>2, Scales, Products
  <2>5. b * (a * (Wad * Wad)) = a * (b * (Wad * Wad))
    BY <1>1, WadAssumption
  <2>6. b * (r * x) = r * (b * x) /\ a * (r * y + r) = r * (a * (y + 1))
    BY <1>1, <2>2
  <2>7. b * x \in Nat /\ a * (y + 1) \in Nat
    BY <1>1, <2>2, Products
  <2>8. r * (b * x) <= r * (a * (y + 1))
    <3>1. r * (b * x) \in Nat /\ r * (a * (y + 1)) \in Nat /\ a * (b * (Wad * Wad)) \in Nat
      BY <1>1, <2>1, <2>7, Products
    <3>2. QED
      BY <2>3, <2>4, <2>5, <2>6, <3>1
  <2>9. b * x <= a * (y + 1)
    BY <1>3, <2>7, <2>8, Cancels
  <2>10. QED
    BY <2>2, <2>9 DEF x, y
<1>4. QED
  BY <1>2, <1>3

\* rf and rm are two reserves, tf and tm what is added to them, x and y the parts
\* that were rounded up; n new LP tokens are measured by the first reserve.
LEMMA DilutionBound ==
  ASSUME NEW rf \in Nat, NEW rm \in Nat, NEW tf \in Nat, NEW tm \in Nat,
         NEW x \in Nat, NEW y \in Nat, NEW supply \in Nat, NEW n \in Nat,
         Wad * tf <= x + Wad - 1, y <= Wad * tm, rm * x <= rf * (y + 1),
         n * rf <= supply * tf
  PROVE  rf * Wad * (rm * (supply + n) - (rm + tm) * supply) <= supply * (rm * Wad + rf)
<1>1. /\ Wad * tf \in Nat /\ Wad * tm \in Nat /\ n * rf \in Nat /\ supply * tf \in Nat
      /\ rm * Wad \in Nat /\ rm * x \in Nat /\ rf * y \in Nat
  BY Products, WadAssumption
<1> DEFINE X == rm * (Wad * tf)
           Y == rf * (Wad * tm)
<1>2. X \in Nat /\ Y \in Nat
  BY <1>1, Products
<1>3. X <= rm * x + rm * Wad
  <2>1. rm * (Wad * tf) <= rm * (x + Wad)
    BY <1>1, Scales, WadAssumption
  <2>2. rm * (x + Wad) = rm * x + rm * Wad
    BY WadAssumption
  <2>3. QED
    BY <2>1, <2>2
<1>4. rf * y <= Y
  BY <1>1, Scales
<1>5. rf * (y + 1) = rf * y + rf
  OBVIOUS
<1>6. X - Y <= rm * Wad + rf
  BY <1>1, <1>2, <1>3, <1>4, <1>5
<1>7. supply * (X - Y) <= supply * (rm * Wad + rf)
  BY <1>1, <1>2, <1>6, Scales
<1>8. (Wad * rm) * (n * rf) <= (Wad * rm) * (supply * tf)
  BY <1>1, Scales, Products, WadAssumption
<1>9. rf * Wad * (rm * (supply + n) - (rm + tm) * supply)
        = (Wad * rm) * (n * rf) - supply * Y
  BY WadAssumption
<1>10. supply * (X - Y) = (Wad * rm) * (supply * tf) - supply * Y
  BY WadAssumption
<1>11. /\ (Wad * rm) * (n * rf) \in Nat /\ (Wad * rm) * (supply * tf) \in Nat
       /\ supply * Y \in Nat /\ supply * (rm * Wad + rf) \in Nat
  BY <1>1, <1>2, Products, WadAssumption
<1>12. QED
  BY <1>7, <1>8, <1>9, <1>10, <1>11

\* get_eligible_lp_tokens issues at most the first reserve's share of LP tokens.
LEMMA EligibleAtMostShare ==
  ASSUME NEW p \in PoolOver(Mints), NEW deposit \in [Mints -> Nat], NEW supply \in Nat,
         p.reserves[p.first] > 0
  PROVE  /\ EligibleLpTokens(p, deposit, supply) \in Nat
         /\ EligibleLpTokens(p, deposit, supply) * p.reserves[p.first]
               <= supply * deposit[p.first]
<1> DEFINE r == p.reserves[p.first]
           t == deposit[p.first]
           q == Div(Dec(supply * t), Dec(r))
           n == EligibleLpTokens(p, deposit, supply)
<1>1. r \in Nat \ {0} /\ t \in Nat /\ supply * t \in Nat
  BY Products DEF PoolOver
<1>2. Mul(Dec(supply), Dec(t)) = Dec(supply * t)
  <2>1. Dec(t) \in Nat
    BY <1>1, DecimalTypes
  <2>2. Mul(Dec(supply), Dec(t)) = supply * Dec(t)
    BY <2>1, WholeTimes
  <2>3. QED
    BY <1>1, <2>2, WadAssumption DEF Dec
<1>3. n = Floor(q)
  BY <1>2 DEF EligibleLpTokens, MulDiv
<1>4. q \in Nat /\ r * q <= (supply * t) * Wad
  BY <1>1, QuotientOfWhole
<1>5. n \in Nat /\ Wad * n <= q
  BY <1>3, <1>4, Truncates, WadAssumption DEF Floor
<1> HIDE DEF r, t, q, n
<1>6. r * (Wad * n) <= r * q
  BY <1>1, <1>4, <1>5, Scales, Products, WadAssumption
<1>7. r * (Wad * n) = Wad * (n * r) /\ (supply * t) * Wad = Wad * (supply * t)
  BY <1>1, <1>5, WadAssumption
<1>8. n * r \in Nat /\ Wad * (n * r) \in Nat /\ Wad * (supply * t) \in Nat /\ r * q \in Nat
  BY <1>1, <1>4, <1>5, Products, WadAssumption
<1>9. Wad * (n * r) <= Wad * (supply * t)
  BY <1>4, <1>6, <1>7, <1>8
<1>10. n * r <= supply * t
  BY <1>1, <1>8, <1>9, Cancels, WadAssumption
<1>11. QED
  BY <1>5, <1>10 DEF n, r, t

\* What a deposit does to the part that the others' LP tokens stand for.
LEMMA DepositDilutes ==
  ASSUME Sound, NEW u \in Users, NEW max \in MaxDeposits, DepositLiquidity(u, max),
         lpSupply > 0, NEW m \in Mints
  PROVE  pool.reserves[pool.first] * Wad
           * (pool.reserves[m] * lpSupply' - pool'.reserves[m] * lpSupply)
             <= lpSupply * (pool.reserves[m] * Wad + pool.reserves[pool.first])
<1>1. /\ PoolExists /\ max \in [Mints -> Nat] /\ lpSupply \in Nat \ {0}
      /\ pool \in PoolOver(Mints) /\ pool.reserves \in [Mints -> Nat] /\ pool.first \in Mints
  BY PoolTyped, BoundsAssumption DEF DepositLiquidity, Sound, TypeOK, PoolOver
<1>2. PICK d \in DepositTokens(pool, max, lpSupply) :
        /\ lpSupply' = lpSupply + d.lp
        /\ pool' \in WithCurveInvariant(Deposited(pool, d.tokens))
  BY DEF DepositLiquidity
<1>3. d.tokens \in [Mints -> Nat] /\ d.lp \in Nat
  BY <1>1, <1>2, DepositType
<1>4. /\ Deposited(pool, d.tokens) \in PoolOver(Mints)
      /\ Deposited(pool, d.tokens).reserves = [k \in Mints |-> pool.reserves[k] + d.tokens[k]]
  BY <1>1, <1>3 DEF Deposited, PoolOver
<1>5. pool'.reserves[m] = pool.reserves[m] + d.tokens[m]
  BY <1>2, <1>4, InvariantOnly
<1>6. PICK r \in Nat :
        /\ \A k \in Mints : d.tokens[k] = Ceil(Part(pool, r, k)) /\ Part(pool, r, k) \in Nat
        /\ IsInverted(pool) => r > 0
  BY <1>1, <1>2, DepositIsPart
<1> DEFINE rf == pool.reserves[pool.first]
           rm == pool.reserves[m]
           tf == d.tokens[pool.first]
           tm == d.tokens[m]
           x == Part(pool, r, pool.first)
           y == Part(pool, r, m)
<1>7. /\ rf \in Nat /\ rm \in Nat /\ tf \in Nat /\ tm \in Nat /\ x \in Nat /\ y \in Nat
      /\ tf = Ceil(x) /\ tm = Ceil(y)
  BY <1>1, <1>3, <1>6
<1>8. rm * x <= rf * (y + 1)
  BY <1>1, <1>6, PartsAgree
<1>9. rf > 0 /\ d.lp = EligibleLpTokens(pool, d.tokens, lpSupply)
  BY <1>1, <1>2, DepositIsPart
<1>10. d.lp * rf <= lpSupply * tf
  BY <1>1, <1>3, <1>9, EligibleAtMostShare
<1> HIDE DEF rf, rm, tf, tm, x, y
<1>11. Wad * tf <= x + Wad - 1 /\ y <= Wad * tm
  BY <1>7, CeilBounds
<1>12. rf * Wad * (rm * (lpSupply + d.lp) - (rm + tm) * lpSupply)
         <= lpSupply * (rm * Wad + rf)
  BY <1>1, <1>3, <1>7, <1>8, <1>10, <1>11, DilutionBound
<1>13. QED
  BY <1>2, <1>5, <1>12 DEF rf, rm, tf, tm

\* The LP tokens of a user are only increased by a deposit of that user.
LEMMA OnlyDepositsIssue ==
  ASSUME Sound, [Next]_vars, NEW u \in Users, lpWallet'[u] > lpWallet[u]
  PROVE  \E max \in MaxDeposits, w \in Users : DepositLiquidity(w, max)
<1>1. /\ lpWallet \in [Holders -> Nat] /\ lpWallet[u] \in Nat /\ u \in Holders /\ u # Toll
  BY TollAssumption DEF Sound, TypeOK, Holders
<1>2. lpWallet' # lpWallet
  BY <1>1
<1>3. CASE \E h \in Holders : Redeem(h)
  <2>1. PICK h \in Holders : Redeem(h)
    BY <1>3
  <2>2. PICK burn : burn \in Nat /\ lpWallet' = [lpWallet EXCEPT ![h] = lpWallet[h] - burn]
    BY <1>1, <2>1, BoundsAssumption DEF Redeem, RedeemAll, RedeemLiquidity
  <2>3. QED
    BY <1>1, <2>1, <2>2
<1>4. ASSUME NEW w \in Users, NEW amount \in BurnAmounts, BurnLp(w, amount) PROVE FALSE
  <2>1. amount \in Nat /\ lpWallet' = [lpWallet EXCEPT ![w] = lpWallet[w] - amount]
    BY <1>4, BoundsAssumption DEF BurnLp
  <2>2. QED
    BY <1>1, <2>1 DEF Holders
<1>5. ASSUME NEW w \in Users, NEW sell \in Mints, NEW buy \in Mints, NEW sold \in SellAmounts,
             NEW n \in MinAmounts, Swap(w, sell, sold, buy, n)
      PROVE  FALSE
  <2>1. PICK toll : lpWallet' = [lpWallet EXCEPT ![Toll] = lpWallet[Toll] + toll]
    BY <1>5 DEF Swap, SwapWithFee, SettleSwap
  <2>2. QED
    BY <1>1, <2>1
<1>6. ASSUME NEW w \in Users, NEW m \in Mints, NEW amount \in Donations, Donate(w, m, amount)
      PROVE  FALSE
  BY <1>2, <1>6 DEF Donate
<1>7. ~OwnerNext /\ ~Tick /\ ~UNCHANGED vars
  BY <1>2 DEF OwnerNext, CreateProgramToll, CreateDiscountSettings, PutDiscount, CreatePool,
              SetPoolSwapFee, Tick, tokens, vars
<1>8. QED
  BY <1>3, <1>4, <1>5, <1>6, <1>7 DEF Next, UserNext

\* A deposit takes at most what one token of the first reserve is worth from the
\* parts of the others, whichever of the two ratios decides it.
THEOREM DepositsDilute == Spec => DepositDilutesByOneToken
<1>1. ASSUME Sound, [Next]_vars, NEW u \in Users, lpWallet'[u] > lpWallet[u], lpSupply > 0,
             NEW m \in Mints
      PROVE  pool.reserves[pool.first] * Wad
               * (pool.reserves[m] * lpSupply' - pool'.reserves[m] * lpSupply)
                 <= lpSupply * (pool.reserves[m] * Wad + pool.reserves[pool.first])
  BY <1>1, OnlyDepositsIssue, DepositDilutes
<1> DEFINE Dilutes ==
      \A u \in Users : lpWallet'[u] > lpWallet[u] /\ lpSupply > 0 =>
        LET old == pool.reserves
            new == pool'.reserves
        IN  \A m \in Mints :
              old[pool.first] * Wad * (old[m] * lpSupply' - new[m] * lpSupply)
                <= lpSupply * (old[m] * Wad + old[pool.first])
<1>2. Sound /\ [Next]_vars => Dilutes
  BY <1>1
<1>3. Sound /\ [Next]_vars => [Dilutes]_vars
  BY <1>2
<1> HIDE DEF Dilutes
<1>4. Spec => [][Dilutes]_vars
  BY <1>3, SpecSound, PTL DEF Spec
<1>5. QED
  BY <1>4 DEF Dilutes, DepositDilutesByOneToken

\* swap.rs takes the fee off the sale with an unchecked subtraction: it never
\* goes below zero, whatever the discount and the rounding up of the fee.
THEOREM FeeIsPartOfSale == Spec => []FeeFitsSale
<1>1. Sound => FeeFitsSale
  BY SwapFeeType, BoundsAssumption DEF FeeFitsSale
<1>2. QED
  BY <1>1, SpecSound, PTL

USE MintsAssumption, UsersAssumption

-----------------------------------------------------------------------------
(* What the actions that move liquidity do to a pool.                      *)

\* A well-typed pool is an account that exists.
LEMMA TypedPoolExists ==
  ASSUME pool' \in PoolOver(Mints)
  PROVE  PoolExists'
BY NoneAssumption DEF PoolExists

\* The curve's invariant is computed again from the reserves.
Recomputed == \E p \in PoolOver(Mints) : pool' \in WithCurveInvariant(p)

LEMMA DepositEffect ==
  ASSUME Sound, NEW u \in Users, NEW max \in MaxDeposits, DepositLiquidity(u, max)
  PROVE  /\ PoolExists /\ PoolExists'
         /\ pool'.amp = pool.amp
         /\ Recomputed
         /\ \E d \in DepositTokens(pool, max, lpSupply) :
              /\ d.tokens \in [Mints -> Nat] /\ d.lp \in Nat \ {0}
              /\ lpSupply = 0 => \A m \in Mints : d.tokens[m] > 0
              /\ lpSupply > 0 =>
                   d.lp * pool.reserves[pool.first] <= lpSupply * d.tokens[pool.first]
              /\ pool'.reserves = [m \in Mints |-> pool.reserves[m] + d.tokens[m]]
              /\ lpWallet' = [lpWallet EXCEPT ![u] = lpWallet[u] + d.lp]
              /\ lpSupply' = lpSupply + d.lp
<1>1. PoolExists /\ max \in [Mints -> Nat] /\ lpSupply \in Nat
  BY BoundsAssumption DEF DepositLiquidity, Sound, TypeOK
<1>2. pool \in PoolOver(Mints) /\ pool.reserves \in [Mints -> Nat]
  BY <1>1, PoolTyped
<1>3. PICK d \in DepositTokens(pool, max, lpSupply) :
        /\ d.lp > 0
        /\ lpWallet' = [lpWallet EXCEPT ![u] = lpWallet[u] + d.lp]
        /\ lpSupply' = lpSupply + d.lp
        /\ pool' \in WithCurveInvariant(Deposited(pool, d.tokens))
  BY DEF DepositLiquidity
<1>4. d.tokens \in [Mints -> Nat] /\ d.lp \in Nat
  BY <1>1, <1>2, <1>3, DepositType
<1>5. /\ Deposited(pool, d.tokens) \in PoolOver(Mints)
      /\ Deposited(pool, d.tokens).reserves = [m \in Mints |-> pool.reserves[m] + d.tokens[m]]
      /\ Deposited(pool, d.tokens).amp = pool.amp
  BY <1>2, <1>4 DEF Deposited, PoolOver
<1>6. /\ pool' \in PoolOver(Mints)
      /\ pool'.reserves = [m \in Mints |-> pool.reserves[m] + d.tokens[m]]
      /\ pool'.amp = pool.amp
  BY <1>3, <1>5, InvariantOnly
<1>7. d.lp \in Nat \ {0} /\ PoolExists'
  BY <1>3, <1>4, <1>6, TypedPoolExists
<1>8. lpSupply = 0 => \A m \in Mints : d.tokens[m] > 0
  <2>1. SUFFICES ASSUME lpSupply = 0 PROVE d.tokens = max /\ \A m \in Mints : max[m] > 0
    OBVIOUS
  <2>2. DOMAIN max = Mints /\ \A m \in Mints : max[m] \in Nat
    BY <1>1
  <2>3. QED
    BY <2>1, <2>2 DEF DepositTokens
<1>9. ASSUME lpSupply > 0
      PROVE  d.lp * pool.reserves[pool.first] <= lpSupply * d.tokens[pool.first]
  <2>1. pool.reserves[pool.first] > 0 /\ d.lp = EligibleLpTokens(pool, d.tokens, lpSupply)
    BY <1>1, <1>2, <1>3, <1>9, DepositIsPart
  <2>2. QED
    BY <1>1, <1>2, <1>4, <2>1, EligibleAtMostShare
<1>10. Recomputed
  BY <1>3, <1>5 DEF Recomputed
<1>11. QED
  BY <1>1, <1>3, <1>4, <1>6, <1>7, <1>8, <1>9, <1>10

\* A holder's LP tokens are burned for tokens of the reserves.
Redeems(h, burn, min) ==
  /\ PoolExists /\ PoolExists'
  /\ pool'.amp = pool.amp
  /\ Recomputed
  /\ burn <= lpWallet[h] /\ burn <= lpSupply /\ lpSupply > 0
  /\ lpWallet' = [lpWallet EXCEPT ![h] = lpWallet[h] - burn]
  /\ lpSupply' = lpSupply - burn
  /\ \E t \in RedeemTokens(pool, min, burn, lpSupply) :
       /\ t \in [Mints -> Nat]
       /\ pool'.reserves = [m \in Mints |-> pool.reserves[m] - t[m]]

LEMMA RedeemEffect ==
  ASSUME Sound, NEW h \in Holders, NEW burn \in Nat, NEW min \in [Mints -> Nat],
         RedeemLiquidity(h, burn, min)
  PROVE  Redeems(h, burn, min)
<1>1. PoolExists /\ burn <= lpWallet[h] /\ burn <= lpSupply /\ lpSupply \in Nat
  BY DEF RedeemLiquidity, MayBurn, Sound, TypeOK
<1>2. pool \in PoolOver(Mints) /\ pool.reserves \in [Mints -> Nat]
  BY <1>1, PoolTyped
<1>3. PICK t \in RedeemTokens(pool, min, burn, lpSupply) :
        /\ lpWallet' = [lpWallet EXCEPT ![h] = lpWallet[h] - burn]
        /\ lpSupply' = lpSupply - burn
        /\ pool' \in WithCurveInvariant(Redeemed(pool, t))
  BY DEF RedeemLiquidity
<1>4. t \in [Mints -> Nat] /\ \A m \in Mints : t[m] <= pool.reserves[m]
  BY <1>1, <1>2, <1>3, RedeemType
<1>5. /\ Redeemed(pool, t) \in PoolOver(Mints)
      /\ Redeemed(pool, t).reserves = [m \in Mints |-> pool.reserves[m] - t[m]]
      /\ Redeemed(pool, t).amp = pool.amp
  BY <1>2, <1>4 DEF Redeemed, PoolOver
<1>6. /\ pool' \in PoolOver(Mints)
      /\ pool'.reserves = [m \in Mints |-> pool.reserves[m] - t[m]]
      /\ pool'.amp = pool.amp
  BY <1>3, <1>5, InvariantOnly
<1>7. lpSupply > 0
  BY <1>1, <1>3 DEF RedeemTokens
<1>8. Recomputed
  BY <1>3, <1>5 DEF Recomputed
<1>9. QED
  BY <1>1, <1>3, <1>4, <1>6, <1>7, <1>8, TypedPoolExists DEF Redeems

LEMMA SwapEffect ==
  ASSUME Sound, NEW u \in Users, NEW sell \in Mints, NEW buy \in Mints, NEW sold \in Nat,
         NEW minBuy \in Nat, Swap(u, sell, sold, buy, minBuy)
  PROVE  /\ PoolExists /\ PoolExists'
         /\ pool'.amp = pool.amp
         /\ Recomputed
         /\ lpSupply > 0 /\ sell # buy /\ sold > 0
         /\ SwapFee(u, sold) \in Nat /\ SwapFee(u, sold) <= sold
         /\ \E bought \in TokensToReceive(pool, sell, sold - SwapFee(u, sold), buy) :
              pool'.reserves = [pool.reserves EXCEPT ![sell] = @ + sold, ![buy] = @ - bought]
         /\ \E toll \in Nat :
              /\ lpWallet' = [lpWallet EXCEPT ![Toll] = lpWallet[Toll] + toll]
              /\ lpSupply' = lpSupply + toll
<1> DEFINE fee == SwapFee(u, sold)
<1>1. /\ PoolExists /\ sell # buy /\ sold > 0 /\ lpSupply > 0
      /\ SwapWithFee(u, sell, sold, buy, minBuy, fee)
  BY DEF Swap
<1>2. pool \in PoolOver(Mints) /\ pool.reserves \in [Mints -> Nat]
  BY <1>1, PoolTyped
<1>3. fee \in Nat /\ fee <= sold
  BY <1>1, SwapFeeType
<1>4. PICK bought \in TokensToReceive(pool, sell, sold - fee, buy) :
        SettleSwap(u, sell, sold, buy, bought, fee, Swapped(pool, sell, sold, buy, bought))
  BY <1>1 DEF SwapWithFee
<1>5. bought \in Nat /\ bought <= pool.reserves[buy]
  BY <1>2, <1>3, ReceiveType
<1> DEFINE q == Swapped(pool, sell, sold, buy, bought)
           r == [pool.reserves EXCEPT ![sell] = @ + sold, ![buy] = @ - bought]
<1>6. r \in [Mints -> Nat]
  BY <1>1, <1>2, <1>5
<1>7. q \in PoolOver(Mints) /\ q.reserves = r /\ q.amp = pool.amp
  <2>1. q = [pool EXCEPT !.reserves = r]
    BY DEF Swapped
  <2>2. QED
    BY <1>2, <1>6, <2>1 DEF PoolOver
<1>8. PICK toll \in TollInLpTokens(q, fee, sell) :
        /\ lpWallet' = [lpWallet EXCEPT ![Toll] = lpWallet[Toll] + toll]
        /\ lpSupply' = lpSupply + toll
  BY <1>4 DEF SettleSwap
<1>9. toll \in Nat
  BY <1>1, <1>3, <1>7, TollType
<1>10. pool' \in PoolOver(Mints) /\ pool'.reserves = r /\ pool'.amp = pool.amp
  BY <1>4, <1>7, InvariantOnly DEF SettleSwap
<1>11. Recomputed
  BY <1>4, <1>7 DEF SettleSwap, Recomputed
<1>12. QED
  BY <1>1, <1>3, <1>4, <1>8, <1>9, <1>10, <1>11, TypedPoolExists

-----------------------------------------------------------------------------
(* The arithmetic of a swap on a constant product curve.                   *)

\* When the product of the reserves is divided by that of the others after the
\* deposit, and the quotient is what stays of the bought reserve, something
\* stays, and the product shrinks by less than one part in Wad of the others.
LEMMA SwapKeepsProduct ==
  ASSUME NEW rb \in Nat \ {0}, NEW q \in Nat \ {0}, NEW o \in Nat \ {0}, NEW o2 \in Nat,
         o < 2 * q, o <= o2,
         NEW bought \in Nat, Div(Dec(rb * q), Dec(o)) <= Dec(rb),
         bought = Floor(Dec(rb) - Div(Dec(rb * q), Dec(o)))
  PROVE  /\ bought < rb
         /\ ((rb - bought) * o2) * Wad >= (rb * q) * Wad - o2
<1> DEFINE after == Div(Dec(rb * q), Dec(o))
           p == rb * q
<1>1. /\ p \in Nat /\ p >= q
  BY Products
<1>2. /\ after \in Nat
      /\ o * after <= p * Wad
      /\ p * Wad < o * after + o
  BY <1>1, QuotientOfWhole
<1> HIDE DEF after, p
<1>3. Wad \in Nat /\ Wad >= 2 /\ p * Wad \in Nat /\ p * Wad >= p * 2
  BY <1>1, WadAssumption, Scales
<1>4. after > 0
  <2>1. SUFFICES ASSUME after = 0 PROVE FALSE
    BY <1>2
  <2>2. o * after = 0
    BY <2>1
  <2>3. QED
    BY <1>1, <1>2, <1>3, <2>2
<1>5. /\ Dec(rb) = rb * Wad /\ rb * Wad \in Nat /\ rb * Wad - after \in Nat
      /\ bought = (rb * Wad - after) \div Wad
  BY <1>2, <1>3 DEF Floor, Dec, after
<1>6. Wad * bought <= rb * Wad - after
  BY <1>3, <1>5, Truncates
<1>7. bought < rb
  <2>1. Wad * bought < Wad * rb
    BY <1>2, <1>3, <1>4, <1>5, <1>6
  <2>2. SUFFICES ASSUME bought >= rb PROVE FALSE
    OBVIOUS
  <2>3. Wad * rb <= Wad * bought
    BY <1>3, <2>2, Scales
  <2>4. QED
    BY <1>3, <2>1, <2>3
<1> DEFINE left == rb - bought
<1>8. left \in Nat /\ after <= Wad * left
  <2>1. Wad * left = rb * Wad - Wad * bought
    BY <1>3
  <2>2. Wad * bought \in Nat
    BY <1>3
  <2>3. left \in Nat
    BY <1>7
  <2>4. QED
    BY <1>2, <1>5, <1>6, <2>1, <2>2, <2>3
<1>9. after * o2 <= (Wad * left) * o2
  BY <1>2, <1>3, <1>8, Scales
<1>10. p * Wad <= (after + 1) * o2
  <2>1. o * after + o = (after + 1) * o
    BY <1>2
  <2>2. (after + 1) * o <= (after + 1) * o2
    BY <1>2, Scales
  <2>3. QED
    BY <1>1, <1>2, <1>3, <2>1, <2>2
<1>11. (after + 1) * o2 = after * o2 + o2
  BY <1>2
<1>12. (left * o2) * Wad = (Wad * left) * o2
  BY <1>3, <1>8
<1>13. (left * o2) * Wad >= p * Wad - o2
  BY <1>2, <1>3, <1>8, <1>9, <1>10, <1>11, <1>12
<1>14. QED
  BY <1>7, <1>13 DEF p

\* What is added to one factor is multiplied by the others.
GrowsAt(e, f, S, s, k) ==
  /\ e[s] = f[s] + k
  /\ \A m \in S : f[m] \in Nat /\ (m # s => e[m] = f[m])

LEMMA FactorGrows ==
  ASSUME NEW S, NEW s \in S, NEW k \in Nat, NEW f, NEW e, IsFiniteSet(S), GrowsAt(e, f, S, s, k)
  PROVE  ProductFunctionOnSet(e, S)
           = ProductFunctionOnSet(f, S) + k * ProductFunctionOnSet(f, S \ {s})
<1> DEFINE c == ProductFunctionOnSet(f, S \ {s})
<1>1. \A m \in S : f[m] \in Nat /\ e[m] \in Nat
  BY DEF GrowsAt
<1>2. ProductFunctionOnSet(f, S) = f[s] * c /\ c \in Nat
  BY <1>1, ProductUnfolds
<1>3. ProductFunctionOnSet(e, S) = e[s] * ProductFunctionOnSet(e, S \ {s})
  BY <1>1, ProductUnfolds
<1>4. ProductFunctionOnSet(e, S \ {s}) = c
  <2>1. IsFiniteSet(S \ {s}) /\ \A m \in S \ {s} : f[m] \in Nat /\ e[m] = f[m]
    BY FS_Subset DEF GrowsAt
  <2>2. QED
    BY <2>1, ProductSame
<1> HIDE DEF c
<1>5. (f[s] + k) * c = f[s] * c + k * c
  BY <1>1, <1>2
<1>6. QED
  BY <1>2, <1>3, <1>4, <1>5 DEF c, GrowsAt

LEMMA ProductOverAll ==
  ASSUME NEW f
  PROVE  Product(f) = ProductFunctionOnSet(f, DOMAIN f)
BY DEF Product, ProductFunctionOnSet, FoldFunction

\* calculate_swap on a constant product curve: no reserve is emptied, and the
\* product of the reserves is kept.
SettlesTo(r, sell, sold, buy, bought, after) ==
  /\ after[sell] = r[sell] + sold /\ after[buy] = r[buy] - bought
  /\ \A m \in Mints \ {sell, buy} : after[m] = r[m]

LEMMA ConstProdSwap ==
  ASSUME NEW p \in PoolOver(Mints), IsConstProd(p),
         NEW sell \in Mints, NEW buy \in Mints, sell # buy,
         NEW sold \in Nat, NEW n \in Nat, n <= sold,
         NEW bought \in TokensToReceive(p, sell, n, buy),
         NEW after \in [Mints -> Int], SettlesTo(p.reserves, sell, sold, buy, bought, after)
  PROVE  /\ after \in [Mints -> Nat \ {0}]
         /\ Product(after) * Wad
              >= Product(p.reserves) * Wad - ProductFunctionOnSet(after, Mints \ {buy})
<1> DEFINE r == p.reserves
           others == OtherReserves(p, sell, n, buy)
           Rest == DOMAIN others
           q  == ProductFunctionOnSet(r, Rest)
           c  == ProductFunctionOnSet(r, Rest \ {sell})
           o  == ProductFunctionOnSet(others, Rest)
           o2 == ProductFunctionOnSet(after, Rest)
<1>1. r \in [Mints -> Nat] /\ DOMAIN r = Mints
  BY DEF PoolOver
<1>2. \A m \in Mints : r[m] \in Nat \ {0}
  BY <1>1 DEF TokensToReceive, HasEmpty
<1>3. n < r[sell]
  BY <1>1, <1>2 DEF TokensToReceive
<1>4. /\ Rest = Mints \ {buy} /\ others[sell] = r[sell] + n
      /\ \A m \in Mints \ {sell, buy} : others[m] = r[m]
  BY <1>1 DEF OtherReserves
<1>5. /\ Div(Dec(Product(r)), Dec(Product(others))) <= Dec(r[buy])
      /\ bought = Floor(Dec(r[buy]) - Div(Dec(Product(r)), Dec(Product(others))))
  BY DEF TokensToReceive, BoughtBalanceAfter
<1>6. bought \in Nat /\ bought <= r[buy]
  BY ReceiveType
<1>7. /\ after \in [Mints -> Nat] /\ DOMAIN after = Mints
      /\ after[sell] = r[sell] + sold /\ after[buy] = r[buy] - bought
      /\ \A m \in Mints \ {sell, buy} : after[m] = r[m]
  BY <1>1, <1>6 DEF SettlesTo
<1>8. Product(r) = ProductFunctionOnSet(r, Mints) /\ Product(others) = o
  BY <1>1, <1>4, ProductOverAll
<1>9. Product(after) = ProductFunctionOnSet(after, Mints)
  BY <1>7, ProductOverAll
<1> HIDE DEF r, others
<1> HIDE DEF Rest
<1>10. IsFiniteSet(Rest) /\ IsFiniteSet(Rest \ {sell}) /\ sell \in Rest /\ Rest \subseteq Mints
  BY <1>4, FS_Subset
<1>11. c \in Nat \ {0} /\ q \in Nat \ {0}
  BY <1>2, <1>10, ProductPositive
<1>12. q = r[sell] * c
  BY <1>2, <1>10, ProductUnfolds
<1>13. o = q + n * c
  <2>1. GrowsAt(others, r, Rest, sell, n)
    BY <1>2, <1>4 DEF GrowsAt
  <2>2. QED
    BY <1>10, <2>1, FactorGrows
<1>14. o2 = q + sold * c
  <2>1. GrowsAt(after, r, Rest, sell, sold)
    BY <1>2, <1>4, <1>7, <1>10 DEF GrowsAt
  <2>2. QED
    BY <1>10, <2>1, FactorGrows
<1>15. Product(r) = r[buy] * q
  <2>1. \A m \in Mints : r[m] \in Nat
    BY <1>2
  <2>2. QED
    BY <1>4, <1>8, <2>1, ProductUnfolds DEF q
<1>16. Product(after) = after[buy] * o2
  <2>1. \A m \in Mints : after[m] \in Nat
    BY <1>7
  <2>2. QED
    BY <1>4, <1>9, <2>1, ProductUnfolds DEF o2
<1> HIDE DEF q, c, o, o2
<1>17. o \in Nat \ {0} /\ o < 2 * q /\ o2 \in Nat /\ o <= o2
  <2>1. n * c \in Nat /\ sold * c \in Nat /\ n * c <= sold * c /\ n * c < r[sell] * c
    <3>1. c * n <= c * sold /\ c * (n + 1) <= c * r[sell]
      BY <1>2, <1>3, <1>11, Scales
    <3>2. QED
      BY <1>2, <1>3, <1>11, <3>1
  <2>2. QED
    BY <1>11, <1>12, <1>13, <1>14, <2>1
<1>18. bought < r[buy] /\ ((r[buy] - bought) * o2) * Wad >= (r[buy] * q) * Wad - o2
  <2>1. r[buy] \in Nat \ {0}
    BY <1>2
  <2>2. Div(Dec(r[buy] * q), Dec(o)) <= Dec(r[buy])
        /\ bought = Floor(Dec(r[buy]) - Div(Dec(r[buy] * q), Dec(o)))
    BY <1>5, <1>8, <1>15
  <2>3. QED
    BY <1>6, <1>11, <1>17, <2>1, <2>2, SwapKeepsProduct
<1>19. \A m \in Mints : after[m] \in Nat \ {0}
  BY <1>2, <1>6, <1>7, <1>18
<1>20. QED
  BY <1>4, <1>7, <1>15, <1>16, <1>18, <1>19 DEF r, o2

\* A redemption that leaves LP tokens leaves some of every reserve, and one that
\* does not leaves nothing.
LEMMA RedemptionLeaves ==
  ASSUME NEW p \in PoolOver(Mints), NEW min \in [Mints -> Nat], NEW burn \in Nat,
         NEW supply \in Nat \ {0}, NEW t \in RedeemTokens(p, min, burn, supply), NEW m \in Mints
  PROVE  /\ burn < supply /\ p.reserves[m] > 0 => t[m] < p.reserves[m]
         /\ burn = supply => t[m] = p.reserves[m]
<1> DEFINE r == p.reserves[m]
<1>1. r \in Nat
  BY DEF PoolOver
<1>2. t[m] \in Nat /\ t[m] <= r /\ t[m] * supply <= r * burn
  BY RedeemType
<1>3. ASSUME burn < supply, r > 0 PROVE t[m] < r
  <2>1. r * burn < r * supply
    BY <1>1, <1>3
  <2>2. QED
    BY <1>1, <1>2, <1>3, <2>1
<1>4. ASSUME burn = supply PROVE t[m] = r
  <2>1. t[m] = Floor(Mul(Dec(r), Div(Dec(supply), Dec(supply))))
    BY <1>1, <1>4 DEF RedeemTokens, TokensToRedeem, PoolOver
  <2>2. Div(Dec(supply), Dec(supply)) = Wad
    <3>1. Wad \in Nat \ {0} /\ supply * Wad \in Nat \ {0}
      BY WadAssumption
    <3>2. (supply * Wad) * Wad = Wad * (supply * Wad)
      BY <3>1
    <3>3. \A a \in Nat, b \in Nat \ {0} : (a * b) \div b = a
      <4>1. SUFFICES ASSUME NEW a \in Nat, NEW b \in Nat \ {0} PROVE (a * b) \div b = a
        OBVIOUS
      <4>2. a * b \in Nat
        OBVIOUS
      <4>3. (a * b) \div b \in Nat /\ b * ((a * b) \div b) <= a * b
            /\ a * b < b * ((a * b) \div b) + b
        BY <4>2, Truncates
      <4> DEFINE d == (a * b) \div b
      <4> HIDE DEF d
      <4>4. d \in Nat /\ b * d <= a * b /\ a * b < b * d + b
        BY <4>3 DEF d
      <4>5. b * d <= b * a /\ b * a < b * (d + 1)
        BY <4>4
      <4>6. d <= a /\ a < d + 1
        BY <4>4, <4>5, Cancels
      <4>7. QED
        BY <4>4, <4>6 DEF d
    <3>4. QED
      BY <3>1, <3>2, <3>3 DEF Div, Dec
  <2>3. Mul(Dec(r), Wad) = Dec(r) /\ Floor(Dec(r)) = r
    <3>1. \A a \in Nat : (a * Wad) \div Wad = a
      <4>1. SUFFICES ASSUME NEW a \in Nat PROVE (a * Wad) \div Wad = a
        OBVIOUS
      <4>2. Wad \in Nat \ {0}
        BY WadAssumption
      <4>3. QED
        BY <4>2
    <3>2. Dec(r) \in Nat
      BY <1>1, WadAssumption DEF Dec
    <3>3. QED
      BY <1>1, <3>1, <3>2 DEF Mul, Floor, Dec
  <2>4. QED
    BY <2>1, <2>2, <2>3
<1>5. QED
  BY <1>3, <1>4

-----------------------------------------------------------------------------
(* The steps that concern the liquidity providers.                         *)

\* The reserves, the LP tokens and the curve stay what they are.
Aside ==
  /\ UNCHANGED <<vault, lpSupply, lpWallet>>
  /\ PoolExists' <=> PoolExists
  /\ PoolExists => /\ pool'.reserves = pool.reserves /\ pool'.amp = pool.amp
                   /\ pool'.invariant = pool.invariant

LEMMA StepCases ==
  ASSUME Sound, [Next]_vars
  PROVE  \/ \E amp \in Amplifiers, first \in Mints : CreatePool(amp, first)
         \/ \E u \in Users, max \in MaxDeposits : DepositLiquidity(u, max)
         \/ \E h \in Holders, burn \in Nat, min \in [Mints -> Nat] : RedeemLiquidity(h, burn, min)
         \/ \E u \in Users, sell, buy \in Mints, sold, minBuy \in Nat :
              Swap(u, sell, sold, buy, minBuy)
         \/ \E u \in Users, m \in Mints, amount \in Nat : Donate(u, m, amount)
         \/ \E u \in Users, amount \in Nat : BurnLp(u, amount)
         \/ Aside
<1>1. CASE CreateProgramToll \/ CreateDiscountSettings \/ Tick \/ UNCHANGED vars
  BY <1>1 DEF CreateProgramToll, CreateDiscountSettings, Tick, vars, tokens, Aside, PoolExists
<1>2. ASSUME NEW u \in Discounted, NEW amount \in Discounts, NEW n \in Validity,
             PutDiscount(u, amount, slot + n)
      PROVE  Aside
  BY <1>2 DEF PutDiscount, tokens, Aside, PoolExists
<1>3. ASSUME NEW fee \in Fees, SetPoolSwapFee(fee) PROVE Aside
  <2>1. pool \in PoolOver(Mints) /\ PoolExists /\ pool' = [pool EXCEPT !.swapFee = fee]
    BY <1>3, PoolTyped DEF SetPoolSwapFee
  <2>2. pool' \in PoolOver(Mints)
    <3>1. fee \in 0 .. Dec(1)
      BY <1>3, BoundsAssumption, MaxSwapFeeAssumption, WadAssumption DEF SetPoolSwapFee, Dec
    <3>2. QED
      BY <2>1, <3>1 DEF PoolOver
  <2>3. /\ pool'.reserves = pool.reserves /\ pool'.amp = pool.amp
        /\ pool'.invariant = pool.invariant
    BY <2>1 DEF PoolOver
  <2>4. QED
    BY <1>3, <2>1, <2>2, <2>3, TypedPoolExists DEF SetPoolSwapFee, tokens, Aside
<1>4. ASSUME NEW h \in Holders, Redeem(h)
      PROVE  \E burn \in Nat, min \in [Mints -> Nat] : RedeemLiquidity(h, burn, min)
  <2>1. \A n \in Nat : AtLeast(n) \in [Mints -> Nat]
    BY DEF AtLeast
  <2>2. lpWallet[h] \in Nat /\ 0 \in Nat
    BY DEF Sound, TypeOK
  <2>3. QED
    BY <1>4, <2>1, <2>2, BoundsAssumption DEF Redeem, RedeemAll
<1>5. QED
  BY <1>1, <1>2, <1>3, <1>4, BoundsAssumption DEF Next, OwnerNext, UserNext

-----------------------------------------------------------------------------
(* No reserve runs dry.                                                    *)

Keeps == Sound /\ NoReserveRunsDry

\* A swap on a constant product curve, as the reserves see it.
LEMMA SwapOfReserves ==
  ASSUME Sound, NEW u \in Users, NEW sell \in Mints, NEW buy \in Mints, NEW sold \in Nat,
         NEW minBuy \in Nat, Swap(u, sell, sold, buy, minBuy)
  PROVE  /\ pool'.reserves \in [Mints -> Nat]
         /\ pool'.reserves[sell] = pool.reserves[sell] + sold
         /\ pool'.reserves[buy] <= pool.reserves[buy]
         /\ \A m \in Mints \ {sell, buy} : pool'.reserves[m] = pool.reserves[m]
         /\ IsConstProd(pool) =>
              /\ pool'.reserves \in [Mints -> Nat \ {0}]
              /\ Product(pool'.reserves) * Wad >= Product(pool.reserves) * Wad
                    - ProductFunctionOnSet(pool'.reserves, Mints \ {buy})
<1> DEFINE r == pool.reserves
           n == sold - SwapFee(u, sold)
<1>1. /\ PoolExists /\ sell # buy /\ SwapFee(u, sold) \in Nat /\ SwapFee(u, sold) <= sold
  BY SwapEffect
<1>2. PICK bought \in TokensToReceive(pool, sell, n, buy) :
        pool'.reserves = [r EXCEPT ![sell] = @ + sold, ![buy] = @ - bought]
  BY SwapEffect
<1>3. n \in Nat /\ n <= sold
  BY <1>1
<1> HIDE DEF n
<1>4. pool \in PoolOver(Mints) /\ r \in [Mints -> Nat]
  BY <1>1, PoolTyped
<1>5. bought \in Nat /\ bought <= r[buy]
  BY <1>3, <1>4, ReceiveType
<1>6. /\ pool'.reserves \in [Mints -> Nat]
      /\ pool'.reserves[sell] = r[sell] + sold
      /\ pool'.reserves[buy] = r[buy] - bought
      /\ \A m \in Mints \ {sell, buy} : pool'.reserves[m] = r[m]
  BY <1>1, <1>2, <1>4, <1>5
<1> DEFINE after == pool'.reserves
<1>7. after \in [Mints -> Int]
  BY <1>6
<1>8. ASSUME IsConstProd(pool)
      PROVE  /\ after \in [Mints -> Nat \ {0}]
             /\ Product(after) * Wad
                  >= Product(r) * Wad - ProductFunctionOnSet(after, Mints \ {buy})
  <2>1. SettlesTo(pool.reserves, sell, sold, buy, bought, after)
    BY <1>6 DEF SettlesTo
  <2> HIDE DEF after
  <2>2. QED
    BY <1>1, <1>3, <1>4, <1>7, <1>8, <2>1, ConstProdSwap
<1>9. pool'.reserves[buy] <= r[buy]
  BY <1>4, <1>5, <1>6
<1>10. QED
  BY <1>6, <1>8, <1>9

\* A pool that has nothing of some mint.
LEMMA EmptyMeans ==
  ASSUME NEW r \in [Mints -> Nat], NEW p, p.reserves = r
  PROVE  HasEmpty(p) <=> \E m \in Mints : r[m] = 0
BY DEF HasEmpty

LEMMA NextKeeps ==
  ASSUME Keeps, [Next]_vars
  PROVE  Keeps'
<1>1. Sound /\ Sound'
  BY NextSound DEF Keeps
<1>2. ASSUME PoolExists PROVE /\ pool.reserves \in [Mints -> Nat] /\ lpSupply \in Nat
                             /\ HasEmpty(pool) <=> \E m \in Mints : pool.reserves[m] = 0
  BY <1>1, <1>2, PoolTyped, EmptyMeans DEF Sound, TypeOK
<1>3. ASSUME PoolExists', IsConstProd(pool'), lpSupply' > 0, NEW m \in Mints
      PROVE  pool'.reserves[m] # 0
  <2>1. CASE \E amp \in Amplifiers, first \in Mints : CreatePool(amp, first)
    <3>1. pool'.reserves = vault /\ lpSupply' = lpSupply /\ (vault[m] = 0 <=> lpSupply = 0)
      BY <2>1 DEF CreatePool, tokens
    <3>2. QED
      BY <1>3, <3>1
  <2>2. ASSUME NEW u \in Users, NEW max \in MaxDeposits, DepositLiquidity(u, max)
        PROVE  pool'.reserves[m] # 0
    <3>1. PoolExists /\ pool'.amp = pool.amp
      BY <1>1, <2>2, DepositEffect
    <3>2. PICK d : /\ d.tokens \in [Mints -> Nat]
                   /\ lpSupply = 0 => \A k \in Mints : d.tokens[k] > 0
                   /\ pool'.reserves = [k \in Mints |-> pool.reserves[k] + d.tokens[k]]
      BY <1>1, <2>2, DepositEffect
    <3>3. /\ pool.reserves[m] \in Nat /\ d.tokens[m] \in Nat /\ lpSupply \in Nat
          /\ pool'.reserves[m] = pool.reserves[m] + d.tokens[m]
      <4>1. pool.reserves[m] \in Nat /\ lpSupply \in Nat
        BY <1>1, <3>1, PoolTyped DEF Sound, TypeOK
      <4>2. d.tokens[m] \in Nat
        BY <3>2
      <4>3. pool'.reserves[m] = pool.reserves[m] + d.tokens[m]
        BY <3>2
      <4>4. QED
        BY <4>1, <4>2, <4>3
    <3>4. lpSupply > 0 => pool.reserves[m] # 0
      BY <1>2, <1>3, <3>1 DEF Keeps, NoReserveRunsDry, IsConstProd
    <3>5. QED
      BY <3>2, <3>3, <3>4
  <2>3. ASSUME NEW h \in Holders, NEW burn \in Nat, NEW min \in [Mints -> Nat],
               RedeemLiquidity(h, burn, min)
        PROVE  pool'.reserves[m] # 0
    <3>0. Redeems(h, burn, min)
      BY <1>1, <2>3, RedeemEffect
    <3>1. /\ PoolExists /\ pool'.amp = pool.amp /\ burn <= lpSupply /\ lpSupply > 0
          /\ lpSupply' = lpSupply - burn
      BY <3>0 DEF Redeems
    <3>2. PICK t \in RedeemTokens(pool, min, burn, lpSupply) :
            /\ t \in [Mints -> Nat]
            /\ pool'.reserves = [k \in Mints |-> pool.reserves[k] - t[k]]
      BY <3>0 DEF Redeems
    <3>3. lpSupply \in Nat \ {0} /\ burn < lpSupply /\ pool.reserves[m] \in Nat \ {0}
      <4>1. lpSupply \in Nat /\ pool.reserves[m] \in Nat
        BY <1>1, <3>1, PoolTyped DEF Sound, TypeOK
      <4>2. ~HasEmpty(pool)
        BY <1>3, <3>1 DEF Keeps, NoReserveRunsDry, IsConstProd
      <4>3. QED
        BY <1>2, <1>3, <3>1, <4>1, <4>2
    <3>4. pool \in PoolOver(Mints)
      BY <1>1, <3>1, PoolTyped
    <3>5. t[m] < pool.reserves[m]
      BY <3>3, <3>4, RedemptionLeaves
    <3>6. QED
      BY <3>2, <3>3, <3>5
  <2>4. ASSUME NEW u \in Users, NEW sell \in Mints, NEW buy \in Mints, NEW sold \in Nat,
               NEW minBuy \in Nat, Swap(u, sell, sold, buy, minBuy)
        PROVE  pool'.reserves[m] # 0
    <3>1. pool'.amp = pool.amp
      BY <1>1, <2>4, SwapEffect
    <3>2. IsConstProd(pool)
      BY <1>3, <3>1 DEF IsConstProd
    <3>3. pool'.reserves \in [Mints -> Nat \ {0}]
      BY <1>1, <2>4, <3>2, SwapOfReserves
    <3>4. QED
      BY <3>3
  <2>5. ASSUME NEW u \in Users, NEW amount \in Nat, BurnLp(u, amount)
        PROVE  pool'.reserves[m] # 0
    <3>1. lpSupply' = lpSupply - amount /\ pool' = pool /\ lpSupply \in Nat
      BY <1>1, <2>5 DEF BurnLp, Sound, TypeOK
    <3>2. QED
      BY <1>2, <1>3, <3>1 DEF Keeps, NoReserveRunsDry, PoolExists
  <2>6. CASE Aside \/ \E u \in Users, k \in Mints, amount \in Nat : Donate(u, k, amount)
    <3>1. PoolExists /\ pool'.reserves = pool.reserves /\ pool'.amp = pool.amp /\ lpSupply' = lpSupply
      BY <1>3, <2>6 DEF Aside, Donate, PoolExists
    <3>2. QED
      BY <1>2, <1>3, <3>1 DEF Keeps, NoReserveRunsDry, IsConstProd
  <2>7. QED
    BY <1>1, <2>1, <2>2, <2>3, <2>4, <2>5, <2>6, StepCases
<1>4. NoReserveRunsDry'
  <2>1. ASSUME PoolExists' PROVE DOMAIN pool'.reserves = Mints
    BY <1>1, <2>1 DEF Sound, TypeOK, PoolOver
  <2>2. QED
    BY <1>3, <2>1 DEF NoReserveRunsDry, HasEmpty
<1>5. QED
  BY <1>1, <1>4 DEF Keeps

\* On a constant product curve floored redemptions, swaps, fees and tolls leave
\* something of every reserve while there are LP tokens.
THEOREM ReservesNeverRunDry == Spec => []NoReserveRunsDry
<1>1. Init => Keeps
  BY InitSound DEF Keeps, Init, NoReserveRunsDry, PoolExists
<1>2. Keeps => NoReserveRunsDry
  BY DEF Keeps
<1>3. QED
  BY <1>1, <1>2, NextKeeps, PTL DEF Spec

-----------------------------------------------------------------------------
(* The supply is what the holders own together.                            *)

SupplyIsTotal == lpSupply = Sum(lpWallet)

Held == Sound /\ SupplyIsTotal

LEMMA SumOverAll ==
  ASSUME NEW f
  PROVE  Sum(f) = SumFunctionOnSet(f, DOMAIN f)
BY DEF Sum, SumFunctionOnSet, FoldFunction

\* The total changes as the one wallet does.
LEMMA OneWalletChanges ==
  ASSUME NEW f \in [Holders -> Nat], NEW e \in [Holders -> Nat], NEW h \in Holders,
         \A g \in Holders \ {h} : e[g] = f[g]
  PROVE  /\ Sum(f) \in Nat /\ Sum(e) \in Nat
         /\ Sum(e) + f[h] = Sum(f) + e[h]
<1>1. IsFiniteSet(Holders)
  BY FS_AddElement DEF Holders
<1>2. Sum(f) = SumFunctionOnSet(f, Holders) /\ Sum(e) = SumFunctionOnSet(e, Holders)
  BY SumOverAll
<1>3. \A g \in Holders : f[g] \in Nat /\ e[g] \in Nat
  OBVIOUS
<1>4. SumFunctionOnSet(e, Holders) + f[h] = SumFunctionOnSet(f, Holders) + e[h]
  BY <1>1, <1>3, SumChanges
<1>5. SumFunctionOnSet(f, Holders) \in Nat /\ SumFunctionOnSet(e, Holders) \in Nat
  BY <1>1, <1>3, SumUnfolds
<1>6. QED
  BY <1>2, <1>4, <1>5

LEMMA NextHeld ==
  ASSUME Held, [Next]_vars
  PROVE  Held'
<1>1. Sound /\ Sound'
  BY NextSound DEF Held
<1>2. /\ lpWallet \in [Holders -> Nat] /\ lpSupply \in Nat /\ lpSupply = Sum(lpWallet)
      /\ lpWallet' \in [Holders -> Nat] /\ lpSupply' \in Nat
  BY <1>1 DEF Held, SupplyIsTotal, Sound, TypeOK
<1>3. ASSUME NEW h \in Holders, NEW n \in Int,
             lpWallet' = [lpWallet EXCEPT ![h] = lpWallet[h] + n], lpSupply' = lpSupply + n
      PROVE  lpSupply' = Sum(lpWallet')
  <2>1. /\ \A g \in Holders \ {h} : lpWallet'[g] = lpWallet[g]
        /\ lpWallet'[h] = lpWallet[h] + n /\ lpWallet[h] \in Nat
    BY <1>2, <1>3
  <2>2. /\ Sum(lpWallet') \in Nat
        /\ Sum(lpWallet') + lpWallet[h] = Sum(lpWallet) + lpWallet'[h]
    BY <1>2, <2>1, OneWalletChanges
  <2>3. QED
    BY <1>2, <1>3, <2>1, <2>2
<1>4. lpSupply' = Sum(lpWallet')
  <2>1. CASE \E amp \in Amplifiers, first \in Mints : CreatePool(amp, first)
    BY <1>2, <2>1 DEF CreatePool, tokens
  <2>2. ASSUME NEW u \in Users, NEW max \in MaxDeposits, DepositLiquidity(u, max)
        PROVE  lpSupply' = Sum(lpWallet')
    <3>1. PICK d : /\ d.lp \in Nat
                   /\ lpWallet' = [lpWallet EXCEPT ![u] = lpWallet[u] + d.lp]
                   /\ lpSupply' = lpSupply + d.lp
      BY <1>1, <2>2, DepositEffect
    <3>2. u \in Holders /\ d.lp \in Int
      BY <3>1 DEF Holders
    <3>3. QED
      BY <1>3, <3>1, <3>2
  <2>3. ASSUME NEW h \in Holders, NEW burn \in Nat, NEW min \in [Mints -> Nat],
               RedeemLiquidity(h, burn, min)
        PROVE  lpSupply' = Sum(lpWallet')
    <3>1. /\ lpWallet' = [lpWallet EXCEPT ![h] = lpWallet[h] - burn]
          /\ lpSupply' = lpSupply - burn
      BY <1>1, <2>3, RedeemEffect DEF Redeems
    <3>2. lpWallet[h] - burn = lpWallet[h] + (0 - burn) /\ lpSupply - burn = lpSupply + (0 - burn)
          /\ 0 - burn \in Int
      BY <1>2
    <3>3. QED
      BY <1>3, <3>1, <3>2
  <2>4. ASSUME NEW u \in Users, NEW sell \in Mints, NEW buy \in Mints, NEW sold \in Nat,
               NEW minBuy \in Nat, Swap(u, sell, sold, buy, minBuy)
        PROVE  lpSupply' = Sum(lpWallet')
    <3>1. PICK toll \in Nat : /\ lpWallet' = [lpWallet EXCEPT ![Toll] = lpWallet[Toll] + toll]
                              /\ lpSupply' = lpSupply + toll
      BY <1>1, <2>4, SwapEffect
    <3>2. Toll \in Holders /\ toll \in Int
      BY DEF Holders
    <3>3. QED
      BY <1>3, <3>1, <3>2
  <2>5. ASSUME NEW u \in Users, NEW amount \in Nat, BurnLp(u, amount)
        PROVE  lpSupply' = Sum(lpWallet')
    <3>1. /\ lpWallet' = [lpWallet EXCEPT ![u] = lpWallet[u] - amount]
          /\ lpSupply' = lpSupply - amount
      BY <2>5 DEF BurnLp
    <3>2. u \in Holders
      BY DEF Holders
    <3>3. lpWallet[u] - amount = lpWallet[u] + (0 - amount)
          /\ lpSupply - amount = lpSupply + (0 - amount) /\ 0 - amount \in Int
      BY <1>2, <3>2
    <3>4. QED
      BY <1>3, <3>1, <3>2, <3>3
  <2>6. CASE Aside \/ \E u \in Users, k \in Mints, amount \in Nat : Donate(u, k, amount)
    BY <1>2, <2>6 DEF Aside, Donate
  <2>7. QED
    BY <1>1, <2>1, <2>2, <2>3, <2>4, <2>5, <2>6, StepCases
<1>5. QED
  BY <1>1, <1>4 DEF Held, SupplyIsTotal

\* lp_mint.supply is the sum of the LP token accounts: every endpoint that
\* mints or burns changes one account by as much.
THEOREM SupplyStaysTotal == Spec => []SupplyIsTotal
<1>1. Init => Held
  BY InitSound, SupplyAssumption DEF Held, Init, SupplyIsTotal
<1>2. Held => SupplyIsTotal
  BY DEF Held
<1>3. QED
  BY <1>1, <1>2, NextHeld, PTL DEF Spec

-----------------------------------------------------------------------------
(* Amm implements LiquidityShares, step by step.                           *)

\* The mapped state, in the terms of Amm.
LEMMA Mapped == \A f : Shares!Total(f) = Sum(f) /\ Shares!Times(f) = Product(f)
BY DEF Shares!Total, Shares!Times, Shares!FoldFunction, Shares!FoldFunctionOnSet,
       Shares!MapThenFoldSet, Sum, Product, FoldFunction, FoldFunctionOnSet, MapThenFoldSet

LEMMA OpenStep ==
  ASSUME Held, NEW amp \in Amplifiers, NEW first \in Mints, CreatePool(amp, first)
  PROVE  Shares!Open
<1>1. /\ ~PoolExists /\ pool'.reserves = vault /\ UNCHANGED <<lpSupply, lpWallet, vault>>
      /\ \A m \in Mints : vault[m] = 0 <=> lpSupply = 0
  BY DEF CreatePool, tokens
<1>2. PoolExists'
  <2>1. amp \in Nat /\ vault \in [Mints -> Nat] /\ 0 \in 0 .. Dec(1)
    BY BoundsAssumption, WadAssumption DEF Held, Sound, TypeOK, Dec
  <2>2. pool' \in PoolOver(Mints)
    BY <2>1 DEF CreatePool, PoolOver
  <2>3. QED
    BY <2>2, TypedPoolExists
<1>3. \A m \in Mints : vault[m] > 0 <=> lpSupply > 0
  BY <1>1 DEF Held, Sound, TypeOK
<1>4. Shares!Total(lpWallet) = lpSupply
  BY Mapped DEF Held, SupplyIsTotal
<1>5. QED
  BY <1>1, <1>2, <1>3, <1>4 DEF Shares!Open

LEMMA GiftStep ==
  ASSUME Held, NEW u \in Users, NEW m \in Mints, NEW amount \in Nat, Donate(u, m, amount)
  PROVE  Shares!Gift \/ UNCHANGED Shares!vars
<1>1. /\ vault' = [vault EXCEPT ![m] = vault[m] + amount] /\ vault \in [Mints -> Nat]
      /\ UNCHANGED <<pool, lpWallet>>
  BY DEF Donate, Held, Sound, TypeOK
<1>2. CASE PoolExists
  BY <1>1, <1>2 DEF Shares!vars, PoolExists
<1>3. CASE ~PoolExists
  <2>1. \A k \in Mints : vault'[k] >= vault[k]
    BY <1>1
  <2>2. QED
    BY <1>1, <1>3, <2>1 DEF Shares!Gift, PoolExists
<1>4. QED
  BY <1>2, <1>3

LEMMA ContributeStep ==
  ASSUME Held, NEW u \in Users, NEW max \in MaxDeposits, DepositLiquidity(u, max)
  PROVE  Shares!Contribute(u)
<1>1. PoolExists /\ PoolExists' /\ pool'.amp = pool.amp
  BY DepositEffect DEF Held
<1>2. PICK d : /\ d.tokens \in [Mints -> Nat] /\ d.lp \in Nat \ {0}
               /\ lpSupply > 0 =>
                    d.lp * pool.reserves[pool.first] <= lpSupply * d.tokens[pool.first]
               /\ pool'.reserves = [m \in Mints |-> pool.reserves[m] + d.tokens[m]]
               /\ lpWallet' = [lpWallet EXCEPT ![u] = lpWallet[u] + d.lp]
  BY DepositEffect DEF Held
<1>3. /\ lpWallet \in [Holders -> Nat] /\ lpSupply \in Nat /\ u \in Holders
      /\ pool.reserves \in [Mints -> Nat] /\ pool.first \in Mints
  BY <1>1, PoolTyped DEF Held, Sound, TypeOK, Holders, PoolOver
<1>4. \A m \in Mints : /\ pool'.reserves[m] = pool.reserves[m] + d.tokens[m]
                       /\ pool'.reserves[m] - pool.reserves[m] = d.tokens[m]
                       /\ pool'.reserves[m] >= pool.reserves[m]
  <2>1. ASSUME NEW m \in Mints PROVE pool.reserves[m] \in Nat /\ d.tokens[m] \in Nat
    BY <1>2, <1>3
  <2>2. ASSUME NEW m \in Mints PROVE pool'.reserves[m] = pool.reserves[m] + d.tokens[m]
    BY <1>2
  <2>3. QED
    BY <2>1, <2>2
<1>5. /\ lpWallet'[u] = lpWallet[u] + d.lp /\ lpWallet[u] \in Nat
      /\ \A g \in Holders \ {u} : lpWallet'[g] = lpWallet[g]
  BY <1>2, <1>3
<1>6. Shares!Total(lpWallet) = lpSupply
  BY Mapped DEF Held, SupplyIsTotal
<1>7. lpWallet'[u] > lpWallet[u] /\ lpWallet'[u] - lpWallet[u] = d.lp
  BY <1>2, <1>5
<1>8. ASSUME lpSupply > 0
      PROVE  \E a \in Mints : (lpWallet'[u] - lpWallet[u]) * pool.reserves[a]
                                <= lpSupply * (pool'.reserves[a] - pool.reserves[a])
  <2>1. (lpWallet'[u] - lpWallet[u]) * pool.reserves[pool.first]
          <= lpSupply * (pool'.reserves[pool.first] - pool.reserves[pool.first])
    BY <1>2, <1>3, <1>4, <1>7, <1>8
  <2>2. QED
    BY <1>3, <2>1
<1>9. QED
  BY <1>1, <1>4, <1>5, <1>6, <1>7, <1>8
     DEF Shares!Contribute, Shares!Grows, Shares!OnlyChanges, IsConstProd

LEMMA WithdrawStep ==
  ASSUME Held, Held', NEW h \in Holders, NEW burn \in Nat, NEW min \in [Mints -> Nat],
         RedeemLiquidity(h, burn, min)
  PROVE  Shares!Withdraw(h)
<1>0. Redeems(h, burn, min)
  BY RedeemEffect DEF Held
<1>1. /\ PoolExists /\ PoolExists' /\ pool'.amp = pool.amp
      /\ burn <= lpWallet[h] /\ lpSupply > 0 /\ burn <= lpSupply
      /\ lpWallet' = [lpWallet EXCEPT ![h] = lpWallet[h] - burn]
      /\ lpSupply' = lpSupply - burn
  BY <1>0 DEF Redeems
<1>2. PICK t \in RedeemTokens(pool, min, burn, lpSupply) :
        /\ t \in [Mints -> Nat]
        /\ pool'.reserves = [m \in Mints |-> pool.reserves[m] - t[m]]
  BY <1>0 DEF Redeems
<1>3. /\ lpWallet \in [Holders -> Nat] /\ lpSupply \in Nat \ {0}
      /\ pool \in PoolOver(Mints) /\ pool.reserves \in [Mints -> Nat]
  BY <1>1, PoolTyped DEF Held, Sound, TypeOK
<1>4. /\ lpWallet[h] \in Nat /\ lpWallet'[h] = lpWallet[h] - burn
      /\ \A g \in Holders \ {h} : lpWallet'[g] = lpWallet[g]
  BY <1>1, <1>3
<1>5. Shares!Total(lpWallet) = lpSupply /\ Shares!Total(lpWallet') = lpSupply'
  BY Mapped DEF Held, SupplyIsTotal
<1>6. ASSUME NEW m \in Mints
      PROVE  /\ pool'.reserves[m] <= pool.reserves[m]
             /\ (pool.reserves[m] - pool'.reserves[m]) * lpSupply
                   <= pool.reserves[m] * (lpWallet[h] - lpWallet'[h])
             /\ lpSupply' = 0 => pool'.reserves[m] = 0
  <2>1. t[m] \in Nat /\ t[m] * lpSupply <= pool.reserves[m] * burn
    BY <1>2, <1>3, RedeemType
  <2>2. burn = lpSupply => t[m] = pool.reserves[m]
    BY <1>2, <1>3, RedemptionLeaves
  <2>3. /\ pool'.reserves[m] = pool.reserves[m] - t[m] /\ pool.reserves[m] \in Nat
    BY <1>2, <1>3
  <2>4. lpWallet[h] - lpWallet'[h] = burn /\ pool.reserves[m] - pool'.reserves[m] = t[m]
    BY <1>4, <2>1, <2>3
  <2>5. QED
    BY <1>1, <1>3, <2>1, <2>2, <2>3, <2>4
<1>7. lpWallet'[h] <= lpWallet[h]
  BY <1>4
<1>8. QED
  BY <1>1, <1>4, <1>5, <1>6, <1>7 DEF Shares!Withdraw, Shares!OnlyChanges, IsConstProd

LEMMA ExchangeStep ==
  ASSUME Held, NEW u \in Users, NEW sell \in Mints, NEW buy \in Mints, NEW sold \in Nat,
         NEW minBuy \in Nat, Swap(u, sell, sold, buy, minBuy)
  PROVE  sell # buy /\ Shares!Exchange(sell, buy, Toll)
<1>1. /\ PoolExists /\ PoolExists' /\ pool'.amp = pool.amp
      /\ lpSupply > 0 /\ sell # buy /\ sold > 0
  BY SwapEffect DEF Held
<1>2. PICK toll \in Nat : lpWallet' = [lpWallet EXCEPT ![Toll] = lpWallet[Toll] + toll]
  BY SwapEffect DEF Held
<1>3. /\ lpWallet \in [Holders -> Nat] /\ Toll \in Holders /\ pool.reserves \in [Mints -> Nat]
  BY <1>1, PoolTyped DEF Held, Sound, TypeOK, Holders
<1>4. /\ lpWallet'[Toll] >= lpWallet[Toll]
      /\ \A g \in Holders \ {Toll} : lpWallet'[g] = lpWallet[g]
  BY <1>2, <1>3
<1>5. Shares!Total(lpWallet) = lpSupply
  BY Mapped DEF Held, SupplyIsTotal
<1> DEFINE after == pool'.reserves
<1>6. /\ after \in [Mints -> Nat]
      /\ after[sell] = pool.reserves[sell] + sold
      /\ after[buy] <= pool.reserves[buy]
      /\ \A m \in Mints \ {sell, buy} : after[m] = pool.reserves[m]
      /\ IsConstProd(pool) =>
           Product(after) * Wad >= Product(pool.reserves) * Wad
                    - ProductFunctionOnSet(after, Mints \ {buy})
  BY SwapOfReserves DEF Held
<1>7. after[sell] > pool.reserves[sell]
  BY <1>1, <1>3, <1>6
<1>8. Shares!Times([a \in Mints \ {buy} |-> after[a]]) = ProductFunctionOnSet(after, Mints \ {buy})
  <2> DEFINE kept == [a \in Mints \ {buy} |-> after[a]]
  <2>1. DOMAIN kept = Mints \ {buy} /\ \A a \in Mints \ {buy} : after[a] \in Nat /\ kept[a] = after[a]
    BY <1>6
  <2>2. IsFiniteSet(Mints \ {buy})
    BY FS_Subset
  <2> HIDE DEF kept, after
  <2>3. Product(kept) = ProductFunctionOnSet(kept, Mints \ {buy})
    BY <2>1, ProductOverAll
  <2>4. ProductFunctionOnSet(kept, Mints \ {buy}) = ProductFunctionOnSet(after, Mints \ {buy})
    BY <2>1, <2>2, ProductSame
  <2>5. QED
    BY <2>3, <2>4, Mapped DEF kept
<1>9. Shares!Times(after) = Product(after) /\ Shares!Times(pool.reserves) = Product(pool.reserves)
  BY Mapped
<1>10. QED
  BY <1>1, <1>4, <1>5, <1>6, <1>7, <1>8, <1>9
     DEF Shares!Exchange, Shares!OnlyChanges, IsConstProd

LEMMA ForgoStep ==
  ASSUME Held, NEW u \in Users, NEW amount \in Nat, BurnLp(u, amount)
  PROVE  Shares!Forgo(u) \/ UNCHANGED Shares!vars
<1>1. /\ lpWallet' = [lpWallet EXCEPT ![u] = lpWallet[u] - amount]
      /\ UNCHANGED <<pool, vault>> /\ lpWallet \in [Holders -> Nat] /\ u \in Holders
  BY DEF BurnLp, Held, Sound, TypeOK, Holders
<1>2. CASE amount = 0
  <2>1. lpWallet' = lpWallet
    BY <1>1, <1>2
  <2>2. QED
    BY <1>1, <2>1 DEF Shares!vars, PoolExists
<1>3. CASE amount # 0
  <2>1. /\ lpWallet'[u] < lpWallet[u]
        /\ \A g \in Holders \ {u} : lpWallet'[g] = lpWallet[g]
    BY <1>1, <1>3
  <2>2. QED
    BY <1>1, <2>1 DEF Shares!Forgo, Shares!OnlyChanges, PoolExists
<1>4. QED
  BY <1>2, <1>3

LEMMA StepShares ==
  ASSUME Held, [Next]_vars
  PROVE  [Shares!Next]_(Shares!vars)
<1>1. CASE \E amp \in Amplifiers, first \in Mints : CreatePool(amp, first)
  BY <1>1, OpenStep DEF Shares!Next
<1>2. CASE \E u \in Users, max \in MaxDeposits : DepositLiquidity(u, max)
  BY <1>2, ContributeStep DEF Shares!Next, Holders
<1>3. CASE \E h \in Holders, burn \in Nat, min \in [Mints -> Nat] : RedeemLiquidity(h, burn, min)
  BY <1>3, NextHeld, WithdrawStep DEF Shares!Next
<1>4. ASSUME NEW u \in Users, NEW sell \in Mints, NEW buy \in Mints, NEW sold \in Nat,
             NEW minBuy \in Nat, Swap(u, sell, sold, buy, minBuy)
      PROVE  Shares!Next
  <2>1. sell # buy /\ Shares!Exchange(sell, buy, Toll)
    BY <1>4, ExchangeStep
  <2>2. /\ sell \in Mints \cup Holders /\ buy \in Mints \cup Holders /\ Toll \in Mints \cup Holders
        /\ {sell, buy} \subseteq Mints /\ Toll \in Holders
    BY DEF Holders
  <2>3. QED
    BY <2>1, <2>2 DEF Shares!Next
<1>5. CASE \E u \in Users, m \in Mints, amount \in Nat : Donate(u, m, amount)
  BY <1>5, GiftStep DEF Shares!Next
<1>6. CASE \E u \in Users, amount \in Nat : BurnLp(u, amount)
  BY <1>6, ForgoStep DEF Shares!Next, Holders
<1>7. CASE Aside
  BY <1>7 DEF Aside, Shares!vars, IsConstProd
<1>8. QED
  BY <1>1, <1>2, <1>3, <1>4, <1>5, <1>6, <1>7, StepCases DEF Held

\* Whatever the mints, the holders and the amounts: redemptions take at most
\* their share, the last one leaves nothing, deposits pay for their LP tokens
\* in some reserve, and swaps keep the product of the reserves.
THEOREM ImplementsLiquidityShares == Spec => ImplementsShares
<1>1. Init => Shares!Init
  <2>1. Init => ~PoolExists /\ Sound
    BY InitSound DEF Init, PoolExists
  <2>2. QED
    BY <2>1 DEF Shares!Init, Sound, TypeOK
<1>2. Init => Held
  BY InitSound, SupplyAssumption DEF Held, Init, SupplyIsTotal
<1>3. Spec => Shares!Spec
  BY <1>1, <1>2, NextHeld, StepShares, PTL DEF Spec, Shares!Spec
<1>4. QED
  BY <1>3 DEF ImplementsShares

-----------------------------------------------------------------------------
(* What the toll is worth.                                                 *)

\* What is taken of the first reserve is at most its part of the limit on
\* another one, rounded up: with the direct ratio.
LEMMA DirectPartOfLimit ==
  ASSUME NEW rf \in Nat, NEW rs \in Nat \ {0}, NEW lim \in Nat, NEW r \in Nat,
         r <= Div(Dec(lim), Dec(rs))
  PROVE  rs * Wad * Ceil(Mul(Dec(rf), r)) <= lim * rf * Wad + rs * Wad
<1> DEFINE rho == Div(Dec(lim), Dec(rs))
           t == Ceil(Mul(Dec(rf), r))
<1>1. Mul(Dec(rf), r) = rf * r /\ rf * r \in Nat
  BY WholeTimes
<1>2. t \in Nat /\ Wad * t <= rf * r + Wad
  BY <1>1, CeilBounds, WadAssumption
<1>3. rho \in Nat /\ rs * rho <= lim * Wad
  BY QuotientOfWhole
<1> HIDE DEF rho, t
<1>4. /\ Wad * t \in Nat /\ rs * r \in Nat /\ rs * rho \in Nat /\ lim * Wad \in Nat
      /\ rs * Wad \in Nat
  BY <1>2, <1>3, Products, WadAssumption
<1>5. rs * r <= lim * Wad
  <2>1. rs * r <= rs * rho
    BY <1>3, Scales DEF rho
  <2>2. QED
    BY <1>3, <1>4, <2>1
<1>6. rf * (rs * r) <= rf * (lim * Wad)
  BY <1>4, <1>5, Scales
<1>7. rs * (Wad * t) <= rs * (rf * r + Wad)
  BY <1>1, <1>2, <1>4, Scales, WadAssumption
<1>8. rs * (rf * r + Wad) = rf * (rs * r) + rs * Wad
  BY WadAssumption
<1>9. rs * Wad * t = rs * (Wad * t) /\ rf * (lim * Wad) = lim * rf * Wad
  BY <1>2, WadAssumption
<1>10. /\ rf * (rs * r) \in Nat /\ rf * (lim * Wad) \in Nat /\ rs * (Wad * t) \in Nat
  BY <1>4, Products
<1> HIDE DEF t
<1>11. QED
  BY <1>4, <1>6, <1>7, <1>8, <1>9, <1>10 DEF t

\* With the inverted ratio, of a reserve that lost less than a unit for each
\* token of the limit.
LEMMA InvertedPartOfLimit ==
  ASSUME NEW rf \in Nat, NEW rs \in Nat, NEW lim \in Nat \ {0}, NEW r \in Nat \ {0},
         r >= Div(Dec(rs), Dec(lim)), lim <= rs * Wad
  PROVE  (rs * Wad - lim) * Ceil(Div(Dec(rf), r)) <= lim * rf * Wad + (rs * Wad - lim)
<1> DEFINE rho == Div(Dec(rs), Dec(lim))
           x == Div(Dec(rf), r)
           t == Ceil(x)
           seen == rs * Wad - lim
<1>1. Dec(rf) \in Nat /\ Dec(rf) * Wad \in Nat /\ Dec(rf) * Wad = rf * Wad * Wad
  BY DecimalTypes, Products, WadAssumption DEF Dec
<1>2. x \in Nat /\ r * x <= Dec(rf) * Wad
  BY <1>1, Truncates DEF Div
<1>3. t \in Nat /\ Wad * t <= x + Wad
  BY <1>2, CeilBounds, WadAssumption
<1>4. rho \in Nat /\ rs * Wad < lim * rho + lim
  BY QuotientOfWhole
<1>5. rs * Wad \in Nat /\ seen \in Nat
  BY Products, WadAssumption
<1> HIDE DEF rho, x, t
<1>6. seen <= lim * r
  <2>1. lim * rho <= lim * r /\ lim * rho \in Nat /\ lim * r \in Nat
    BY <1>4, Scales, Products DEF rho
  <2>2. QED
    BY <1>4, <1>5, <2>1
<1> HIDE DEF seen
<1>7. x * seen <= x * (lim * r)
  BY <1>2, <1>5, <1>6, Scales, Products
<1>8. lim * (r * x) <= lim * (Dec(rf) * Wad)
  BY <1>1, <1>2, Scales, Products
<1>9. seen * (Wad * t) <= seen * (x + Wad)
  BY <1>2, <1>3, <1>5, Scales, Products, WadAssumption
<1>10. x * (lim * r) = lim * (r * x) /\ seen * (x + Wad) = x * seen + seen * Wad
  BY <1>2, <1>5, WadAssumption
<1>11. /\ x * seen \in Nat /\ lim * (r * x) \in Nat /\ lim * (Dec(rf) * Wad) \in Nat
       /\ seen * (Wad * t) \in Nat /\ seen * Wad \in Nat
  BY <1>1, <1>2, <1>3, <1>5, Products, WadAssumption
<1>12. seen * (Wad * t) <= lim * (Dec(rf) * Wad) + seen * Wad
  BY <1>7, <1>8, <1>9, <1>10, <1>11
<1>13. /\ seen * (Wad * t) = Wad * (seen * t)
       /\ lim * (Dec(rf) * Wad) + seen * Wad = Wad * (lim * rf * Wad + seen)
  BY <1>1, <1>3, <1>5, WadAssumption
<1>14. seen * t \in Nat /\ lim * rf * Wad + seen \in Nat
  BY <1>3, <1>5, Products, WadAssumption
<1>15. seen * t <= lim * rf * Wad + seen
  BY <1>12, <1>13, <1>14, Cancels, WadAssumption
<1>16. QED
  BY <1>15 DEF seen, t, x

\* The LP tokens of a deposit are worth no more than its limit on any one mint,
\* and a token of the first reserve.
LEMMA DepositIsWorthLimit ==
  ASSUME NEW p \in PoolOver(Mints), NEW max \in [Mints -> Nat], NEW supply \in Nat \ {0},
         NEW d \in DepositTokens(p, max, supply), NEW s \in Mints
  PROVE  LET seen  == SeenReserve(p, s, max[s])
             first == p.reserves[p.first]
         IN  d.lp * first * seen <= supply * (max[s] * first * Wad + seen)
<1> DEFINE rf == p.reserves[p.first]
           rs == p.reserves[s]
           t == d.tokens[p.first]
           lim == max[s]
           seen == SeenReserve(p, s, max[s])
<1>1. /\ p.reserves \in [Mints -> Nat] /\ p.first \in Mints
      /\ rf \in Nat /\ rs \in Nat /\ lim \in Nat
  BY DEF PoolOver
<1>2. /\ d.tokens \in [Mints -> Nat] /\ d.lp \in Nat /\ t \in Nat
  BY <1>1, DepositType
<1>3. /\ rf > 0 /\ lim > 0 /\ d.lp = EligibleLpTokens(p, d.tokens, supply)
      /\ \E r \in Nat :
           /\ t = Ceil(Part(p, r, p.first))
           /\ IsInverted(p) => r > 0 /\ r >= InverseRatio(p, max, s)
           /\ ~IsInverted(p) => ~HasEmpty(p) /\ r <= Ratio(p, max, s)
  BY <1>1, DepositIsPart
<1>4. d.lp * rf <= supply * t
  BY <1>1, <1>2, <1>3, EligibleAtMostShare
<1>5. /\ rs * Wad \in Nat /\ d.lp * rf \in Nat /\ supply * t \in Nat /\ lim * rf * Wad \in Nat
      /\ lim * rf * Wad >= lim
  <2>1. rs * Wad \in Nat /\ d.lp * rf \in Nat /\ supply * t \in Nat /\ rf * Wad \in Nat /\ rf * Wad >= 1
    BY <1>1, <1>2, <1>3, Products, WadAssumption
  <2>2. lim * 1 <= lim * (rf * Wad) /\ lim * (rf * Wad) \in Nat
    BY <1>1, <2>1, Scales, Products
  <2>3. lim * (rf * Wad) = lim * rf * Wad
    BY <1>1, WadAssumption
  <2>4. QED
    BY <1>1, <2>1, <2>2, <2>3
<1>6. CASE IsInverted(p) /\ rs * Wad < lim
  <2>1. seen = rs * Wad - lim
    BY <1>6 DEF SeenReserve, Dec
  <2> HIDE DEF rf, rs, lim, seen
  <2>2. seen \in Int /\ seen < 0 /\ lim * rf * Wad + seen \in Nat
    BY <1>1, <1>5, <1>6, <2>1
  <2>3. (d.lp * rf) * seen <= 0
    <3>1. (d.lp * rf) * seen <= (d.lp * rf) * 0
      BY <1>5, <2>2, Scales
    <3>2. QED
      BY <1>5, <3>1
  <2>4. supply * (lim * rf * Wad + seen) \in Nat
    BY <2>2, Products
  <2>5. (d.lp * rf) * seen \in Int
    BY <1>5, <2>2, Scales
  <2>6. QED
    BY <2>3, <2>4, <2>5 DEF rf, lim, seen
<1>7. CASE ~(IsInverted(p) /\ rs * Wad < lim)
  <2>1. PICK r \in Nat :
           /\ t = Ceil(Part(p, r, p.first))
           /\ IsInverted(p) => r > 0 /\ r >= InverseRatio(p, max, s)
           /\ ~IsInverted(p) => ~HasEmpty(p) /\ r <= Ratio(p, max, s)
    BY <1>3
  <2>2. seen \in Nat /\ seen * t <= lim * rf * Wad + seen
    <3>1. CASE IsInverted(p)
      <4>1. seen = rs * Wad - lim
        BY <3>1 DEF SeenReserve, Dec
      <4>2. (rs * Wad - lim) * Ceil(Div(Dec(rf), r)) <= lim * rf * Wad + (rs * Wad - lim)
        <5>1. /\ rf \in Nat /\ rs \in Nat /\ lim \in Nat \ {0} /\ r \in Nat \ {0}
              /\ lim <= rs * Wad
          BY <1>1, <1>3, <1>5, <1>7, <2>1, <3>1
        <5>2. r >= Div(Dec(rs), Dec(lim))
          BY <2>1, <3>1 DEF InverseRatio
        <5> HIDE DEF rf, rs, lim
        <5>3. QED
          BY <5>1, <5>2, InvertedPartOfLimit
      <4>3. t = Ceil(Div(Dec(rf), r))
        BY <2>1, <3>1 DEF Part
      <4>4. QED
        BY <1>1, <1>5, <1>7, <3>1, <4>1, <4>2, <4>3
    <3>2. CASE ~IsInverted(p)
      <4>1. rs # 0
        BY <1>1, <2>1, <3>2 DEF HasEmpty
      <4>2. seen = rs * Wad
        BY <1>5, <3>2 DEF SeenReserve, Dec
      <4>3. rs * Wad * Ceil(Mul(Dec(rf), r)) <= lim * rf * Wad + rs * Wad
        BY <1>1, <2>1, <3>2, <4>1, DirectPartOfLimit DEF Ratio
      <4>4. t = Ceil(Mul(Dec(rf), r))
        BY <2>1, <3>2 DEF Part
      <4>5. QED
        BY <1>5, <4>2, <4>3, <4>4
    <3>3. QED
      BY <3>1, <3>2
  <2> HIDE DEF rf, rs, lim, t, seen
  <2>3. seen * (d.lp * rf) <= seen * (supply * t)
    BY <1>4, <1>5, <2>2, Scales
  <2>4. seen * t \in Nat /\ lim * rf * Wad + seen \in Nat
    BY <1>2, <1>5, <2>2, Products
  <2>5. supply * (seen * t) <= supply * (lim * rf * Wad + seen)
    BY <2>2, <2>4, Scales
  <2>6. /\ seen * (d.lp * rf) = d.lp * rf * seen
        /\ seen * (supply * t) = supply * (seen * t)
    BY <1>1, <1>2, <2>2
  <2>7. /\ seen * (d.lp * rf) \in Nat /\ supply * (seen * t) \in Nat
        /\ supply * (lim * rf * Wad + seen) \in Nat
    BY <1>5, <2>2, <2>4, Products
  <2>8. d.lp * rf * seen <= supply * (lim * rf * Wad + seen)
    BY <2>3, <2>5, <2>6, <2>7
  <2>9. QED
    BY <2>8 DEF rf, lim, seen
<1>8. QED
  BY <1>6, <1>7

\* More divided is not less.
LEMMA DividesMore ==
  ASSUME NEW a \in Nat, NEW b \in Nat, NEW d \in Nat \ {0}, a <= b
  PROVE  a \div d <= b \div d
<1>1. /\ b \div d \in Nat /\ b < d * (b \div d) + d
  BY Truncates
<1>2. d * (b \div d + 1) = d * (b \div d) + d
  BY <1>1
<1>3. a \div d \in Nat /\ d * (a \div d) <= a /\ d * (a \div d) \in Nat
  BY Truncates, Products
<1>4. SUFFICES ASSUME a \div d >= b \div d + 1 PROVE FALSE
  BY <1>1, <1>3
<1>5. d * (b \div d + 1) <= d * (a \div d)
  BY <1>1, <1>3, <1>4, Scales
<1>6. d * (b \div d) \in Nat
  BY <1>1, Products
<1>7. QED
  BY <1>1, <1>2, <1>3, <1>5, <1>6

\* A larger fee has no smaller toll.
LEMMA TollGrows ==
  ASSUME Sound, PoolExists, NEW a \in Nat, NEW b \in Nat, a <= b
  PROVE  /\ TollInSellTokens(a) \in Nat /\ TollInSellTokens(b) \in Nat
         /\ TollInSellTokens(a) <= TollInSellTokens(b)
<1> DEFINE n == Dec(Dimension(pool))
           x(fee) == fee * TollShare
           y(fee) == (x(fee) * Wad) \div n
<1>1. n \in Nat \ {0}
  BY PoolTyped, WadAssumption DEF Dec
<1>2. TollShare \in Nat
  BY TollShareAssumption, WadAssumption DEF Dec
<1> HIDE DEF n
<1>3. \A fee \in Nat : x(fee) \in Nat /\ x(fee) * Wad \in Nat /\ Mul(Dec(fee), TollShare) = x(fee)
  BY <1>2, WholeTimes, Products, WadAssumption
<1>4. \A fee \in Nat : y(fee) \in Nat /\ TollInSellTokens(fee) = (y(fee) + Wad \div 2) \div Wad
  BY <1>1, <1>3, Truncates DEF TollInSellTokens, Round, Div, n
<1>5. x(a) <= x(b)
  <2>1. TollShare * a <= TollShare * b
    BY <1>2, Scales
  <2>2. QED
    BY <1>2, <2>1, Products
<1>6. y(a) <= y(b)
  <2>1. Wad * x(a) <= Wad * x(b)
    BY <1>3, <1>5, Scales, WadAssumption
  <2>2. x(a) * Wad <= x(b) * Wad
    BY <1>3, <2>1, Products, WadAssumption
  <2>3. QED
    BY <1>1, <1>3, <2>2, DividesMore
<1>7. Wad \div 2 \in Nat /\ y(a) \in Nat /\ y(b) \in Nat
  BY <1>4, Truncates, WadAssumption
<1> HIDE DEF y
<1>8. y(a) + Wad \div 2 \in Nat /\ y(b) + Wad \div 2 \in Nat
      /\ y(a) + Wad \div 2 <= y(b) + Wad \div 2
  BY <1>6, <1>7
<1>9. QED
  BY <1>4, <1>8, DividesMore, Truncates, WadAssumption

\* A discount never makes a fee larger.
LEMMA FeeWithinShare ==
  ASSUME Sound, PoolExists, NEW u \in Users, NEW sold \in Nat
  PROVE  /\ SwapFee(u, sold) \in Nat
         /\ Ceil(Mul(Dec(sold), pool.swapFee)) \in Nat
         /\ SwapFee(u, sold) <= Ceil(Mul(Dec(sold), pool.swapFee))
<1> DEFINE share == SwapFeeShare(u)
           whole == pool.swapFee
<1>1. whole \in Nat /\ discount[u].amount \in Nat
  BY PoolTyped, WadAssumption DEF PoolOver, Sound, TypeOK, Dec
<1>2. share \in Nat /\ share <= whole
  <2>1. share \in Nat
    BY FeeShareType, WadAssumption DEF Dec
  <2>2. Mul(whole, discount[u].amount) \in Nat
    BY <1>1, DecimalTypes
  <2>3. QED
    BY <1>1, <2>1, <2>2 DEF SwapFeeShare
<1> HIDE DEF share, whole
<1>3. /\ Mul(Dec(sold), share) = sold * share /\ sold * share \in Nat
      /\ Mul(Dec(sold), whole) = sold * whole /\ sold * whole \in Nat
  BY <1>1, <1>2, WholeTimes
<1>4. sold * share <= sold * whole
  BY <1>1, <1>2, Scales
<1>5. sold * share + Wad - 1 \in Nat /\ sold * whole + Wad - 1 \in Nat
      /\ sold * share + Wad - 1 <= sold * whole + Wad - 1
  BY <1>3, <1>4, WadAssumption
<1>6. Ceil(sold * share) <= Ceil(sold * whole)
      /\ Ceil(sold * share) \in Nat /\ Ceil(sold * whole) \in Nat
  BY <1>5, DividesMore, Truncates, WadAssumption DEF Ceil
<1>7. QED
  BY <1>3, <1>6 DEF SwapFee, share, whole

\* What bounds the worth of a deposit bounds it for a larger limit.
LEMMA LimitMayGrow ==
  ASSUME NEW lp \in Nat, NEW rf \in Nat \ {0}, NEW supply \in Nat,
         NEW t \in Nat, NEW lim \in Nat, t <= lim,
         NEW a \in Int, NEW b \in Int, b <= a, a - b <= lim - t,
         lp * rf * a <= supply * (t * rf * Wad + a)
  PROVE  lp * rf * b <= supply * (lim * rf * Wad + b)
<1>1. lp * rf \in Nat /\ rf * Wad \in Nat /\ rf * Wad >= 1
  BY Products, WadAssumption
<1>2. /\ (lp * rf) * b <= (lp * rf) * a /\ (lp * rf) * b \in Int /\ (lp * rf) * a \in Int
  BY <1>1, Scales
<1> DEFINE k == rf * Wad
<1>3. k \in Nat /\ k >= 1 /\ t * rf * Wad = t * k /\ lim * rf * Wad = lim * k
  BY <1>1, WadAssumption
<1> HIDE DEF k
<1>4. t * k + a <= lim * k + b
  <2>1. lim - t \in Nat
    OBVIOUS
  <2>2. (lim - t) * 1 <= (lim - t) * k
    BY <1>3, <2>1, Scales
  <2>3. (lim - t) * k = lim * k - t * k
    BY <1>3
  <2>4. t * k \in Nat /\ lim * k \in Nat
    BY <1>3, Products
  <2>5. QED
    BY <2>1, <2>2, <2>3, <2>4
<1>5. t * k \in Nat /\ lim * k \in Nat
  BY <1>3, Products
<1>6. supply * (t * k + a) <= supply * (lim * k + b)
      /\ supply * (t * k + a) \in Int /\ supply * (lim * k + b) \in Int
  BY <1>4, <1>5, Scales
<1>7. lp * rf * a <= supply * (t * k + a)
  BY <1>3
<1> DEFINE x == (lp * rf) * a
           y == (lp * rf) * b
           v == supply * (t * k + a)
           w == supply * (lim * k + b)
<1>8. x \in Int /\ y \in Int /\ v \in Int /\ w \in Int /\ y <= x /\ x <= v /\ v <= w
  BY <1>2, <1>6, <1>7
<1> HIDE DEF x, y, v, w
<1>9. y <= w
  BY <1>8
<1>10. QED
  BY <1>3, <1>9 DEF y, w

\* Only a swap issues LP tokens to the toll wallet.
LEMMA OnlySwapsToll ==
  ASSUME Sound, [Next]_vars, lpWallet'[Toll] > lpWallet[Toll]
  PROVE  \E u \in Users, sell, buy \in Mints, sold, minBuy \in Nat :
           Swap(u, sell, sold, buy, minBuy)
<1>1. /\ lpWallet \in [Holders -> Nat] /\ Toll \in Holders /\ lpWallet[Toll] \in Nat
      /\ Toll \notin Users
  BY TollAssumption DEF Sound, TypeOK, Holders
<1>2. lpWallet' # lpWallet
  BY <1>1
<1>3. ASSUME NEW u \in Users, NEW max \in MaxDeposits, DepositLiquidity(u, max) PROVE FALSE
  <2>1. PICK n : lpWallet' = [lpWallet EXCEPT ![u] = n]
    BY <1>3 DEF DepositLiquidity
  <2>2. QED
    BY <1>1, <2>1
<1>4. ASSUME NEW h \in Holders, NEW burn \in Nat, NEW min \in [Mints -> Nat],
             RedeemLiquidity(h, burn, min)
      PROVE  FALSE
  <2>1. lpWallet' = [lpWallet EXCEPT ![h] = lpWallet[h] - burn]
    BY <1>4 DEF RedeemLiquidity
  <2>2. QED
    BY <1>1, <2>1
<1>5. ASSUME NEW u \in Users, NEW amount \in Nat, BurnLp(u, amount) PROVE FALSE
  <2>1. lpWallet' = [lpWallet EXCEPT ![u] = lpWallet[u] - amount]
    BY <1>5 DEF BurnLp
  <2>2. QED
    BY <1>1, <2>1
<1>6. /\ \A amp \in Amplifiers, first \in Mints : ~CreatePool(amp, first)
      /\ \A u \in Users, m \in Mints, amount \in Nat : ~Donate(u, m, amount)
      /\ ~Aside
  BY <1>2 DEF CreatePool, Donate, Aside, tokens
<1>7. QED
  BY <1>3, <1>4, <1>5, <1>6, StepCases

\* The toll of a swap is measured by the pool that the swap leaves.
LEMMA SwapToll ==
  ASSUME Sound, NEW u \in Users, NEW sell \in Mints, NEW buy \in Mints, NEW sold \in Nat,
         NEW minBuy \in Nat, Swap(u, sell, sold, buy, minBuy)
  PROVE  \E q \in PoolOver(Mints) :
           /\ pool'.reserves = q.reserves /\ q.first = pool.first
           /\ \E toll \in TollInLpTokens(q, SwapFee(u, sold), sell) :
                lpWallet' = [lpWallet EXCEPT ![Toll] = lpWallet[Toll] + toll]
                /\ lpSupply' = lpSupply + toll
<1> DEFINE fee == SwapFee(u, sold)
<1>1. PoolExists /\ sell # buy /\ SwapWithFee(u, sell, sold, buy, minBuy, fee)
  BY DEF Swap
<1>2. pool \in PoolOver(Mints) /\ pool.reserves \in [Mints -> Nat]
  BY <1>1, PoolTyped
<1>3. fee \in Nat
  BY <1>1, SwapFeeType
<1>4. PICK bought \in TokensToReceive(pool, sell, sold - fee, buy) :
        SettleSwap(u, sell, sold, buy, bought, fee, Swapped(pool, sell, sold, buy, bought))
  BY <1>1 DEF SwapWithFee
<1>5. bought \in Nat /\ bought <= pool.reserves[buy]
  BY <1>2, <1>3, ReceiveType
<1> DEFINE q == Swapped(pool, sell, sold, buy, bought)
           r == [pool.reserves EXCEPT ![sell] = @ + sold, ![buy] = @ - bought]
<1>6. r \in [Mints -> Nat]
  BY <1>1, <1>2, <1>5
<1>7. q \in PoolOver(Mints) /\ q.first = pool.first
  <2>1. q = [pool EXCEPT !.reserves = r]
    BY DEF Swapped
  <2>2. QED
    BY <1>2, <1>6, <2>1 DEF PoolOver
<1> HIDE DEF q
<1>8. /\ pool' \in WithCurveInvariant(q)
      /\ \E toll \in TollInLpTokens(q, fee, sell) :
           lpWallet' = [lpWallet EXCEPT ![Toll] = lpWallet[Toll] + toll]
           /\ lpSupply' = lpSupply + toll
  BY <1>4 DEF SettleSwap, q
<1>9. pool'.reserves = q.reserves
  BY <1>7, <1>8, InvariantOnly
<1>10. QED
  BY <1>7, <1>8, <1>9

\* What the toll of a swap is worth, after the swap.
LEMMA TollBound ==
  ASSUME Sound, NEW u \in Users, NEW sell \in Mints, NEW buy \in Mints, NEW sold \in Nat,
         NEW minBuy \in Nat, Swap(u, sell, sold, buy, minBuy),
         lpWallet'[Toll] > lpWallet[Toll],
         NEW m \in Mints, pool'.reserves[m] > pool.reserves[m]
  PROVE  LET limit == TollLimit(pool'.reserves[m] - pool.reserves[m])
             seen  == SeenReserve(pool', m, limit)
             first == pool'.reserves[pool.first]
         IN  (lpSupply' - lpSupply) * first * seen <= lpSupply * (limit * first * Wad + seen)
<1>1. /\ PoolExists /\ lpSupply \in Nat \ {0} /\ pool.reserves \in [Mints -> Nat]
      /\ lpWallet \in [Holders -> Nat] /\ Toll \in Holders /\ MaxTokens \in Nat
  <2>1. PoolExists /\ lpSupply > 0
    BY DEF Swap
  <2>2. QED
    BY <2>1, PoolTyped, MaxTokensAssumption DEF Sound, TypeOK, Holders
<1>2. /\ pool'.reserves \in [Mints -> Nat] /\ pool'.reserves[sell] = pool.reserves[sell] + sold
      /\ pool'.reserves[buy] <= pool.reserves[buy]
      /\ \A k \in Mints \ {sell, buy} : pool'.reserves[k] = pool.reserves[k]
  BY SwapOfReserves
<1>3. m = sell /\ pool'.reserves[m] - pool.reserves[m] = sold
  <2>1. m # buy /\ (m # sell => pool'.reserves[m] = pool.reserves[m])
    BY <1>1, <1>2
  <2>2. m = sell
    BY <1>1, <2>1
  <2>3. QED
    BY <1>1, <1>2, <2>2
<1>0. PICK q \in PoolOver(Mints) :
        /\ pool'.reserves = q.reserves /\ q.first = pool.first
        /\ \E toll \in TollInLpTokens(q, SwapFee(u, sold), sell) :
             /\ lpWallet' = [lpWallet EXCEPT ![Toll] = lpWallet[Toll] + toll]
             /\ lpSupply' = lpSupply + toll
  BY SwapToll
<1>4. PICK toll \in TollInLpTokens(q, SwapFee(u, sold), sell) :
        /\ pool'.reserves = q.reserves /\ q.first = pool.first
        /\ lpWallet' = [lpWallet EXCEPT ![Toll] = lpWallet[Toll] + toll]
        /\ lpSupply' = lpSupply + toll
  BY <1>0
<1> DEFINE t == TollInSellTokens(SwapFee(u, sold))
           lim == TollLimit(sold)
           max == [k \in DOMAIN q.reserves |-> IF k = sell THEN t ELSE MaxTokens]
           rf == q.reserves[q.first]
<1>5. t \in Nat /\ lim \in Nat /\ t <= lim
  BY <1>1, FeeWithinShare, TollGrows DEF TollLimit
<1>6. q.reserves \in [Mints -> Nat] /\ q.first \in Mints /\ rf \in Nat
  BY DEF PoolOver
<1>7. toll # 0 /\ toll \in Nat
  <2>1. toll \in Nat
    BY <1>1, FeeWithinShare, TollType
  <2>2. QED
    BY <1>1, <1>4, <2>1
<1> HIDE DEF t, lim
<1>8. PICK d \in DepositTokens(q, max, lpSupply) : toll = d.lp
  BY <1>7 DEF TollInLpTokens, t
<1>9. max \in [Mints -> Nat] /\ max[sell] = t
  BY <1>1, <1>5, <1>6
<1> HIDE DEF max
<1>10. rf > 0
  BY <1>1, <1>6, <1>8, <1>9, DepositIsPart
<1>11. toll * rf * SeenReserve(q, sell, t) <= lpSupply * (t * rf * Wad + SeenReserve(q, sell, t))
  BY <1>1, <1>8, <1>9, DepositIsWorthLimit
<1> DEFINE a == SeenReserve(q, sell, t)
           b == SeenReserve(q, sell, lim)
<1>12. a \in Int /\ b \in Int /\ b <= a /\ a - b <= lim - t
  <2>1. Dec(q.reserves[sell]) \in Nat
    BY <1>6, DecimalTypes
  <2>2. QED
    BY <1>5, <2>1 DEF SeenReserve
<1> HIDE DEF a, b
<1>13. toll * rf * b <= lpSupply * (lim * rf * Wad + b)
  <2>1. toll * rf * a <= lpSupply * (t * rf * Wad + a)
    BY <1>11 DEF a
  <2>2. rf \in Nat \ {0}
    BY <1>6, <1>10 DEF rf
  <2>3. QED
    BY <1>1, <1>5, <1>7, <1>12, <2>1, <2>2, LimitMayGrow
<1>14. /\ SeenReserve(pool', m, lim) = b /\ pool'.reserves[pool.first] = rf
       /\ lpSupply' - lpSupply = toll
  BY <1>1, <1>3, <1>4, <1>7 DEF SeenReserve, IsInverted, b, rf
<1>15. QED
  BY <1>3, <1>13, <1>14 DEF lim

\* A deposit in disguise: however the curve, the fee, the discount and the
\* roundings fall, the toll wallet gets no more than its share of the fee and what
\* one token of the first reserve is worth.
THEOREM TollStaysPartOfFee == Spec => TollIsPartOfFee
<1> DEFINE IsPart ==
      \A m \in Mints :
        lpWallet'[Toll] > lpWallet[Toll] /\ pool'.reserves[m] > pool.reserves[m] =>
          LET limit == TollLimit(pool'.reserves[m] - pool.reserves[m])
              seen  == SeenReserve(pool', m, limit)
              first == pool'.reserves[pool.first]
          IN  (lpSupply' - lpSupply) * first * seen
                <= lpSupply * (limit * first * Wad + seen)
<1>1. Sound /\ [Next]_vars => IsPart
  BY OnlySwapsToll, TollBound
<1>2. Sound /\ [Next]_vars => [IsPart]_vars
  BY <1>1
<1> HIDE DEF IsPart
<1>3. Spec => [][IsPart]_vars
  BY <1>2, SpecSound, PTL DEF Spec
<1>4. QED
  BY <1>3 DEF IsPart, TollIsPartOfFee

-----------------------------------------------------------------------------
(* The invariant of a stable curve.                                        *)

\* What update_curve_invariant stores is what the reserves have now.
LEMMA UpdatedIsCurrent ==
  ASSUME NEW p \in PoolOver(Mints), NEW q \in WithCurveInvariant(p), ~IsConstProd(q)
  PROVE  q.invariant = 0 \/ q.invariant \in ComputeInvariant(q.amp, q.reserves)
<1>1. q.reserves = p.reserves /\ q.amp = p.amp
  BY InvariantOnly
<1>2. ~IsConstProd(p)
  BY <1>1 DEF IsConstProd
<1>3. CASE HasEmpty(p)
  BY <1>2, <1>3 DEF WithCurveInvariant, PoolOver
<1>4. CASE ~HasEmpty(p)
  <2>1. PICK n \in Storable(ComputeInvariant(p.amp, p.reserves)) : q = [p EXCEPT !.invariant = n]
    BY <1>2, <1>4 DEF WithCurveInvariant
  <2>2. q.invariant = n /\ n \in ComputeInvariant(p.amp, p.reserves)
    BY <2>1 DEF Storable, PoolOver
  <2>3. QED
    BY <1>1, <2>2
<1>5. QED
  BY <1>3, <1>4

Current == Sound /\ InvariantIsCurrent

LEMMA NextCurrent ==
  ASSUME Current, [Next]_vars
  PROVE  Current'
<1>1. Sound /\ Sound'
  BY NextSound DEF Current
<1>2. SUFFICES ASSUME PoolExists', HasInvariant(pool')
      PROVE  pool'.invariant \in ComputeInvariant(pool'.amp, pool'.reserves)
  BY <1>1 DEF Current, InvariantIsCurrent
<1>3. ~IsConstProd(pool') /\ pool'.invariant > 0 /\ pool'.invariant # 0
  BY <1>2 DEF HasInvariant
<1>4. CASE Recomputed
  BY <1>3, <1>4, UpdatedIsCurrent DEF Recomputed
<1>5. ASSUME NEW amp \in Amplifiers, NEW first \in Mints, CreatePool(amp, first) PROVE FALSE
  BY <1>3, <1>5 DEF CreatePool
<1>6. CASE pool' = pool
  BY <1>2, <1>6 DEF Current, InvariantIsCurrent, PoolExists
<1>7. CASE Aside
  <2>1. /\ PoolExists /\ pool'.reserves = pool.reserves /\ pool'.amp = pool.amp
        /\ pool'.invariant = pool.invariant
    BY <1>2, <1>7 DEF Aside
  <2>2. HasInvariant(pool)
    BY <1>2, <2>1 DEF HasInvariant, IsConstProd
  <2>3. QED
    BY <2>1, <2>2 DEF Current, InvariantIsCurrent
<1>8. CASE \E u \in Users, max \in MaxDeposits : DepositLiquidity(u, max)
  BY <1>1, <1>4, <1>8, DepositEffect
<1>9. CASE \E h \in Holders, burn \in Nat, min \in [Mints -> Nat] : RedeemLiquidity(h, burn, min)
  BY <1>1, <1>4, <1>9, RedeemEffect DEF Redeems
<1>10. CASE \E u \in Users, sell, buy \in Mints, sold, minBuy \in Nat :
              Swap(u, sell, sold, buy, minBuy)
  BY <1>1, <1>4, <1>10, SwapEffect
<1>11. QED
  BY <1>1, <1>5, <1>6, <1>7, <1>8, <1>9, <1>10, StepCases DEF Donate, BurnLp

LEMMA SpecCurrent == Spec => []Current
<1>1. Init => Current
  BY InitSound DEF Init, Current, InvariantIsCurrent, PoolExists
<1>2. QED
  BY <1>1, NextCurrent, PTL DEF Spec

\* Every deposit, redemption and swap computes the invariant of the reserves it
\* leaves, after the fee and the toll, and nothing else changes a reserve: the
\* code does so after a swap too, against README.md:274.
THEOREM InvariantStaysCurrent == Spec => []InvariantIsCurrent
<1>1. Current => InvariantIsCurrent
  BY DEF Current
<1>2. QED
  BY <1>1, SpecCurrent, PTL

\* The rows of Newton's method, one for each iteration that is left, exist.
LEMMA IterationsExist ==
  ASSUME NEW rows, NEW s \in rows, NEW o \in [rows -> rows]
  PROVE  \E f \in [1 .. MaxIterations -> rows] :
           \A k \in 1 .. MaxIterations : f[k] = IF k = 1 THEN s ELSE o[f[k - 1]]
BY RowsExist, MaxIterationsAssumption

\* Newton's method descends from its guess, however many iterations it takes
\* and wherever the truncations fall.
LEMMA NewtonDescends ==
  ASSUME NEW c, c.guess \in Nat, NEW val \in NewtonMethod(c)
  PROVE  val \in Nat /\ val <= c.guess
<1> DEFINE N(v) == NewtonStep(c, v)
           G(left, v, new, more) ==
             IF new >= v THEN {v : p \in Polynomial(c, v) \cap {0}}
             ELSE IF v - new <= AdmissibleError \/ left = 1 THEN {new}
             ELSE more
           E(left, h) == [v \in Nat |-> UNION {G(left, v, new, h[new]) : new \in N(v)}]
           Is(g) == g = [left \in 1 .. MaxIterations |-> E(left, g[left - 1])]
           D == {h \in [Nat -> SUBSET Nat] : \A v \in Nat : \A x \in h[v] : x <= v}
           From == CHOOSE g : Is(g)
<1>1. MaxIterations \in Nat \ {0}
  BY MaxIterationsAssumption
<1>2. \A v \in Nat : N(v) \subseteq Nat
  BY DEF NewtonStep
<1>3. NewtonMethod(c) = From[MaxIterations][c.guess]
  BY DEF NewtonMethod
<1> HIDE DEF N
<1>4. ASSUME NEW left, NEW h, left = 1 \/ h \in D PROVE E(left, h) \in D
  <2>1. ASSUME NEW v \in Nat, NEW new \in N(v), NEW x \in G(left, v, new, h[new])
        PROVE  x \in Nat /\ x <= v
    <3>1. new \in Nat
      BY <1>2
    <3>2. h \in D => h[new] \subseteq Nat /\ \A y \in h[new] : y <= new
      BY <3>1
    <3>3. CASE new >= v
      BY <2>1, <3>3
    <3>4. CASE ~(new >= v)
      <4>1. x = new \/ (x \in h[new] /\ h \in D)
        <5>1. x \in (IF v - new <= AdmissibleError \/ left = 1 THEN {new} ELSE h[new])
          BY <2>1, <3>4
        <5>2. QED
          BY <1>4, <5>1
      <4>2. QED
        BY <3>1, <3>2, <3>4, <4>1
    <3>5. QED
      BY <3>3, <3>4
  <2> HIDE DEF G
  <2>2. QED
    BY <2>1
<1>5. ASSUME NEW i, NEW k, NEW h, NEW e, (i = 1 /\ k = 1) \/ (i # 1 /\ k # 1 /\ h = e)
      PROVE  E(i, h) = E(k, e)
  <2>1. ASSUME NEW v, NEW new
        PROVE  G(i, v, new, h[new]) = G(k, v, new, e[new])
    BY <1>5
  <2> HIDE DEF G
  <2>2. ASSUME NEW v
        PROVE  {G(i, v, new, h[new]) : new \in N(v)} = {G(k, v, new, e[new]) : new \in N(v)}
    BY <2>1
  <2>3. QED
    BY <2>2
<1> DEFINE none == [v \in Nat |-> {}]
           start == E(1, none)
           next == [h \in D |-> E(2, h)]
<1>6. none \in D
  OBVIOUS
<1> HIDE DEF D, E, none
<1>7. start \in D /\ next \in [D -> D]
  BY <1>4, <1>6
<1> HIDE DEF start, next
<1>8. PICK f \in [1 .. MaxIterations -> D] :
        \A k \in 1 .. MaxIterations : f[k] = IF k = 1 THEN start ELSE next[f[k - 1]]
  BY <1>7, IterationsExist
<1>9. Is(f)
  <2>1. ASSUME NEW left \in 1 .. MaxIterations PROVE f[left] = E(left, f[left - 1])
    <3>1. CASE left = 1
      <4>1. f[left] = start
        BY <1>8, <3>1
      <4>2. E(1, none) = E(left, f[left - 1])
        BY <1>5, <3>1
      <4>3. QED
        BY <4>1, <4>2 DEF start
    <3>2. CASE left # 1
      <4>1. f[left - 1] \in D
        BY <1>1, <1>8, <3>2
      <4>2. f[left] = E(2, f[left - 1])
        BY <1>8, <3>2, <4>1 DEF next
      <4>3. QED
        BY <1>5, <3>2, <4>2
    <3>3. QED
      BY <3>1, <3>2
  <2>2. QED
    BY <1>8, <2>1
<1>10. Is(From)
  <2> HIDE DEF Is
  <2>1. QED
    BY <1>9
<1> HIDE DEF From
<1>11. \A k \in 1 .. MaxIterations : From[k] = E(k, From[k - 1])
  BY <1>10
<1> DEFINE T == {k \in Nat : k \in 1 .. MaxIterations => From[k] \in D}
<1>12. T = Nat
  <2>1. 0 \in T
    OBVIOUS
  <2>2. ASSUME NEW k \in T PROVE k + 1 \in T
    <3>1. k \in Nat /\ (k \in 1 .. MaxIterations => From[k] \in D)
      OBVIOUS
    <3>2. SUFFICES ASSUME k + 1 \in 1 .. MaxIterations PROVE From[k + 1] \in D
      BY <3>1
    <3>3. From[k + 1] = E(k + 1, From[k])
      <4>1. From[k + 1] = E(k + 1, From[k + 1 - 1])
        BY <1>11, <3>2
      <4>2. k + 1 - 1 = k
        BY <3>1
      <4>3. QED
        BY <4>1, <4>2
    <3>4. k + 1 = 1 \/ k \in 1 .. MaxIterations
      BY <1>1, <3>1, <3>2
    <3>5. QED
      BY <1>4, <3>1, <3>3, <3>4
  <2> HIDE DEF T
  <2>3. T \subseteq Nat
    BY DEF T
  <2>4. QED
    BY <2>1, <2>2, <2>3, SetInduction
<1>13. From[MaxIterations] \in D
  <2>1. MaxIterations \in 1 .. MaxIterations /\ MaxIterations \in Nat
    BY <1>1
  <2>2. QED
    BY <1>12, <2>1
<1>14. QED
  BY <1>3, <1>13 DEF D

\* A positive value above ScaleBase is less when it is divided by ScaleBase.
LEMMA ScalesDown ==
  ASSUME NEW x \in Nat, x > Dec(ScaleBase)
  PROVE  x \div ScaleBase \in Nat /\ x \div ScaleBase < x
<1>1. Dec(ScaleBase) \in Nat
  BY ScaleBaseAssumption, DecimalTypes
<1>2. x > 0
  BY <1>1
<1>3. x \div ScaleBase \in Nat /\ ScaleBase * (x \div ScaleBase) <= x
  BY ScaleBaseAssumption, Truncates
<1> DEFINE y == x \div ScaleBase
<1>4. y \in Nat /\ ScaleBase * y <= x
  BY <1>3
<1> HIDE DEF y
<1>5. y * 2 <= y * ScaleBase /\ y * ScaleBase = ScaleBase * y /\ y * ScaleBase \in Nat
  BY <1>4, ScaleBaseAssumption, Scales, Products
<1>6. y < x
  BY <1>2, <1>4, <1>5
<1>7. QED
  BY <1>4, <1>6 DEF y

\* scale_down_value ends, and divides by a positive number.
LEMMA CoefIsPositive ==
  ASSUME NEW val \in Nat
  PROVE  ScaleCoef(val) \in Nat \ {0}
<1> DEFINE P == Nat \ {0}
           E(x, h) == IF x > Dec(ScaleBase) THEN ScaleBase * h[x \div ScaleBase] ELSE 1
           Rows(m, g) == \A x \in 0 .. m : g[x] = E(x, g)
           Is(g) == g = [x \in 0 .. val |-> E(x, g)]
           Of == CHOOSE g : Is(g)
           T == {m \in Nat : \E g \in [0 .. m -> P] : Rows(m, g)}
<1>1. \A a \in P : ScaleBase * a \in P
  <2>1. ASSUME NEW a \in P PROVE ScaleBase * a \in P
    <3>1. ScaleBase * a \in Nat
      BY ScaleBaseAssumption, Products
    <3>2. ScaleBase * a # 0
      BY ScaleBaseAssumption
    <3>3. QED
      BY <3>1, <3>2
  <2>2. QED
    BY <2>1
<1>2. 0 \in T
  <2>1. Dec(ScaleBase) \in Nat
    BY ScaleBaseAssumption, DecimalTypes
  <2>2. \A x \in 0 .. 0 : x = 0
    OBVIOUS
  <2>3. [x \in 0 .. 0 |-> 1] \in [0 .. 0 -> P] /\ Rows(0, [x \in 0 .. 0 |-> 1])
    BY <2>1, <2>2
  <2>4. QED
    BY <2>3
<1>3. ASSUME NEW m \in T PROVE m + 1 \in T
  <2>1. m \in Nat
    OBVIOUS
  <2>2. PICK f \in [0 .. m -> P] : Rows(m, f)
    OBVIOUS
  <2> DEFINE longer == [x \in 0 .. m + 1 |-> IF x = m + 1 THEN E(m + 1, f) ELSE f[x]]
  <2>3. \A x \in 0 .. m + 1 : /\ x \in Nat /\ (x = m + 1 \/ x \in 0 .. m)
                              /\ x > Dec(ScaleBase) => x \div ScaleBase \in 0 .. m
    <3>1. ASSUME NEW x \in 0 .. m + 1, x > Dec(ScaleBase) PROVE x \div ScaleBase \in 0 .. m
      <4>1. x \in Nat /\ x <= m + 1
        BY <2>1
      <4>2. x \div ScaleBase \in Nat /\ x \div ScaleBase < x
        BY <3>1, <4>1, ScalesDown
      <4>3. QED
        BY <2>1, <4>1, <4>2
    <3>2. QED
      BY <2>1, <3>1
  <2>4. E(m + 1, f) \in P
    <3>1. m + 1 \in 0 .. m + 1
      BY <2>1
    <3>2. m + 1 > Dec(ScaleBase) => f[(m + 1) \div ScaleBase] \in P
      BY <2>3, <3>1
    <3>3. QED
      BY <1>1, <3>2
  <2>5. \A x \in 0 .. m + 1 : E(x, f) = E(x, longer)
    <3>1. \A y \in 0 .. m : y \in 0 .. m + 1 /\ y # m + 1
      BY <2>1
    <3>2. \A y \in 0 .. m : longer[y] = f[y]
      BY <3>1
    <3> HIDE DEF longer
    <3>3. QED
      BY <2>3, <3>2
  <2>6. longer \in [0 .. m + 1 -> P]
    <3> HIDE DEF E
    <3>1. QED
      BY <2>3, <2>4
  <2>7. Rows(m + 1, longer)
    <3>1. ASSUME NEW x \in 0 .. m + 1 PROVE longer[x] = E(x, f)
      <4> HIDE DEF E
      <4>1. CASE x = m + 1
        BY <4>1
      <4>2. CASE x # m + 1
        BY <2>2, <2>3, <4>2
      <4>3. QED
        BY <4>1, <4>2
    <3> HIDE DEF E, longer
    <3>2. QED
      BY <2>5, <3>1
  <2> HIDE DEF longer, Rows, P
  <2>8. \E h \in [0 .. m + 1 -> P] : Rows(m + 1, h)
    BY <2>6, <2>7
  <2>9. m + 1 \in Nat
    BY <2>1
  <2>10. QED
    BY <2>8, <2>9
<1>4. T = Nat
  <2> HIDE DEF T
  <2>1. T \subseteq Nat
    BY DEF T
  <2>2. QED
    BY <1>2, <1>3, <2>1, SetInduction
<1>5. PICK f \in [0 .. val -> P] : Rows(val, f)
  BY <1>4
<1>6. Is(f)
  <2> HIDE DEF E
  <2>1. QED
    BY <1>5
<1>7. Is(Of)
  <2> HIDE DEF Is
  <2>1. QED
    BY <1>6
<1>8. ScaleCoef(val) = Of[val]
  BY DEF ScaleCoef
<1> HIDE DEF Of
<1>9. \A x \in 0 .. val : Of[x] = E(x, Of)
  <2> HIDE DEF E
  <2>1. QED
    BY <1>7
<1> DEFINE Bad == {x \in 0 .. val : Of[x] \notin P}
<1>10. Bad = {}
  <2>1. SUFFICES ASSUME Bad # {} PROVE FALSE
    OBVIOUS
  <2>2. Bad \subseteq Nat
    OBVIOUS
  <2>3. PICK x \in Bad : \A y \in Bad : x <= y
    <3> HIDE DEF Bad
    <3>1. QED
      BY <2>1, <2>2, LeastElement
  <2>4. x \in Nat /\ x \in 0 .. val /\ Of[x] \notin P
    OBVIOUS
  <2>5. x > Dec(ScaleBase)
    BY <1>9, <2>4
  <2>6. x \div ScaleBase \in Nat /\ x \div ScaleBase < x
    BY <2>4, <2>5, ScalesDown
  <2>7. x \div ScaleBase \in 0 .. val /\ x \div ScaleBase \notin Bad
    BY <2>3, <2>4, <2>6
  <2>8. Of[x \div ScaleBase] \in P
    BY <2>7
  <2>9. QED
    BY <1>1, <1>9, <2>4, <2>5, <2>8
<1>11. QED
  BY <1>8, <1>10

\* What an invariant of stored reserves is at most.
LEMMA InvariantBound ==
  ASSUME NEW amp \in Nat, NEW r \in [Mints -> Nat], NEW d \in ComputeInvariant(amp, r)
  PROVE  d <= Dec(Sum(r))
<1> DEFINE sum == Dec(Sum(r))
           coef == ScaleCoef(sum)
<1>1. Sum(r) \in Nat
  <2>1. DOMAIN r = Mints /\ \A m \in Mints : r[m] \in Nat
    OBVIOUS
  <2>2. Sum(r) = SumFunctionOnSet(r, Mints)
    BY <2>1 DEF Sum, FoldFunction, SumFunctionOnSet
  <2>3. QED
    BY <2>1, <2>2, MintsAssumption, SumUnfolds
<1>2. sum \in Nat /\ coef \in Nat \ {0}
  BY <1>1, DecimalTypes, CoefIsPositive
<1>3. d \in InvariantScaledBy(amp, r, coef)
  BY DEF ComputeInvariant
<1>4. PICK product : \E val \in NewtonMethod(CurveOf(Cardinality(DOMAIN r), amp, sum, coef, product)) :
        d = val * coef
  BY <1>3 DEF InvariantScaledBy
<1>5. PICK val \in NewtonMethod(CurveOf(Cardinality(DOMAIN r), amp, sum, coef, product)) :
        d = val * coef
  BY <1>4
<1> DEFINE c == CurveOf(Cardinality(DOMAIN r), amp, sum, coef, product)
<1> HIDE DEF sum, coef
<1>6. c.guess = sum \div coef
  BY DEF CurveOf
<1>7. sum \div coef \in Nat /\ coef * (sum \div coef) <= sum
  BY <1>2, Truncates
<1> HIDE DEF c
<1>8. val \in Nat /\ val <= sum \div coef
  BY <1>5, <1>6, <1>7, NewtonDescends DEF c
<1>9. coef * val <= coef * (sum \div coef) /\ coef * val = val * coef /\ coef * val \in Nat
      /\ coef * (sum \div coef) \in Nat
  BY <1>2, <1>7, <1>8, Products
<1>10. QED
  BY <1>2, <1>5, <1>7, <1>9 DEF sum

\* The invariant that the trades are priced by never exceeds what the reserves
\* hold together: the guess that Newton's method descends from.
THEOREM InvariantStaysAtMostSum == Spec => []InvariantIsAtMostSum
<1>1. ASSUME Current, PoolExists, ~IsConstProd(pool) PROVE pool.invariant <= Dec(Sum(pool.reserves))
  <2>1. pool.reserves \in [Mints -> Nat] /\ pool.amp \in Nat /\ pool.invariant \in Nat
    BY <1>1, PoolTyped DEF Current, PoolOver
  <2>2. CASE pool.invariant = 0
    <3>1. DOMAIN pool.reserves = Mints /\ \A m \in Mints : pool.reserves[m] \in Nat
      BY <2>1
    <3>2. Sum(pool.reserves) = SumFunctionOnSet(pool.reserves, Mints)
      BY <3>1 DEF Sum, FoldFunction, SumFunctionOnSet
    <3>3. Dec(Sum(pool.reserves)) \in Nat
      BY <3>1, <3>2, MintsAssumption, SumUnfolds, DecimalTypes
    <3>4. QED
      BY <2>2, <3>3
  <2>3. CASE pool.invariant # 0
    <3>1. pool.invariant \in ComputeInvariant(pool.amp, pool.reserves)
      BY <1>1, <2>1, <2>3 DEF Current, InvariantIsCurrent, HasInvariant
    <3>2. QED
      BY <2>1, <3>1, InvariantBound
  <2>4. QED
    BY <2>2, <2>3
<1>2. Current => InvariantIsAtMostSum
  BY <1>1 DEF InvariantIsAtMostSum
<1>3. QED
  BY <1>2, SpecCurrent, PTL
=============================================================================
