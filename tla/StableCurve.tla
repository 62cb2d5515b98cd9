----------------------------- MODULE StableCurve -----------------------------
(***************************************************************************)
(* The arithmetic of the stable curve (programs/amm/src/math): the         *)
(* invariant D of given reserves by Newton's method, and the reserve that  *)
(* keeps D after a swap by the quadratic formula.                          *)
(*                                                                         *)
(* A computation that may fail is the set of its results: empty when it    *)
(* fails.  To multiply by a whole Decimal truncates nothing and is written *)
(* as a multiplication by the integer.                                     *)
(***************************************************************************)
EXTENDS Decimals, FiniteSets, Functions

CONSTANTS
  ScaleBase,      \* values are divided by it until none exceeds it; 1000 in the code
  MaxIterations,  \* MAX_ITERATIONS, 32 in the code
  MinProduct      \* the least product of scaled reserves, in units; 10^6 in the code

ASSUME ScaleBaseAssumption == ScaleBase \in Nat \ {0, 1}
ASSUME MaxIterationsAssumption == MaxIterations \in Nat \ {0}
ASSUME MinProductAssumption == MinProduct \in Nat \ {0}

\* fold_product and fold_sum of whole numbers.
Product(f) == FoldFunction(LAMBDA x, y : x * y, 1, f)
Sum(f)     == FoldFunction(LAMBDA x, y : x + y, 0, f)

\* scale_down_value: what a value is divided by, a power of ScaleBase.
ScaleCoef(val) ==
  LET Of[x \in 0 .. val] == IF x > Dec(ScaleBase) THEN ScaleBase * Of[x \div ScaleBase] ELSE 1
  IN  Of[val]

\* StableCurveInvariant: n reserves, the polynomial of the scaled invariant
\*    D^(n+1) + D * first - third
\* and the guess that the method starts from.
CurveOf(n, amp, sum, coef, product) ==
  [n     |-> n,
   guess |-> sum \div coef,
   first |-> (amp * n^n - 1) * n^n * product,
   third |-> Mul(amp * n^n * sum, n^n * product) \div coef]

\* get_stable_swap_polynomial: fails below zero.
Polynomial(c, val) == {Pow(val, c.n + 1) + Mul(val, c.first) - c.third} \cap Nat

Derivative(c, val) == (c.n + 1) * Pow(val, c.n) + c.first

NewtonStep(c, val) ==
  {val - Div(p, Derivative(c, val)) : p \in Polynomial(c, val)} \cap Nat

AdmissibleError == Div(Dec(1), Dec(2))

\* From the guess downwards, until a step is small or the iterations run out.
\* A value that no step lowers must be a root.
NewtonMethod(c) ==
  LET From[left \in 1 .. MaxIterations] ==
        [val \in Nat |->
           UNION {IF new >= val THEN {val : p \in Polynomial(c, val) \cap {0}}
                  ELSE IF val - new <= AdmissibleError \/ left = 1 THEN {new}
                  ELSE From[left - 1][new] : new \in NewtonStep(c, val)}]
  IN  From[MaxIterations][c.guess]

ScaledProduct(tokens, coef) ==
  FoldFunction(LAMBDA x, acc : Mul(acc, Dec(x) \div coef), Dec(1), tokens)

\* Broken variant: scaled up again although nothing was scaled down.
InvariantAlwaysScaled(amp, tokens, coef) ==
  UNION {{val * ScaleBase : val \in
            NewtonMethod(CurveOf(Cardinality(DOMAIN tokens), amp, Dec(Sum(tokens)), coef, product))}
         : product \in {p \in {ScaledProduct(tokens, coef)} : p >= MinProduct}}

InvariantScaledBy(amp, tokens, coef) ==
  UNION {{val * coef : val \in
            NewtonMethod(CurveOf(Cardinality(DOMAIN tokens), amp, Dec(Sum(tokens)), coef, product))}
         : product \in {p \in {ScaledProduct(tokens, coef)} : p >= MinProduct}}

\* stable_curve_invariant::compute
ComputeInvariant(amp, tokens) ==
  IF amp = 0 THEN {}
  ELSE InvariantScaledBy(amp, tokens, ScaleCoef(Dec(Sum(tokens))))

\* Broken variant: the absolute value of b is always subtracted.
QuadraticRootUnsigned(a, first, second, c) ==
  LET b == IF second < first THEN first - second ELSE second - first
  IN  {(root - b) \div (2 * a) : root \in {r \in {Sqrt(Pow(b, 2) + 4 * a * c)} : r >= b}}

\* The positive root of  a y^2 + b y = c,  b of either sign.
QuadraticRoot(a, first, second, c) ==
  LET Discriminator(b) == Sqrt(Pow(b, 2) + 4 * a * c)
  IN  IF second < first
        THEN {(Discriminator(first - second) + (first - second)) \div (2 * a)}
        ELSE {(root - (second - first)) \div (2 * a)
                : root \in {r \in {Discriminator(second - first)} : r >= second - first}}

\* get_buy_reserve_balance_after_swap, with d, sum and product scaled down
BuyReserveScaled(n, amp, d, sum, product) ==
  IF product < MinProduct THEN {}
  ELSE QuadraticRoot(amp * n^n, d * (amp * n^n - 1), amp * n^n * sum,
                     Div(Pow(d, n + 1), n^n * product))

\* get_buy_reserve_balance_after_swap: the reserves other than the bought one
\* are given by their sum and product.
BuyReserveScaledBy(n, amp, d, sum, product, coef) ==
  {y * coef : y \in BuyReserveScaled(n, amp, d \div coef, sum \div coef,
                                     product \div coef^(n - 1))}

BuyReserveAfterSwap(n, amp, d, sum, product) ==
  BuyReserveScaledBy(n, amp, d, sum, product, ScaleCoef(d))
=============================================================================
