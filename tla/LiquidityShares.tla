--------------------------- MODULE LiquidityShares ---------------------------
(***************************************************************************)
(* What a pool promises liquidity providers, with no curve arithmetic, no  *)
(* fees and no token accounts: a fund of several assets is held in parts.  *)
(* A withdrawal takes at most the parts' share of every asset, to withdraw *)
(* the last part leaves nothing behind, new parts are paid for in assets,  *)
(* and an exchange keeps the product of the amounts; what a stable curve   *)
(* keeps instead is not told here.  Amm implements this specification.     *)
(***************************************************************************)
EXTENDS Integers, Functions

CONSTANTS
  Assets, Holders,
  Precision  \* amounts are compared to one part in Precision of the amounts given

VARIABLES
  fund,   \* fund[a]: how much of an asset the parts stand for
  parts,  \* parts[h]: what a holder owns of it
  curve   \* "none" before the fund opens, then "product" or "stable"

vars == <<fund, parts, curve>>

Total(f)   == FoldFunction(LAMBDA x, y : x + y, 0, f)
Times(f)   == FoldFunction(LAMBDA x, y : x * y, 1, f)

Init ==
  /\ fund \in [Assets -> Nat]
  /\ parts \in [Holders -> Nat]
  /\ curve = "none"

Gift ==
  /\ curve = "none"
  /\ \A a \in Assets : fund'[a] >= fund[a]
  /\ UNCHANGED <<parts, curve>>

\* A fund opens with assets exactly when somebody holds a part of it.
Open ==
  /\ curve = "none"
  /\ \A a \in Assets : fund[a] > 0 <=> Total(parts) > 0
  /\ curve' \in {"product", "stable"}
  /\ UNCHANGED <<fund, parts>>

Grows == \A a \in Assets : fund'[a] >= fund[a]

OnlyChanges(h) == \A g \in Holders \ {h} : parts'[g] = parts[g]

\* A contribution to a fund that nobody holds a part of sets the parts freely.
\* Otherwise some asset is not paid less than the new parts' share of it.
Contribute(h) ==
  /\ curve # "none"
  /\ Grows
  /\ parts'[h] > parts[h] /\ OnlyChanges(h)
  /\ Total(parts) > 0 =>
       \E a \in Assets :
         (parts'[h] - parts[h]) * fund[a] <= Total(parts) * (fund'[a] - fund[a])
  /\ UNCHANGED curve

\* Each asset shrinks by at most the share that is given up.
Withdraw(h) ==
  /\ curve # "none"
  /\ parts'[h] <= parts[h] /\ OnlyChanges(h)
  /\ \A a \in Assets :
       /\ fund'[a] <= fund[a]
       /\ (fund[a] - fund'[a]) * Total(parts) <= fund[a] * (parts[h] - parts'[h])
       /\ Total(parts') = 0 => fund'[a] = 0
  /\ UNCHANGED curve

\* Parts may also be given up for nothing.
Forgo(h) ==
  /\ parts'[h] < parts[h] /\ OnlyChanges(h)
  /\ UNCHANGED <<fund, curve>>

\* One asset for another; some holder may earn parts for it.
Exchange(given, taken, earner) ==
  /\ curve # "none" /\ Total(parts) > 0
  /\ fund'[given] > fund[given] /\ fund'[taken] <= fund[taken]
  /\ \A a \in Assets \ {given, taken} : fund'[a] = fund[a]
  /\ curve = "product" =>
       Times(fund') * Precision >=
         Times(fund) * Precision - Times([a \in Assets \ {taken} |-> fund'[a]])
  /\ parts'[earner] >= parts[earner] /\ OnlyChanges(earner)
  /\ UNCHANGED curve

Next ==
  \/ Gift \/ Open
  \/ \E h \in Holders : Contribute(h) \/ Withdraw(h) \/ Forgo(h)
  \/ \E given, taken, earner \in Assets \cup Holders :
       /\ {given, taken} \subseteq Assets /\ given # taken /\ earner \in Holders
       /\ Exchange(given, taken, earner)

Spec == Init /\ [][Next]_vars
=============================================================================
