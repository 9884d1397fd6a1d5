------------------------------ MODULE WalletDraw ------------------------------
(***************************************************************************)
(* The arithmetic of paying one order partly from the wallet and partly by *)
(* card (batch-orders.service.ts, ADR 0169): pure functions of a balance   *)
(* and an order total, in minor units.                                     *)
(***************************************************************************)
EXTENDS Integers

CONSTANT MinCharge      \* the smallest amount Stripe will put on a card

ASSUME MinChargeAssumption == MinCharge \in Nat

Larger(a, b) == IF a >= b THEN a ELSE b

Smaller(a, b) == IF a <= b THEN a ELSE b

\* What is left for the wallet once the card carries at least the minimum.
MostTheWalletMayTake(total) == Larger(0, total - MinCharge)

\* walletDrawFor: how much of the total this balance should pay.
WalletDrawFor(balance, total) ==
  IF balance <= 0 THEN 0
  ELSE IF balance >= total THEN total
  ELSE IF total - balance >= MinCharge THEN balance
  ELSE MostTheWalletMayTake(total)

\* Mutant: the second bound of the reservation is left out.
CheckoutDrawUnbounded(balance, total) == WalletDrawFor(balance, total)

\* What checkout reserves: never the full total, that case settled earlier.
CheckoutDraw(balance, total) ==
  Smaller(WalletDrawFor(balance, total), MostTheWalletMayTake(total))
===============================================================================
