--------------------------- MODULE MCWalletCampaigns ---------------------------
(* A small instance of WalletCampaigns.tla.                                *)
EXTENDS WalletCampaigns

MCOffers == {[amount |-> 1, from |-> 0, to |-> 2], [amount |-> 2, from |-> 0, to |-> 1]}
===============================================================================
