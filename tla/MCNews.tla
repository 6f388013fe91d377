------------------------------- MODULE MCNews -------------------------------
(* Small instances of NewsFeed. *)
EXTENDS NewsFeed

CONSTANTS a, b, b2, c

\* A payment, two fee bumps of it, and a replacement that cuts it down,
\* seen by the wallet it pays.
Amount == (a :> 50000) @@ (b :> 45000) @@ (b2 :> 45000) @@ (c :> 600)
PaymentNet == [w \in Wallets |-> Amount]
PaymentFee ==
  [t \in Txs |-> CASE t = a -> 1 [] t = b -> 2 [] t = b2 -> 3 [] t = c -> 4]
PaymentSpends == [t \in Txs |-> {"coin"}]
=============================================================================
