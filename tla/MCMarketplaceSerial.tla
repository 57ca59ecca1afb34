------------------------- MODULE MCMarketplaceSerial -------------------------
(***************************************************************************)
(* The one-at-a-time handlers on the instance of MCMarketplaceAsync.       *)
(***************************************************************************)
EXTENDS MarketplaceSerial, MCMarketplaceAsync

\* Every handler, with two offers to decide on and a second way to settle.
SerialRequests ==
  Sale \cup Completion \cup Payment
  \cup {R("cancel-listing", l1, None, 1), R("offer", o2, None, 1),
        R("accept", o2, None, 1), R("reject", o1, None, 1), R("deal-cancel", o1, None, 1),
        Evidence("fee-right-evidence", o1, x1)}
=============================================================================
