------------------------------ MODULE MCLPClient ------------------------------
(* A small instance of LPClient.                                           *)
EXTENDS LPClient

Policy(min, max, nb, rate) ==
    [MinChanSize |-> min, MaxChanSize |-> max, MaxNbChannels |-> nb,
     ChanInvoiceFeeRate |-> rate]

\* The size asked for is 4: too small, too large, affordable twice, too dear.
MCPolicies == {Policy(5, 6, 1, 1), Policy(1, 3, 1, 1), Policy(1, 6, 1, 1),
               Policy(1, 6, 2, 2), Policy(1, 6, 1, 4)}
=============================================================================
