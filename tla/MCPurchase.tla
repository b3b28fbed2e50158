----------------------------- MODULE MCPurchase -----------------------------
(* A small instance of Purchase.                                           *)
EXTENDS Purchase

Config(min, max, rate) ==
    [MinChanSize |-> min, MaxChanSize |-> max, ChanInvoiceFeeRate |-> rate,
     IgnoreNodes |-> {}]

\* For a channel of 3 at a scale of 4: 1 and a half, 3, nothing, too small.
MCConfigs == {Config(1, 3, 2), Config(1, 6, 4), Config(1, 6, 1),
              Config(4, 6, 2)}

MCPolicies == {PolicyOf(c) : c \in MCConfigs}
=============================================================================
