----------------------------- MODULE MCLPServer -----------------------------
(* Small instances of LPServer.                                            *)
EXTENDS LPServer, TLC

Config(min, max, rate, ignored) ==
    [MinChanSize |-> min, MaxChanSize |-> max, ChanInvoiceFeeRate |-> rate,
     IgnoreNodes |-> ignored]

\* One configuration, and everybody is welcome.
MCOneConfig == {Config(2, 3, 1, {})}

\* The operator may raise the fee, narrow the sizes or ignore a node.
MCConfigs == {Config(2, 3, 1, {}), Config(1, 2, 2, {}), Config(3, 3, 1, {}),
              Config(2, 3, 1, Nodes)}

MCSymmetry == Permutations(Reqs)
=============================================================================
