----------------------------- MODULE MCLifecycle -----------------------------
(* A small instance of Lifecycle.                                          *)
EXTENDS Lifecycle

Options(kind, nets, opts) == [kind |-> kind, nets |-> nets, opts |-> opts]

\* Nothing, help, an error, a conflict, values at a limit, a relative home.
MCCmdLines == {
    NoOptions,
    Options("done", {}, <<>>),
    Options("bad", {}, <<>>),
    Options("ok", {"mainnet", "testnet"}, <<>>),
    Options("ok", {"testnet"}, [minchanlifetime |-> 240]),
    Options("ok", {"simnet"}, [maxchansize |-> MaxSize]),
    Options("ok", {}, [appdata |-> <<"lp">>, invoiceexpiration |-> 3])}

\* Nothing set, no file, one that cannot be parsed, a network of its own, values
\* the command line may or may not replace, an unexpanded home.
MCFiles == {
    NoOptions,
    Options("missing", {}, <<>>),
    Options("broken", {}, <<>>),
    Options("ok", {"testnet"}, [minchanlifetime |-> 239,
                                lnmacaroonpath |-> "testnet"]),
    Options("ok", {}, [invoiceexpiration |-> 1, minchanlifetime |-> 240]),
    Options("ok", {}, [appdata |-> <<"~", "lp">>, maxchansize |-> MaxSize + 1,
                       lnmacaroonpath |-> "testnet"]),
    Options("ok", {}, [maxchansize |-> -1])}

MCCwds == {<<"/">>, <<"/", "srv">>}
MCHomeDir == <<"/", "home">>
=============================================================================
