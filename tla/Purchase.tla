------------------------------ MODULE Purchase ------------------------------
(***************************************************************************)
(* A client and its server: LPClient's environment is LPServer.  The       *)
(* client fetches the policy of the configuration in force, its request is *)
(* one of LPServer's, reached through the HTTP API (V1Handler), which      *)
(* answers with the invoice or with an error; the client's node pays the   *)
(* server's node, and both see the channel open.                           *)
(***************************************************************************)
EXTENDS LPClient, FiniteSets

CONSTANTS Nodes, InvoiceExpiration, NoEntry, MaxTime, Reqs, InvoiceExpiry,
          MaxDrops, Configs, MaxNbChannels, MaxPendingChans, MaxStops,
          Me              \* this client's request

VARIABLES now, pendingChans, inv, subscribed, updates, chan, opens, drops,
          duplicates, cfg, up, spc, winv, lockedAt, db, opener, attempt, stops

serverVars == <<now, pendingChans, inv, subscribed, updates, chan, opens, drops,
                duplicates, cfg, up, spc, winv, lockedAt, db, opener, attempt,
                stops>>
allVars == <<vars, serverVars>>

\* The client pays what the invoice says, and updates come once.
Server == INSTANCE LPServer WITH
              Sizes <- {ChanSize}, MaxOverpay <- 0, MaxDuplicates <- 0,
              invoice <- inv, pc <- spc

\* A slip: the fee that is shown is the default one.
PolicyOfDefaults(c) ==
    [MinChanSize |-> c.MinChanSize, MaxChanSize |-> c.MaxChanSize,
     MaxNbChannels |-> MaxNbChannels, ChanInvoiceFeeRate |-> 2]

\* handlePolicy
PolicyOf(c) ==
    [MinChanSize |-> c.MinChanSize, MaxChanSize |-> c.MaxChanSize,
     MaxNbChannels |-> MaxNbChannels, ChanInvoiceFeeRate |-> c.ChanInvoiceFeeRate]

\* What LPServer assumes of its constants.
ASSUME ServerAssumption ==
    /\ InvoiceExpiration \in Nat \ {0} /\ NoEntry \notin Nat
    /\ InvoiceExpiry \in Nat /\ InvoiceExpiry <= InvoiceExpiration
    /\ MaxTime \in Nat /\ MaxDrops \in Nat /\ MaxStops \in Nat
    /\ MaxNbChannels \in Nat /\ MaxPendingChans \in Nat
    /\ Configs \subseteq [MinChanSize : Nat, MaxChanSize : Nat,
                          ChanInvoiceFeeRate : Nat, IgnoreNodes : SUBSET Nodes]

ASSUME PurchaseAssumption ==
    Me \in Reqs /\ \A c \in Configs : PolicyOf(c) \in Policies

\* A channel's state as the client tells it; a refused channel is none, and one
\* that was closed had opened.
ChannelSeen(state) == CASE state \in {"none", "failed"} -> "none"
                        [] state = "pending" -> "pending"
                        [] OTHER -> "open"

PurchaseInit ==
    /\ Init
    /\ Server!LPInit
    /\ serverPolicy = PolicyOf(cfg)
    /\ existing = 0

-----------------------------------------------------------------------------

\* FetchPolicy and the invoice come over HTTP (lprpcV1Call).
FetchFromServer ==
    /\ FetchPolicy
    /\ up \/ policy' = policy

\* A reply that was sent may arrive whatever became of the server since; any
\* status but OK is an error, and so is silence.
ReceiveInvoice ==
    /\ pc = "invoice"
    /\ \/ spc[Me] = "replied" /\ invoice' = inv[Me].value /\ Goto("validate")
       \/ Return("error") /\ UNCHANGED invoice
    /\ UNCHANGED <<policy, watcher, envVars>>

ClientStep ==
    /\ UNCHANGED serverVars
    /\ \/ FetchFromServer \/ CheckPolicy \/ ReceiveInvoice \/ ValidateInvoice
       \/ Pay \/ PaymentAnswered \/ HearWatcher
       \/ Watcher
       \/ OtherOpens

\* What the client has of the server's steps: the policy it would fetch, what it
\* has paid, and its channel, whose changes its node tells on the event stream.
ClientSees ==
    /\ serverPolicy' = PolicyOf(cfg')
    /\ paid' = inv'[Me].paid
    /\ newChan' = ChannelSeen(chan'[Me])
    /\ IF newChan' = newChan THEN UNCHANGED events ELSE Tell(newChan')
    /\ UNCHANGED <<clientVars, existing, others>>

Settles(q) == inv'[q].state = "settled" /\ inv[q].state /= "settled"

\* The server's own steps, but it hears of the request when the client makes it,
\* and is paid when the client pays; a node refuses to pay for nothing.
ServerStep ==
    /\ Server!Next
    /\ spc'[Me] /= spc[Me] /\ spc[Me] = "idle" => pc = "invoice"
    /\ Settles(Me) => PaymentUnderWay /\ invoice > 0
    /\ ClientSees

PurchaseNext == ClientStep \/ ServerStep

PurchaseSpec == PurchaseInit /\ [][PurchaseNext]_allVars

\* The fairness of LPClient.
FairPurchaseSpec ==
    /\ PurchaseSpec
    /\ WF_allVars(UNCHANGED serverVars /\ HearWatcher)
    /\ WF_allVars(UNCHANGED serverVars /\ WatcherSubscribes)
    /\ WF_allVars(UNCHANGED serverVars /\ WatcherReads)

-----------------------------------------------------------------------------

\* The server, its node and its crashes are the environment LPClient allows for:
\* whatever they do, the client sees no more than LPClient models
\* (lprpcV1Call, RequestChannel).
ImplementsClient == Spec

\* The price the client works out is the price the server asks: what was paid
\* is enough for as long as the policy the client was shown is in force, after
\* any number of others (EstimatedInvoiceAmount, amountForNewChan).
FairDeal == (paid > 0 /\ serverPolicy = policy) => Server!PaidInFull(Me)

\* With no channel of another peer to be mistaken for it, success means that the
\* server took the payment up once and its channel opened (RequestChannel,
\* listenToInvoices, openChannel).
SuccessIsDelivery ==
    (result = "nil" /\ others = 0) =>
        opens[Me] = 1 /\ chan[Me] \in {"open", "closed"} /\ db[Me] = "absent"

\* A client in the middle of paying has its record on the server's disk, even
\* when the process that wrote it is gone (CreateInvoice, RequestChannel).
PayingIsRecorded ==
    (pc \in {"validate", "pay", "settling"} /\ inv[Me].state = "open")
        => Server!Recorded(Me)
=============================================================================
