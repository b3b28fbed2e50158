--------------------------- MODULE PurchaseProofs ---------------------------
(* A purchase is a run of LPServer and a run of LPClient at once, so what is *)
(* proved of either holds of both together; and what only both can promise.  *)
EXTENDS Purchase, LPClientProofs

\* LPServer's theorems, for the server of the purchase.
SP == INSTANCE LPServerProofs WITH
          Sizes <- {ChanSize}, MaxOverpay <- 0, MaxDuplicates <- 0,
          invoice <- inv, pc <- spc

-----------------------------------------------------------------------------
(* The server these theorems are about is the server of the purchase.      *)

\* They count alike.
LEMMA SameCount == \A S : Server!Cardinality(S) = SP!Cardinality(S)
  BY DEF Server!Cardinality, SP!Cardinality

\* CreateInvoice, action by action.
LEMMA SameHandler == \A q : Server!Handler(q) <=> SP!Handler(q)
<1> TAKE q
<1> USE DEF Server!At, SP!At, Server!Goto, SP!Goto, Server!lnVars, SP!lnVars,
            Server!tableVars, SP!tableVars
<1>1. Server!Submit(q) <=> SP!Submit(q)
  BY DEF Server!Submit, SP!Submit
<1>2. Server!CheckPolicy(q) <=> SP!CheckPolicy(q)
  BY SameCount
     DEF Server!CheckPolicy, SP!CheckPolicy, Server!CanCreateChannel,
         SP!CanCreateChannel, Server!WithinPolicy, SP!WithinPolicy,
         Server!ChannelsWith, SP!ChannelsWith, Server!OpenChannels,
         SP!OpenChannels
<1>3. Server!CheckCapacity(q) <=> SP!CheckCapacity(q)
  BY SameCount
     DEF Server!CheckCapacity, SP!CheckCapacity, Server!HasMaxPendingChannels,
         SP!HasMaxPendingChannels, Server!PendingOpenChannels,
         SP!PendingOpenChannels
<1>4. Server!LockNode(q) <=> SP!LockNode(q)
  BY DEF Server!LockNode, SP!LockNode, Server!RegisterRequest,
         SP!RegisterRequest, Server!HasPending, SP!HasPending, Server!Stale,
         SP!Stale
<1>5. Server!AddInvoice(q) <=> SP!AddInvoice(q)
  BY DEF Server!AddInvoice, SP!AddInvoice, Server!LNAddInvoice, SP!LNAddInvoice,
         Server!AmountForNewChan, SP!AmountForNewChan
<1>6. Server!CreateFile(q) <=> SP!CreateFile(q)
  BY DEF Server!CreateFile, SP!CreateFile
<1>7. Server!WriteAndReply(q) <=> SP!WriteAndReply(q)
  BY DEF Server!WriteAndReply, SP!WriteAndReply
<1> QED
  BY <1>1, <1>2, <1>3, <1>4, <1>5, <1>6, <1>7 DEF Server!Handler, SP!Handler

\* openChannel, action by action.
LEMMA SameOpener == \A q : Server!Opener(q) <=> SP!Opener(q)
<1> TAKE q
<1> USE DEF Server!OpenerAt, SP!OpenerAt, Server!OpenerGoto, SP!OpenerGoto,
            Server!lnVars, SP!lnVars, Server!tableVars, SP!tableVars,
            Server!MaxAttempts, SP!MaxAttempts
<1>1. Server!OpenerChecks(q) <=> SP!OpenerChecks(q)
  BY SameCount
     DEF Server!OpenerChecks, SP!OpenerChecks, Server!CanCreateChannel,
         SP!CanCreateChannel, Server!WithinPolicy, SP!WithinPolicy,
         Server!ChannelsWith, SP!ChannelsWith, Server!OpenChannels,
         SP!OpenChannels
<1>2. Server!OpenerCalls(q) <=> SP!OpenerCalls(q)
  BY DEF Server!OpenerCalls, SP!OpenerCalls, Server!LNOpenChannel,
         SP!LNOpenChannel
<1>3. Server!OpenerFails(q) <=> SP!OpenerFails(q)
  BY DEF Server!OpenerFails, SP!OpenerFails
<1>4. Server!OpenerRetries(q) <=> SP!OpenerRetries(q)
  BY DEF Server!OpenerRetries, SP!OpenerRetries
<1>5. Server!OpenerSeesOpen(q) <=> SP!OpenerSeesOpen(q)
  BY DEF Server!OpenerSeesOpen, SP!OpenerSeesOpen, Server!ReleaseNode,
         SP!ReleaseNode
<1>6. Server!OpenerStreamEnds(q) <=> SP!OpenerStreamEnds(q)
  BY DEF Server!OpenerStreamEnds, SP!OpenerStreamEnds
<1> QED
  BY <1>1, <1>2, <1>3, <1>4, <1>5, <1>6
     DEF Server!Opener, SP!Opener, Server!OpenerStep, SP!OpenerStep

\* The payment and the node's own steps.
LEMMA SameNode == \A q : /\ Server!ClientPays(q) <=> SP!ClientPays(q)
                         /\ Server!NodeActs(q) <=> SP!NodeActs(q)
<1> TAKE q
<1> USE DEF Server!Payable, SP!Payable, Server!Notify, SP!Notify,
            Server!tableVars, SP!tableVars, Server!lpVars, SP!lpVars
<1>1. Server!ClientPays(q) <=> SP!ClientPays(q)
  BY DEF Server!ClientPays, SP!ClientPays, Server!LNSettle, SP!LNSettle
<1>2. Server!NodeActs(q) <=> SP!NodeActs(q)
  BY DEF Server!NodeActs, SP!NodeActs, Server!LNCancel, SP!LNCancel,
         Server!LNDuplicate, SP!LNDuplicate, Server!LNConfirm, SP!LNConfirm,
         Server!LNClose, SP!LNClose
<1> QED
  BY <1>1, <1>2

\* listenToInvoices, action by action.
LEMMA SameListener == Server!Listener <=> SP!Listener
<1> USE DEF Server!NextUpdate, SP!NextUpdate, Server!ReadUpdate, SP!ReadUpdate,
            Server!RemoveFile, SP!RemoveFile, Server!Recorded, SP!Recorded,
            Server!PaidInFull, SP!PaidInFull, Server!AmountForNewChan,
            SP!AmountForNewChan, Server!tableVars, SP!tableVars,
            Server!lpVars, SP!lpVars
<1>1. Server!Subscribe <=> SP!Subscribe
  BY DEF Server!Subscribe, SP!Subscribe, Server!LNSubscribe, SP!LNSubscribe
<1>2. \A q : /\ Server!HandleCanceled(q) <=> SP!HandleCanceled(q)
             /\ Server!HandleSettled(q) <=> SP!HandleSettled(q)
             /\ Server!IgnoreSettled(q) <=> SP!IgnoreSettled(q)
  BY DEF Server!HandleCanceled, SP!HandleCanceled, Server!HandleSettled,
         SP!HandleSettled, Server!IgnoreSettled, SP!IgnoreSettled
<1> QED
  BY <1>1, <1>2 DEF Server!Listener, SP!Listener

\* The cleanup, the process, the stream and the clock.
LEMMA SameProcess == /\ Server!SweepTable <=> SP!SweepTable
                     /\ Server!Stop <=> SP!Stop
                     /\ Server!Restart <=> SP!Restart
                     /\ Server!StreamBreaks <=> SP!StreamBreaks
                     /\ Server!TimePasses <=> SP!TimePasses
  BY DEF Server!SweepTable, SP!SweepTable, Server!Sweep, SP!Sweep,
         Server!HasPending, SP!HasPending, Server!Stale, SP!Stale,
         Server!Stop, SP!Stop, Server!ForgetTable, SP!ForgetTable,
         Server!EmptyTable, SP!EmptyTable, Server!InFlight, SP!InFlight,
         Server!Active, SP!Active, Server!Restart, SP!Restart,
         Server!StreamBreaks, SP!StreamBreaks, Server!LNDrop, SP!LNDrop,
         Server!TimePasses, SP!TimePasses, Server!Tick, SP!Tick,
         Server!tableVars, SP!tableVars, Server!lnVars, SP!lnVars,
         Server!lpVars, SP!lpVars

\* The server's start and its steps, whole.
LEMMA SameServer == /\ Server!LPInit => SP!LPInit
                    /\ Server!Next => SP!Next
                    /\ Server!vars = SP!vars
<1>1. Server!LPInit => SP!LPInit
  BY DEF Server!LPInit, SP!LPInit, Server!TableInit, SP!TableInit,
         Server!EmptyTable, SP!EmptyTable, Server!LNInit, SP!LNInit,
         Server!NoInvoice, SP!NoInvoice
<1>2. ASSUME Server!Next
      PROVE  SP!Next
  <2>1. CASE \E q \in Reqs : \/ Server!Handler(q) \/ Server!Opener(q)
                             \/ Server!ClientPays(q) \/ Server!NodeActs(q)
    BY <2>1, SameHandler, SameOpener, SameNode DEF SP!Next
  <2>2. CASE Server!Listener
    BY <2>2, SameListener DEF SP!Next
  <2>3. CASE \/ Server!SweepTable \/ Server!Stop \/ Server!Restart
             \/ Server!StreamBreaks \/ Server!TimePasses
    BY <2>3, SameProcess DEF SP!Next
  <2> QED
    BY <1>2, <2>1, <2>2, <2>3 DEF Server!Next
<1>3. Server!vars = SP!vars
  BY DEF Server!vars, SP!vars, Server!tableVars, SP!tableVars, Server!lnVars,
         SP!lnVars, Server!lpVars, SP!lpVars
<1> QED
  BY <1>1, <1>2, <1>3

-----------------------------------------------------------------------------
(* The purchase runs the server.                                           *)

\* What LPServer assumes holds of the constants the purchase gives it.
LEMMA ServerConstants ==
    /\ InvoiceExpiration \in Nat \ {0} /\ MaxTime \in Nat /\ NoEntry \notin Nat
    /\ InvoiceExpiry \in Nat /\ InvoiceExpiry <= InvoiceExpiration
    /\ 0 \in Nat /\ MaxDrops \in Nat /\ {ChanSize} \subseteq Nat
    /\ Configs \subseteq [MinChanSize : Nat, MaxChanSize : Nat,
                          ChanInvoiceFeeRate : Nat, IgnoreNodes : SUBSET Nodes]
    /\ RateScale \in Nat \ {0}
    /\ MaxNbChannels \in Nat /\ MaxPendingChans \in Nat /\ MaxStops \in Nat
  BY ServerAssumption, ClientAssumption

\* Whatever the client does, the server goes on as LPServer says: the client and
\* its HTTP calls keep no promise for it (V1Handler).
LEMMA PurchaseStepIsServerStep == [PurchaseNext]_allVars => [SP!Next]_(SP!vars)
<1>1. UNCHANGED serverVars => UNCHANGED SP!vars
  BY DEF serverVars, SP!vars, SP!tableVars, SP!lnVars, SP!lpVars
<1> QED
  BY <1>1, SameServer DEF PurchaseNext, ClientStep, ServerStep, allVars

\* The server of a purchase is LPServer's.
THEOREM PurchaseRunsServer == PurchaseSpec => SP!Spec
<1>1. PurchaseInit => SP!LPInit
  BY SameServer DEF PurchaseInit
<1> QED
  BY <1>1, PurchaseStepIsServerStep, PTL DEF PurchaseSpec, SP!Spec

\* What is known of the server and of this client's request.
ServerInv == SP!LPTypeOK /\ SP!IInv /\ SP!BoughtInv(Me)

\* LPServer's theorems, and that the client's request is one of its requests.
LEMMA ServerInvCorrect == PurchaseSpec => []ServerInv
<1>1. SP!Spec => []SP!LPTypeOK
  BY SP!LPTypeCorrect, ServerConstants
<1>2. SP!Spec => []SP!IInv
  BY SP!InvCorrect, ServerConstants
<1>3. SP!Spec => [](\A q \in Reqs : SP!BoughtInv(q))
  BY SP!BoughtCorrect, ServerConstants
<1>4. (\A q \in Reqs : SP!BoughtInv(q)) => SP!BoughtInv(Me)
  BY PurchaseAssumption
<1> QED
  BY <1>1, <1>2, <1>3, <1>4, PurchaseRunsServer, PTL DEF ServerInv

-----------------------------------------------------------------------------
(* Where the two meet.                                                     *)

\* The client got the invoice (RequestChannel past lprpcV1Call).
HasInvoice == pc \in {"validate", "pay", "settling", "wait"} \/ watcher /= "none"

\* The client sees its server as it is, it has the invoice its server made for
\* it, and a settled invoice was paid for with more than nothing.
JoinInv ==
    /\ serverPolicy = PolicyOf(cfg)
    /\ paid = inv[Me].paid
    /\ newChan = ChannelSeen(chan[Me])
    /\ HasInvoice => spc[Me] = "replied" /\ invoice = inv[Me].value
    /\ inv[Me].state = "settled" => paid > 0

\* Before the request, nothing was seen and nothing is due (New).
LEMMA JoinInit == PurchaseInit => JoinInv
  BY SameServer, PurchaseAssumption
     DEF PurchaseInit, Init, SP!LPInit, SP!LNInit, SP!NoInvoice, JoinInv,
         HasInvoice, ChannelSeen

\* The client's own steps: the only invoice it ever takes is the one its server
\* replied with (ReceiveInvoice).
LEMMA ClientJoinStep ==
    ASSUME JoinInv, ClientStep
    PROVE  JoinInv'
<1>1. UNCHANGED <<cfg, inv, chan, spc>>
  BY DEF ClientStep, serverVars
<1>2. UNCHANGED <<serverPolicy, paid, newChan>>
  BY DEF ClientStep, FetchFromServer, FetchPolicy, CheckPolicy, ReceiveInvoice,
         ValidateInvoice, Pay, PaymentAnswered, HearWatcher, Watcher,
         WatcherSubscribes, WatcherReads, WatcherLosesStream, OtherOpens, envVars
<1>3. CASE ReceiveInvoice
  BY <1>1, <1>2, <1>3 DEF ReceiveInvoice, JoinInv, HasInvoice, Goto, Return, PolicyOf
<1>4. CASE ~ReceiveInvoice
  <2>1. invoice' = invoice /\ (HasInvoice' => HasInvoice)
    BY <1>4 DEF ClientStep, FetchFromServer, FetchPolicy, CheckPolicy,
                ValidateInvoice, Pay, PaymentAnswered, HearWatcher, Watcher,
                WatcherSubscribes, WatcherReads, WatcherLosesStream, OtherOpens,
                clientVars, HasInvoice, Goto, Return
  <2> QED
    BY <1>1, <1>2, <2>1 DEF JoinInv, PolicyOf
<1> QED
  BY <1>3, <1>4

\* The server's steps: its invoice stays as the client got it, and it is settled
\* only by the client's payment (ServerStep).
LEMMA ServerJoinStep ==
    ASSUME ServerInv, JoinInv, ServerStep
    PROVE  JoinInv'
<1>1. SP!Next
  BY SameServer DEF ServerStep
<1>2. spc[Me] = "replied" => spc'[Me] = "replied"
  BY <1>1, PurchaseAssumption, ServerConstants, SP!HandlerMoves DEF ServerInv
<1>3. \/ SP!Restart /\ SP!NothingMoves(Me)
      \/ cfg' = cfg /\ \/ SP!InvoiceMoves(Me)
                       \/ SP!ChannelMoves(Me)
                       \/ SP!NothingMoves(Me)
  BY <1>1, PurchaseAssumption, ServerConstants, SP!RequestMoves DEF ServerInv
<1>4. \/ inv'[Me] = inv[Me]
      \/ SP!IsOffered(Me)
      \/ SP!IsSettled(Me)
      \/ SP!IsCanceled(Me)
  BY <1>3 DEF SP!NothingMoves, SP!InvoiceMoves, SP!ChannelMoves
<1>5. /\ serverPolicy' = PolicyOf(cfg)' /\ paid' = inv'[Me].paid
      /\ newChan' = ChannelSeen(chan'[Me])
      /\ UNCHANGED <<pc, watcher, invoice>>
  BY DEF ServerStep, ClientSees, clientVars, PolicyOf
<1>6. HasInvoice' => spc'[Me] = "replied" /\ invoice' = inv'[Me].value
  <2>1. ASSUME HasInvoice
        PROVE  inv'[Me].value = inv[Me].value
    BY <1>4, <2>1 DEF JoinInv, SP!IsOffered, SP!IsSettled, SP!IsCanceled
  <2> QED
    BY <1>2, <1>5, <2>1 DEF JoinInv, HasInvoice
<1>7. inv'[Me].state = "settled" => paid' > 0
  <2>1. CASE SP!IsSettled(Me)
    <3>1. PaymentUnderWay /\ invoice > 0
      BY <2>1 DEF ServerStep, Settles, SP!IsSettled
    <3>2. invoice = inv[Me].value
      BY <3>1 DEF JoinInv, HasInvoice, PaymentUnderWay
    <3>3. PICK extra \in 0..0 : inv'[Me].paid = inv[Me].value + extra
      BY <2>1 DEF SP!IsSettled
    <3>4. inv[Me].value \in Nat
      BY PurchaseAssumption DEF ServerInv, SP!LPTypeOK, SP!LNTypeOK
    <3> QED
      BY <1>5, <3>1, <3>2, <3>3, <3>4
  <2>2. CASE inv'[Me] = inv[Me]
    BY <1>5, <2>2 DEF JoinInv
  <2>3. CASE SP!IsOffered(Me) \/ SP!IsCanceled(Me)
    BY <2>3 DEF SP!IsOffered, SP!IsCanceled
  <2> QED
    BY <1>4, <2>1, <2>2, <2>3
<1> QED
  BY <1>5, <1>6, <1>7 DEF JoinInv

\* A step that changes nothing changes nothing here.
LEMMA JoinStep ==
    ASSUME ServerInv, JoinInv, [PurchaseNext]_allVars
    PROVE  JoinInv'
<1>1. CASE UNCHANGED allVars
  BY <1>1 DEF allVars, vars, clientVars, envVars, serverVars, JoinInv, HasInvoice,
              PolicyOf
<1> QED
  BY <1>1, ClientJoinStep, ServerJoinStep DEF PurchaseNext

\* The invariant of the purchase.
LEMMA JoinCorrect == PurchaseSpec => [](ServerInv /\ JoinInv)
<1>1. ServerInv /\ JoinInv /\ [PurchaseNext]_allVars => JoinInv'
  BY JoinStep
<1> QED
  BY JoinInit, <1>1, ServerInvCorrect, PTL DEF PurchaseSpec

-----------------------------------------------------------------------------
(* The purchase implements the client.                                     *)

\* What an invoice of this server asks for is the client's estimate under some
\* policy the server may publish (amountForNewChan, EstimatedInvoiceAmount).
LEMMA InvoiceIsAnEstimate ==
    ASSUME ServerInv, spc[Me] = "replied"
    PROVE  \E p \in Policies : inv[Me].value = EstimatedInvoiceAmount(p)
<1>1. winv[Me].ChannelSize = ChanSize
  BY PurchaseAssumption DEF ServerInv, SP!LPTypeOK, SP!ServerTypeOK
<1>2. PICK c \in Configs : inv[Me].value = SP!PriceUnder(c, ChanSize)
  BY <1>1 DEF ServerInv, SP!BoughtInv, SP!Invoiced
<1>3. inv[Me].value = EstimatedInvoiceAmount(PolicyOf(c))
  BY <1>2 DEF SP!PriceUnder, EstimatedInvoiceAmount, PolicyOf
<1> QED
  BY <1>3, PurchaseAssumption

\* A channel, or a goroutine about to ask for one, was paid for with more than
\* nothing (listenToInvoices, openChannel).
LEMMA ChannelIsPaid ==
    ASSUME ServerInv, JoinInv, chan[Me] /= "none" \/ opener[Me] = "try"
    PROVE  paid > 0
<1>1. opener[Me] /= "none"
  BY PurchaseAssumption
     DEF ServerInv, SP!IInv, SP!RequestInv, SP!OpenerInv, SP!BoughtInv
<1>2. inv[Me].state = "settled"
  BY <1>1, PurchaseAssumption DEF ServerInv, SP!IInv, SP!RequestInv, SP!PaymentInv
<1> QED
  BY <1>2 DEF JoinInv

\* The client's steps are LPClient's.
LEMMA ClientStepIsClientNext ==
    ASSUME ServerInv, ClientStep
    PROVE  Next
<1>1. CASE FetchFromServer
  BY <1>1 DEF FetchFromServer, Next, Request
<1>2. CASE ReceiveInvoice
  <2>1. CASE spc[Me] = "replied" /\ invoice' = inv[Me].value /\ Goto("validate")
    BY <1>2, <2>1, InvoiceIsAnEstimate
       DEF ReceiveInvoice, RequestInvoice, Next, Request
  <2>2. CASE Return("error") /\ UNCHANGED invoice
    BY <1>2, <2>2 DEF ReceiveInvoice, RequestInvoice, Next, Request
  <2> QED
    BY <1>2, <2>1, <2>2 DEF ReceiveInvoice
<1>3. CASE \/ CheckPolicy \/ ValidateInvoice \/ Pay \/ PaymentAnswered
           \/ HearWatcher \/ Watcher \/ OtherOpens
  BY <1>3 DEF Next, Request, Environment
<1> QED
  BY <1>1, <1>2, <1>3 DEF ClientStep

\* The server's steps are the environment's: it restarts under another policy,
\* is paid, or opens the channel, and what else it does the client does not see.
LEMMA ServerStepIsEnvironment ==
    ASSUME ServerInv, JoinInv, ServerStep
    PROVE  [Next]_vars
<1>1. SP!Next
  BY SameServer DEF ServerStep
<1>2. cfg' \in Configs
  BY <1>1, ServerConstants, SP!LPTypeStep
     DEF ServerInv, SP!LPTypeOK, SP!ServerTypeOK
<1>3. \/ SP!Restart /\ SP!NothingMoves(Me)
      \/ cfg' = cfg /\ \/ SP!InvoiceMoves(Me)
                       \/ SP!ChannelMoves(Me)
                       \/ SP!NothingMoves(Me)
  BY <1>1, PurchaseAssumption, ServerConstants, SP!RequestMoves DEF ServerInv
<1>4. /\ serverPolicy' = PolicyOf(cfg') /\ serverPolicy' \in Policies
      /\ paid' = inv'[Me].paid /\ newChan' = ChannelSeen(chan'[Me])
      /\ newChan' = newChan => UNCHANGED events
      /\ newChan' /= newChan => Tell(newChan')
      /\ UNCHANGED <<clientVars, existing, others>>
  BY <1>2, PurchaseAssumption DEF ServerStep, ClientSees
<1>5. /\ serverPolicy = PolicyOf(cfg) /\ paid = inv[Me].paid
      /\ newChan = ChannelSeen(chan[Me])
  BY DEF JoinInv
<1>6. cfg' = cfg => serverPolicy' = serverPolicy
  BY <1>4, <1>5
<1>7. inv'[Me] = inv[Me] => paid' = paid
  BY <1>4, <1>5
<1>8. chan'[Me] = chan[Me] => newChan' = newChan /\ UNCHANGED events
  BY <1>4, <1>5
<1>9. ASSUME UNCHANGED <<serverPolicy, paid, newChan>>
      PROVE  UNCHANGED vars
  BY <1>4, <1>9 DEF vars, envVars
<1>10. CASE SP!NothingMoves(Me)
  <2>1. UNCHANGED <<paid, newChan, events>>
    BY <1>7, <1>8, <1>10 DEF SP!NothingMoves, SP!SameChannel
  <2>2. CASE serverPolicy' /= serverPolicy
    BY <1>4, <2>1, <2>2 DEF Next, Environment, ServerRestarts
  <2>3. CASE serverPolicy' = serverPolicy
    BY <1>9, <2>1, <2>3
  <2> QED
    BY <2>2, <2>3
<1>11. CASE cfg' = cfg /\ SP!InvoiceMoves(Me)
  <2>1. UNCHANGED <<serverPolicy, newChan, events>>
    BY <1>6, <1>8, <1>11 DEF SP!InvoiceMoves, SP!SameChannel
  <2>2. CASE SP!IsOffered(Me) \/ SP!IsCanceled(Me)
    <3>1. paid' = paid
      BY <1>4, <1>5, <2>2 DEF SP!IsOffered, SP!IsCanceled, ServerInv, SP!BoughtInv
    <3> QED
      BY <1>9, <2>1, <3>1
  <2>3. CASE SP!IsSettled(Me)
    <3>1. PaymentUnderWay /\ invoice > 0
      BY <2>3 DEF ServerStep, Settles, SP!IsSettled
    <3>2. invoice = inv[Me].value
      BY <3>1 DEF JoinInv, HasInvoice, PaymentUnderWay
    <3>3. paid = 0
      BY <1>5, <2>3 DEF SP!IsSettled, ServerInv, SP!BoughtInv
    <3>4. PICK extra \in 0..0 : inv'[Me].paid = inv[Me].value + extra
      BY <2>3 DEF SP!IsSettled
    <3>5. inv[Me].value \in Nat
      BY PurchaseAssumption DEF ServerInv, SP!LPTypeOK, SP!LNTypeOK
    <3>6. paid' = invoice
      BY <1>4, <3>2, <3>4, <3>5
    <3>7. PaymentSettles
      BY <1>4, <2>1, <3>1, <3>3, <3>6 DEF PaymentSettles
    <3> QED
      BY <3>7 DEF Next, Environment
  <2> QED
    BY <1>11, <2>2, <2>3 DEF SP!InvoiceMoves
<1>12. CASE cfg' = cfg /\ SP!ChannelMoves(Me)
  <2>1. UNCHANGED <<serverPolicy, paid>>
    BY <1>6, <1>7, <1>12 DEF SP!ChannelMoves
  <2>2. paid > 0
    BY <1>12, ChannelIsPaid DEF SP!ChannelMoves, SP!IsCalled, SP!IsMined
  <2>3. \/ newChan' = newChan
        \/ newChan = "none" /\ newChan' = "pending"
        \/ newChan = "pending" /\ newChan' = "open"
    <3>1. CASE SP!IsCalled(Me)
      <4>1. chan[Me] = "none"
        BY <3>1 DEF SP!IsCalled, ServerInv, SP!BoughtInv
      <4> QED
        BY <1>4, <1>5, <3>1, <4>1 DEF SP!IsCalled, ChannelSeen
    <3>2. CASE SP!IsMined(Me)
      BY <1>4, <1>5, <3>2 DEF SP!IsMined, ChannelSeen
    <3> QED
      BY <1>12, <3>1, <3>2 DEF SP!ChannelMoves
  <2>4. CASE newChan' = newChan
    BY <1>9, <2>1, <2>4
  <2>5. CASE newChan' /= newChan
    <3>1. ServerOpens
      BY <1>4, <2>1, <2>2, <2>3, <2>5 DEF ServerOpens
    <3> QED
      BY <3>1 DEF Next, Environment
  <2> QED
    BY <2>4, <2>5
<1> QED
  BY <1>3, <1>10, <1>11, <1>12

\* Whatever the server, its node and its crashes do, a client sees a run that
\* LPClient models: nothing it was proved against is left out.
THEOREM PurchaseImplementsClient == PurchaseSpec => ImplementsClient
<1>1. PurchaseInit => Init
  BY DEF PurchaseInit
<1>2. ServerInv /\ JoinInv /\ [PurchaseNext]_allVars => [Next]_vars
  <2>1. UNCHANGED allVars => UNCHANGED vars
    BY DEF allVars
  <2> QED
    BY <2>1, ClientStepIsClientNext, ServerStepIsEnvironment DEF PurchaseNext
<1> QED
  BY <1>1, <1>2, JoinCorrect, PTL DEF PurchaseSpec, ImplementsClient, Spec

-----------------------------------------------------------------------------
(* What only both can promise.                                             *)

\* So everything proved of the client holds in the purchase.
LEMMA PurchaseClientInv == PurchaseSpec => []ClientInv
  BY PurchaseImplementsClient, ClientInvCorrect, PTL DEF ImplementsClient

\* A client in the middle of paying has its record on disk (CreateInvoice).
THEOREM PayingIsRecordedHolds == PurchaseSpec => []PayingIsRecorded
<1>1. ServerInv /\ JoinInv => PayingIsRecorded
  BY PurchaseAssumption
     DEF ServerInv, SP!IInv, SP!RequestInv, SP!HandlerInv, JoinInv, HasInvoice,
         PayingIsRecorded, Server!Recorded
<1> QED
  BY <1>1, JoinCorrect, PTL

\* What the client paid is enough as long as the policy it was shown is in force
\* (EstimatedInvoiceAmount, amountForNewChan).
THEOREM FairDealHolds == PurchaseSpec => []FairDeal
<1>1. ServerInv /\ JoinInv /\ ClientInv => FairDeal
  <2> SUFFICES ASSUME ServerInv, JoinInv, ClientInv, paid > 0, serverPolicy = policy
               PROVE  Server!PaidInFull(Me)
    BY DEF FairDeal
  <2>1. inv[Me].paid = EstimatedInvoiceAmount(policy)
    BY DEF JoinInv, ClientInv, CheckedInv
  <2>2. policy = PolicyOf(cfg)
    BY DEF JoinInv
  <2>3. winv[Me].ChannelSize = ChanSize
    BY PurchaseAssumption DEF ServerInv, SP!LPTypeOK, SP!ServerTypeOK
  <2>4. inv[Me].paid = Server!AmountForNewChan(winv[Me].ChannelSize)
    BY <2>1, <2>2, <2>3 DEF Server!AmountForNewChan, EstimatedInvoiceAmount, PolicyOf
  <2>5. inv[Me].paid \in Nat
    BY PurchaseAssumption DEF ServerInv, SP!LPTypeOK, SP!LNTypeOK
  <2> QED
    BY <2>4, <2>5 DEF Server!PaidInFull
<1> QED
  BY <1>1, JoinCorrect, PurchaseClientInv, PTL

\* Success without another peer's channel to be mistaken for it is a channel of
\* this server, bought once (RequestChannel, openChannel).
THEOREM SuccessIsDeliveryHolds == PurchaseSpec => []SuccessIsDelivery
<1>1. ServerInv /\ JoinInv /\ ClientInv => SuccessIsDelivery
  <2> SUFFICES ASSUME ServerInv, JoinInv, ClientInv, result = "nil", others = 0
               PROVE  /\ opens[Me] = 1 /\ chan[Me] \in {"open", "closed"}
                      /\ db[Me] = "absent"
    BY DEF SuccessIsDelivery
  <2>1. newChan = "open"
    BY DEF ClientInv, ToldInv
  <2>2. chan[Me] \in {"open", "closed"}
    BY <2>1, PurchaseAssumption
       DEF JoinInv, ChannelSeen, ServerInv, SP!LPTypeOK, SP!LNTypeOK
  <2>3. opens[Me] = 1 /\ opener[Me] /= "none"
    BY <2>2, PurchaseAssumption
       DEF ServerInv, SP!BoughtInv, SP!IInv, SP!RequestInv, SP!OpenerInv
  <2>4. db[Me] = "absent"
    BY <2>3, PurchaseAssumption DEF ServerInv, SP!IInv, SP!RequestInv, SP!PaymentInv
  <2> QED
    BY <2>2, <2>3, <2>4
<1> QED
  BY <1>1, JoinCorrect, PurchaseClientInv, PTL

\* Each keeps to the other what it was proved to promise anybody: the client, to
\* pay what it was shown, and the server, to take one payment for one channel
\* at its price and under its policy (RequestChannel, CreateInvoice,
\* listenToInvoices, openChannel).
THEOREM ClientKeepsPromises ==
    PurchaseSpec => [](PaysWhatWasShown /\ WaitIsAnswerable /\ SuccessIsPaidFor)
  BY PurchaseImplementsClient, PaysWhatWasShownHolds, WaitIsAnswerableHolds,
     SuccessIsPaidForHolds, PTL DEF ImplementsClient

\* The same of the server.
THEOREM ServerKeepsPromises ==
    PurchaseSpec => [](/\ SP!OneChannelPerPayment /\ SP!ServedIsPaidInFull
                       /\ SP!ServedWithinPolicy /\ SP!PayableIsRecorded
                       /\ SP!PaidIsAccounted)
<1>1. SP!Spec => []SP!OneChannelPerPayment
  BY ServerConstants, SP!OneChannelPerPaymentHolds
<1>2. SP!Spec => []SP!ServedIsPaidInFull
  BY ServerConstants, SP!ServedIsPaidInFullHolds
<1>3. SP!Spec => []SP!ServedWithinPolicy
  BY ServerConstants, SP!ServedWithinPolicyHolds
<1>4. SP!Spec => []SP!PayableIsRecorded
  BY ServerConstants, SP!PayableIsRecordedHolds
<1>5. SP!Spec => []SP!PaidIsAccounted
  BY ServerConstants, SP!PaidIsAccountedHolds
<1> QED
  BY <1>1, <1>2, <1>3, <1>4, <1>5, PurchaseRunsServer, PTL
=============================================================================
