------------------------------ MODULE LPServer ------------------------------
(***************************************************************************)
(* The sale of a channel: server.Server with its HTTP handlers             *)
(* (CreateInvoice), the invoice listener (listenToInvoices), the           *)
(* goroutines that open channels (openChannel), the record of unpaid       *)
(* invoices on disk (db.go) and the table of pending requests, next to     *)
(* the dcrlnd node they talk to.  A read whose answer can be stale by the  *)
(* time it is used is a step of its own.                                   *)
(***************************************************************************)
EXTENDS PendingChans, LightningNode

CONSTANTS Sizes,             \* channel sizes clients ask for
          Configs,           \* configurations the server may be started with
          RateScale,         \* ChanInvoiceFeeRate is a multiple of 1/RateScale
          MaxNbChannels,     \* cfg.MaxNbChannels
          MaxPendingChans,   \* cfg.MaxPendingChans
          MaxStops           \* bound on how often the process ends

ASSUME SizesAssumption == Sizes \subseteq Nat
ASSUME ConfigsAssumption ==
    Configs \subseteq [MinChanSize : Nat, MaxChanSize : Nat,
                       ChanInvoiceFeeRate : Nat, IgnoreNodes : SUBSET Nodes]
ASSUME LPBoundsAssumption ==
    /\ RateScale \in Nat \ {0}
    /\ MaxNbChannels \in Nat /\ MaxPendingChans \in Nat /\ MaxStops \in Nat
ASSUME ExpiryAssumption == InvoiceExpiry <= InvoiceExpiration

VARIABLES cfg,        \* the running configuration
          up,         \* the process runs
          pc,         \* where each request's handler is
          winv,       \* what each request asks for (waitingInvoice)
          lockedAt,   \* when the request was entered in the table
          db,         \* each request's file in the invoices directory
          opener,     \* the openChannel goroutine of each request
          attempt,    \* its loop variable
          stops

lpVars == <<cfg, up, pc, winv, lockedAt, db, opener, attempt, stops>>
vars == <<tableVars, lnVars, lpVars>>

MaxAttempts == 3

InFlight == {"policy", "capacity", "lock", "invoice", "create", "encode"}
Active == {"check", "try", "delay", "stream"}

\* A slip: the price is rounded up.
AmountRoundedUp(size) == (size * cfg.ChanInvoiceFeeRate + RateScale - 1) \div RateScale

AmountForNewChan(size) == (size * cfg.ChanInvoiceFeeRate) \div RateScale

ChannelsWith(n) == {q \in OpenChannels : winv[q].TargetNode = n}

WithinPolicy(w) ==
    /\ cfg.MinChanSize <= w.ChannelSize
    /\ w.ChannelSize <= cfg.MaxChanSize
    /\ w.TargetNode \notin cfg.IgnoreNodes

\* Channels still pending are not counted.
CanCreateChannel(w) ==
    /\ WithinPolicy(w)
    /\ Cardinality(ChannelsWith(w.TargetNode)) < MaxNbChannels

HasMaxPendingChannels == Cardinality(PendingOpenChannels) >= MaxPendingChans

\* readJsonFile finds the request's record and decodes it.
Recorded(q) == db[q] = "whole"

\* Removing a record that is not there is no error.
RemoveFile(q) == db' = [db EXCEPT ![q] = "absent"]

LPInit ==
    /\ TableInit
    /\ LNInit
    /\ cfg \in Configs
    /\ up = TRUE
    /\ pc = [q \in Reqs |-> "idle"]
    /\ winv \in [Reqs -> [TargetNode : Nodes, ChannelSize : Sizes]]
    /\ lockedAt = [q \in Reqs |-> NoEntry]
    /\ db = [q \in Reqs |-> "absent"]
    /\ opener = [q \in Reqs |-> "none"]
    /\ attempt = [q \in Reqs |-> 0]
    /\ stops = 0

-----------------------------------------------------------------------------
(* CreateInvoice, one step for each answer it waits for.                   *)

At(q, stage) == up /\ pc[q] = stage
Goto(q, stage) == pc' = [pc EXCEPT ![q] = stage]

\* handleInvoice decodes the request and compares its key.
Submit(q) ==
    /\ At(q, "idle")
    /\ Goto(q, "policy") \/ Goto(q, "refused")
    /\ UNCHANGED <<tableVars, lnVars, cfg, up, winv, lockedAt, db, opener,
                   attempt, stops>>

\* canCreateChannel; ListChannels itself may fail.
CheckPolicy(q) ==
    /\ At(q, "policy")
    /\ \/ CanCreateChannel(winv[q]) /\ Goto(q, "capacity")
       \/ Goto(q, "refused")
    /\ UNCHANGED <<tableVars, lnVars, cfg, up, winv, lockedAt, db, opener,
                   attempt, stops>>

\* isConnectedToNode, hasUnspentForNewChannel, hasMaxPendingChannels.  Peers
\* and coins are the environment's, so these may refuse anyone.
CheckCapacity(q) ==
    /\ At(q, "capacity")
    /\ \/ ~HasMaxPendingChannels /\ Goto(q, "lock")
       \/ Goto(q, "refused")
    /\ UNCHANGED <<tableVars, lnVars, cfg, up, winv, lockedAt, db, opener,
                   attempt, stops>>

\* hasPendingCreateChanReqs.
LockNode(q) ==
    /\ At(q, "lock")
    /\ \/ /\ RegisterRequest(winv[q].TargetNode)
          /\ lockedAt' = [lockedAt EXCEPT ![q] = now]
          /\ Goto(q, "invoice")
       \/ /\ HasPending(winv[q].TargetNode)
          /\ Goto(q, "refused")
          /\ UNCHANGED <<tableVars, lockedAt>>
    /\ UNCHANGED <<lnVars, cfg, up, winv, db, opener, attempt, stops>>

\* A failed AddInvoice leaves the node's entry in the table.
AddInvoice(q) ==
    /\ At(q, "invoice")
    /\ \/ /\ LNAddInvoice(q, AmountForNewChan(winv[q].ChannelSize), now)
          /\ Goto(q, "create")
       \/ Goto(q, "refused") /\ UNCHANGED lnVars
    /\ UNCHANGED <<tableVars, cfg, up, winv, lockedAt, db, opener, attempt,
                   stops>>

\* writeJsonFile up to os.Create: the file exists, still empty.
CreateFile(q) ==
    /\ At(q, "create")
    /\ \/ db' = [db EXCEPT ![q] = "torn"] /\ Goto(q, "encode")
       \/ Goto(q, "refused") /\ UNCHANGED db
    /\ UNCHANGED <<tableVars, lnVars, cfg, up, winv, lockedAt, opener,
                   attempt, stops>>

\* A slip: the write's error is not checked.
ReplyAnyway(q) ==
    /\ At(q, "encode")
    /\ \/ db' = [db EXCEPT ![q] = IF @ = "torn" THEN "whole" ELSE @]
       \/ UNCHANGED db
    /\ Goto(q, "replied")
    /\ UNCHANGED <<tableVars, lnVars, cfg, up, winv, lockedAt, opener,
                   attempt, stops>>

\* The rest of writeJsonFile, and the payment request goes out.  A file that
\* was removed meanwhile stays removed.  A failed write leaves it torn, and a
\* reply that does not get through leaves it whole.
WriteAndReply(q) ==
    /\ At(q, "encode")
    /\ \/ /\ db' = [db EXCEPT ![q] = IF @ = "torn" THEN "whole" ELSE @]
          /\ Goto(q, "replied") \/ Goto(q, "refused")
       \/ Goto(q, "refused") /\ UNCHANGED db
    /\ UNCHANGED <<tableVars, lnVars, cfg, up, winv, lockedAt, opener,
                   attempt, stops>>

-----------------------------------------------------------------------------
(* listenToInvoices.  A read error or a failed removal is fatal: Stop.     *)

\* A new subscription is made once the old stream has nothing more to read.
Subscribe ==
    /\ up
    /\ updates = <<>>
    /\ LNSubscribe
    /\ UNCHANGED <<tableVars, lpVars>>

NextUpdate(q) == up /\ updates /= <<>> /\ Head(updates) = q
ReadUpdate == /\ updates' = Tail(updates)
              /\ UNCHANGED <<invoice, subscribed, chan, opens, drops,
                             duplicates>>

PaidInFull(q) == invoice[q].paid >= AmountForNewChan(winv[q].ChannelSize)

HandleCanceled(q) ==
    /\ NextUpdate(q)
    /\ invoice[q].state = "canceled"
    /\ ReadUpdate
    /\ RemoveFile(q)
    /\ UNCHANGED <<tableVars, cfg, up, pc, winv, lockedAt, opener, attempt,
                   stops>>

\* A slip: the record is left on disk.
ServeAndKeep(q) ==
    /\ NextUpdate(q)
    /\ invoice[q].state = "settled"
    /\ Recorded(q)
    /\ PaidInFull(q)
    /\ ReadUpdate
    /\ opener' = [opener EXCEPT ![q] = "check"]
    /\ UNCHANGED <<tableVars, cfg, up, pc, winv, lockedAt, db, attempt, stops>>

\* A slip: the amount paid is not compared.
ServeAnyAmount(q) ==
    /\ NextUpdate(q)
    /\ invoice[q].state = "settled"
    /\ Recorded(q)
    /\ ReadUpdate
    /\ RemoveFile(q)
    /\ opener' = [opener EXCEPT ![q] = "check"]
    /\ UNCHANGED <<tableVars, cfg, up, pc, winv, lockedAt, attempt, stops>>

\* The payment is for a channel: its record goes and a goroutine opens it.  A
\* process that ends between the two is a Stop right after this step.
HandleSettled(q) ==
    /\ NextUpdate(q)
    /\ invoice[q].state = "settled"
    /\ Recorded(q)
    /\ PaidInFull(q)
    /\ ReadUpdate
    /\ RemoveFile(q)
    /\ opener' = [opener EXCEPT ![q] = "check"]
    /\ UNCHANGED <<tableVars, cfg, up, pc, winv, lockedAt, attempt, stops>>

\* A slip: the record is removed before the amounts are compared.
IgnoreAndRemove(q) ==
    /\ NextUpdate(q)
    /\ invoice[q].state = "settled"
    /\ db[q] = "absent" \/ (Recorded(q) /\ ~PaidInFull(q))
    /\ ReadUpdate
    /\ RemoveFile(q)
    /\ UNCHANGED <<tableVars, cfg, up, pc, winv, lockedAt, opener, attempt,
                   stops>>

\* Not a channel's payment (no record), or less than the channel now costs.
IgnoreSettled(q) ==
    /\ NextUpdate(q)
    /\ invoice[q].state = "settled"
    /\ db[q] = "absent" \/ (Recorded(q) /\ ~PaidInFull(q))
    /\ ReadUpdate
    /\ UNCHANGED <<tableVars, lpVars>>

-----------------------------------------------------------------------------
(* openChannel.                                                            *)

OpenerAt(q, stage) == up /\ opener[q] = stage
OpenerGoto(q, stage) == opener' = [opener EXCEPT ![q] = stage]

\* A slip: the policy was checked when the invoice was made.
OpenerTrusts(q) ==
    /\ OpenerAt(q, "check")
    /\ OpenerGoto(q, "try")
    /\ UNCHANGED <<tableVars, lnVars, cfg, up, pc, winv, lockedAt, db, attempt,
                   stops>>

OpenerChecks(q) ==
    /\ OpenerAt(q, "check")
    /\ \/ CanCreateChannel(winv[q]) /\ OpenerGoto(q, "try")
       \/ OpenerGoto(q, "refused")
    /\ UNCHANGED <<tableVars, lnVars, cfg, up, pc, winv, lockedAt, db, attempt,
                   stops>>

OpenerCalls(q) ==
    /\ OpenerAt(q, "try")
    /\ LNOpenChannel(q)
    /\ OpenerGoto(q, "stream")
    /\ UNCHANGED <<tableVars, cfg, up, pc, winv, lockedAt, db, attempt, stops>>

\* A slip: one attempt too many.
OpenerFailsLate(q) ==
    /\ OpenerAt(q, "try")
    /\ OpenerGoto(q, IF attempt[q] = MaxAttempts THEN "gaveup" ELSE "delay")
    /\ UNCHANGED <<tableVars, lnVars, cfg, up, pc, winv, lockedAt, db, attempt,
                   stops>>

\* The peer is gone, the coins are, or the call failed.
OpenerFails(q) ==
    /\ OpenerAt(q, "try")
    /\ OpenerGoto(q, IF attempt[q] = MaxAttempts - 1 THEN "gaveup" ELSE "delay")
    /\ UNCHANGED <<tableVars, lnVars, cfg, up, pc, winv, lockedAt, db, attempt,
                   stops>>

\* A slip: the attempts are not counted.
OpenerRetriesForever(q) ==
    /\ OpenerAt(q, "delay")
    /\ OpenerGoto(q, "try")
    /\ UNCHANGED <<tableVars, lnVars, cfg, up, pc, winv, lockedAt, db, attempt,
                   stops>>

OpenerRetries(q) ==
    /\ OpenerAt(q, "delay")
    /\ OpenerGoto(q, "try")
    /\ attempt' = [attempt EXCEPT ![q] = @ + 1]
    /\ UNCHANGED <<tableVars, lnVars, cfg, up, pc, winv, lockedAt, db, stops>>

\* ChanOpen: the node's entry goes, whichever request it belongs to.
OpenerSeesOpen(q) ==
    /\ OpenerAt(q, "stream")
    /\ chan[q] \in {"open", "closed"}
    /\ ReleaseNode(winv[q].TargetNode)
    /\ OpenerGoto(q, "done")
    /\ UNCHANGED <<lnVars, cfg, up, pc, winv, lockedAt, db, attempt, stops>>

\* A slip: a broken stream is one more failed attempt.
OpenerStreamRetries(q) ==
    /\ OpenerAt(q, "stream")
    /\ OpenerGoto(q, IF attempt[q] = MaxAttempts - 1 THEN "ended" ELSE "delay")
    /\ UNCHANGED <<tableVars, lnVars, cfg, up, pc, winv, lockedAt, db, attempt,
                   stops>>

\* The stream ends first: refused by the node or the peer, or broken.
OpenerStreamEnds(q) ==
    /\ OpenerAt(q, "stream")
    /\ OpenerGoto(q, "ended")
    /\ UNCHANGED <<tableVars, lnVars, cfg, up, pc, winv, lockedAt, db, attempt,
                   stops>>

OpenerStep(q) == OpenerChecks(q) \/ OpenerCalls(q) \/ OpenerFails(q)
                     \/ OpenerRetries(q)

-----------------------------------------------------------------------------
(* The cleanup goroutine, the process, and the environment.                *)

SweepTable ==
    /\ up
    /\ Sweep
    /\ UNCHANGED <<lnVars, lpVars>>

\* The process ends (a crash, a signal, the listener's fatal errors) and takes
\* the table, the handlers, the goroutines and the stream with it.
Stop ==
    /\ up
    /\ stops < MaxStops
    /\ stops' = stops + 1
    /\ up' = FALSE
    /\ ForgetTable
    /\ pc' = [q \in Reqs |-> IF pc[q] \in InFlight THEN "dead" ELSE pc[q]]
    /\ opener' = [q \in Reqs |-> IF opener[q] \in Active THEN "killed"
                                                         ELSE opener[q]]
    /\ subscribed' = FALSE
    /\ updates' = <<>>
    /\ UNCHANGED <<invoice, chan, opens, drops, duplicates, cfg, winv,
                   lockedAt, db, attempt>>

\* New; nothing is read back from disk, and the configuration may have changed.
Restart ==
    /\ ~up
    /\ up' = TRUE
    /\ cfg' \in Configs
    /\ UNCHANGED <<tableVars, lnVars, pc, winv, lockedAt, db, opener, attempt,
                   stops>>

\* Only the client that got the payment request can pay it.
ClientPays(q) ==
    /\ pc[q] = "replied"
    /\ LNSettle(q, now)
    /\ UNCHANGED <<tableVars, lpVars>>

NodeActs(q) ==
    /\ LNCancel(q, now) \/ LNDuplicate(q) \/ LNConfirm(q) \/ LNClose(q)
    /\ UNCHANGED <<tableVars, lpVars>>

StreamBreaks == LNDrop /\ UNCHANGED <<tableVars, lpVars>>

TimePasses == Tick /\ UNCHANGED <<lnVars, lpVars>>

-----------------------------------------------------------------------------

Handler(q) == Submit(q) \/ CheckPolicy(q) \/ CheckCapacity(q) \/ LockNode(q)
                  \/ AddInvoice(q) \/ CreateFile(q) \/ WriteAndReply(q)

Listener == Subscribe \/ \E q \in Reqs : \/ HandleCanceled(q)
                                         \/ HandleSettled(q)
                                         \/ IgnoreSettled(q)

Opener(q) == OpenerStep(q) \/ OpenerSeesOpen(q) \/ OpenerStreamEnds(q)

Next ==
    \/ \E q \in Reqs : Handler(q) \/ Opener(q) \/ ClientPays(q) \/ NodeActs(q)
    \/ Listener
    \/ SweepTable \/ Stop \/ Restart
    \/ StreamBreaks \/ TimePasses

Spec == LPInit /\ [][Next]_vars

\* Goroutines are scheduled, RPCs and the retry delay end, and Run's cleanup
\* wakes every minute: the listener, the cleanup and the goroutines that open
\* channels go on for as long as the process runs.
FairSpec == /\ Spec
            /\ WF_vars(Listener) /\ WF_vars(SweepTable)
            /\ \A q \in Reqs : WF_vars(OpenerStep(q))

-----------------------------------------------------------------------------
(* Correctness.                                                            *)

ServerTypeOK ==
    /\ cfg \in Configs
    /\ up \in BOOLEAN
    /\ pc \in [Reqs -> InFlight \cup {"idle", "replied", "refused", "dead"}]
    /\ winv \in [Reqs -> [TargetNode : Nodes, ChannelSize : Sizes]]
    /\ lockedAt \in [Reqs -> Nat \cup {NoEntry}]
    /\ db \in [Reqs -> {"absent", "torn", "whole"}]
    /\ opener \in [Reqs -> Active \cup {"none", "refused", "gaveup", "ended",
                                        "done", "killed"}]
    /\ attempt \in [Reqs -> 0..MaxAttempts - 1]
    /\ \A q \in Reqs : opener[q] = "delay" => attempt[q] < MaxAttempts - 1
    /\ stops \in 0..MaxStops

\* The type invariant; a goroutine that waits to retry has an attempt left.
LPTypeOK == TableTypeOK /\ LNTypeOK /\ ServerTypeOK

\* One payment buys at most one channel, and only a payment buys one: the node
\* accepts a second OpenChannel call for no invoice, although updates may come
\* twice and a goroutine makes up to three attempts (listenToInvoices,
\* openChannel).
OneChannelPerPayment ==
    \A q \in Reqs : opens[q] <= 1 /\ (opens[q] = 1 => invoice[q].state = "settled")

\* Whoever is being served paid what the channel costs under the configuration
\* in force now, although the invoice was priced when it was made, perhaps by
\* an earlier process with another fee rate (listenToInvoices).
ServedIsPaidInFull ==
    \A q \in Reqs : opener[q] \in Active =>
                        invoice[q].state = "settled" /\ PaidInFull(q)

\* Past its first check, a goroutine opens a channel the configuration in force
\* now allows, whatever allowed the invoice (openChannel).
ServedWithinPolicy ==
    \A q \in Reqs : opener[q] \in Active \ {"check"} => WithinPolicy(winv[q])

\* Whoever can pay has a readable record on disk waiting for the payment
\* (CreateInvoice saves it before it replies).
PayableIsRecorded ==
    \A q \in Reqs : (pc[q] = "replied" /\ invoice[q].state = "open")
                        => Recorded(q)

\* A paid invoice is never without a trace: its record is still on disk, whole,
\* or a goroutine was started for it (listenToInvoices).
PaidIsAccounted ==
    \A q \in Reqs : invoice[q].state = "settled"
                        => Recorded(q) /= (opener[q] /= "none")

RequestsOf(n) == {q \in Reqs : winv[q].TargetNode = n}
Admitted(n) == {q \in RequestsOf(n) : lockedAt[q] /= NoEntry}
Opened(n) == {q \in RequestsOf(n) : opener[q] = "done"}

Lease == INSTANCE RequestLease WITH
             Requests <- Reqs,
             LeaseTicks <- InvoiceExpiration + 1,
             clock <- now,
             alive <- up,
             admitted <- [n \in Nodes |-> Admitted(n)],
             opened <- [n \in Nodes |-> Opened(n)],
             lease <- [n \in Nodes |-> TicksLeft(n)]

\* A request that is let in shuts out every other of its node for the whole of
\* InvoiceExpiration and the tick it runs out in, counted from when it was let
\* in, whatever the comparisons take for stale.  Before that, only a channel to
\* that very node or the end of the process lets the next one in: not the
\* cleanup, a handler, or another node's channel (hasPendingCreateChanReqs,
\* openChannel, Run).
ImplementsLease == Lease!Spec

\* The request can be paid, and its invoice was made in the tick its node's
\* entry was.
HoldsEntry(q) ==
    /\ Payable(q, now)
    /\ lockedAt[q] = invoice[q].created
    /\ pendingChans[winv[q].TargetNode] = lockedAt[q]

EntryKeptOrDone(q) ==
    HoldsEntry(q) =>
        \/ pendingChans'[winv[q].TargetNode] = lockedAt[q]
        \/ ~up'
        \/ \E p \in RequestsOf(winv[q].TargetNode) :
               opener[p] = "stream" /\ opener'[p] = "done"

\* The entry of a request outlives the invoice made along with it: while dcrlnd
\* would still take the payment, the entry is neither collected nor replaced,
\* unless a channel to the node opened or the process ended.  The server judges
\* by the entry's age and InvoiceExpiration, the node by the invoice's and the
\* Expiry it was given (CreateInvoice, Run, openChannel).
EntryOutlivesInvoice == [][\A q \in Reqs : EntryKeptOrDone(q)]_vars

Queued(q) == \E i \in 1..Len(updates) : updates[i] = q

\* A payment the listener is told of is served to the end, the node accepting
\* the call or the server refusing or giving up after its attempts, unless the
\* process or the stream fails first (listenToInvoices, openChannel).
PaidIsServed ==
    \A q \in Reqs :
        (up /\ Queued(q) /\ invoice[q].state = "settled" /\ Recorded(q)
            /\ PaidInFull(q))
          ~> \/ opener[q] \notin {"none", "check", "try", "delay"}
             \/ ~up \/ ~subscribed

Unserved(q, state) == opens[q] = 0 /\ opener[q] = "none" /\ invoice[q].state = state
SaleState(q) ==
    CASE opens[q] > 0 -> "delivered"
      [] opens[q] = 0 /\ opener[q] \in {"check", "try", "delay"} -> "serving"
      [] opens[q] = 0 /\ opener[q] \in {"refused", "gaveup", "killed"} -> "abandoned"
      [] Unserved(q, "settled") -> "paid"
      [] Unserved(q, "canceled") -> "void"
      [] Unserved(q, "open") -> "offered"
      [] OTHER -> "none"

Sale == INSTANCE ChannelSale WITH sale <- [q \in Reqs |-> SaleState(q)]

\* The server, its node and its crashes keep the promise of ChannelSale.
ImplementsSale == Sale!Spec

-----------------------------------------------------------------------------
(* The inductive invariant behind the safety properties.                   *)

BeforeInvoice == {"idle", "policy", "capacity", "lock", "invoice"}

\* How far a handler came says what the node and the disk know of the request.
HandlerInv(q) ==
    /\ pc[q] \in BeforeInvoice => invoice[q].state = "none" /\ db[q] = "absent"
    /\ pc[q] = "create" => /\ invoice[q].state \in {"open", "canceled"}
                           /\ db[q] = "absent"
    /\ pc[q] = "encode" => \/ invoice[q].state = "open" /\ db[q] = "torn"
                           \/ invoice[q].state = "canceled" /\ db[q] /= "whole"
    /\ (pc[q] = "replied" /\ invoice[q].state = "open") => db[q] = "whole"

\* A paid invoice was replied, and its record is handed over to the goroutine.
PaymentInv(q) ==
    /\ invoice[q].state = "settled" =>
           /\ pc[q] = "replied"
           /\ db[q] = (IF opener[q] = "none" THEN "whole" ELSE "absent")
    /\ opener[q] /= "none" => invoice[q].state = "settled"

\* What the goroutine did so far.
OpenerInv(q) ==
    /\ opens[q] = 0 \/ (opens[q] = 1 /\ opener[q] \in {"stream", "done", "ended",
                                                       "killed"})
    /\ opener[q] \in Active => up /\ PaidInFull(q)
    /\ opener[q] \in Active \ {"check"} => WithinPolicy(winv[q])
    /\ opener[q] \in {"stream", "done", "ended"} => opens[q] = 1

RequestInv(q) == HandlerInv(q) /\ PaymentInv(q) /\ OpenerInv(q)

\* Between them, these carry every safety property above from step to step: no
\* record is lost, made twice or read half-written (CreateInvoice,
\* listenToInvoices, openChannel).
IInv == \A q \in Reqs : RequestInv(q)

-----------------------------------------------------------------------------
(* What the documentation says, and the code does not keep.                *)

\* "Maximum number of channels opened to the same node" (dcrlnpd.conf:73).
MaxChannelsPerNode ==
    \A n \in Nodes : Cardinality(ChannelsWith(n)) <= MaxNbChannels

\* A request in its lease whose client does, or soon will, hold an unpaid
\* invoice.
Outstanding(q) ==
    /\ lockedAt[q] /= NoEntry /\ ~Stale(lockedAt[q])
    /\ \/ pc[q] \in {"invoice", "create", "encode"}
       \/ pc[q] = "replied" /\ invoice[q].state = "open"

\* "pendingChans tracks nodes for which there's already a pending request to
\* create a channel to": no node has two (Server.pendingChans).
OnePendingRequest ==
    \A p, q \in Reqs :
        (p /= q /\ winv[p].TargetNode = winv[q].TargetNode)
            => ~(Outstanding(p) /\ Outstanding(q))

\* "CreateInvoice creates an invoice that, once paid, will trigger the
\* underlying node to open a channel": with the listener connected and nothing
\* left to read, no payment in full is waiting for a goroutine.
PaymentTriggersChannel ==
    (up /\ subscribed /\ updates = <<>>) =>
        \A q \in Reqs : (invoice[q].state = "settled" /\ PaidInFull(q))
                            => opener[q] /= "none"
=============================================================================
