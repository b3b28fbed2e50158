---------------------------- MODULE LPServerProofs ----------------------------
(* LPServer is well typed, keeps its table a table, and every safety property *)
(* of its runs holds for all values of the constants.                         *)
EXTENDS LPServer, PendingChansProofs

\* The amount asked for a channel is a natural number.
LEMMA AmountType ==
    ASSUME cfg \in Configs, NEW size \in Sizes
    PROVE  AmountForNewChan(size) \in Nat
  BY SizesAssumption, ConfigsAssumption, LPBoundsAssumption DEF AmountForNewChan

-----------------------------------------------------------------------------
(* The node's part of the state.                                           *)

\* An update added to the stream leaves it a queue of updates (Notify).
LEMMA AppendType ==
    ASSUME NEW s \in Seq(Reqs), NEW q \in Reqs
    PROVE  Append(s, q) \in Seq(Reqs)
  OBVIOUS

\* What a broken stream delivered before it broke is a queue of updates.
LEMMA PrefixType ==
    ASSUME NEW s \in Seq(Reqs), NEW k \in 0..Len(s)
    PROVE  SubSeq(s, 1, k) \in Seq(Reqs)
  OBVIOUS

\* A new invoice or an update on the stream keeps the node's types.
LEMMA LNInvoiceType ==
    ASSUME LNTypeOK, NEW q \in Reqs, NEW t \in Nat, NEW amount \in Nat,
           LNAddInvoice(q, amount, t) \/ LNSettle(q, t) \/ LNCancel(q, t)
    PROVE  LNTypeOK'
<1> USE LNBoundsAssumption DEF LNTypeOK
<1>1. CASE LNAddInvoice(q, amount, t)
  BY <1>1 DEF LNAddInvoice
<1>2. CASE LNSettle(q, t)
  <2>1. PICK extra \in 0..MaxOverpay :
            invoice' = [invoice EXCEPT ![q].state = "settled",
                                       ![q].paid = invoice[q].value + extra]
    BY <1>2 DEF LNSettle
  <2>2. invoice[q].value + extra \in Nat
    OBVIOUS
  <2>3. invoice' \in [Reqs -> [state : {"none", "open", "settled", "canceled"},
                               value : Nat, paid : Nat, created : Nat]]
    <3> DEFINE Invoice == [state : {"none", "open", "settled", "canceled"},
                           value : Nat, paid : Nat, created : Nat]
               settled == [invoice[q] EXCEPT !.state = "settled",
                                             !.paid = invoice[q].value + extra]
    <3>1. settled \in Invoice
      BY <2>2
    <3>2. invoice \in [Reqs -> Invoice] /\ invoice' = [invoice EXCEPT ![q] = settled]
      BY <2>1
    <3> HIDE DEF Invoice, settled
    <3>3. invoice' \in [Reqs -> Invoice]
      BY ONLY <3>1, <3>2
    <3> QED
      BY ONLY <3>3 DEF Invoice
  <2>4. updates' \in Seq(Reqs)
    BY <1>2, AppendType DEF LNSettle, Notify
  <2> QED
    BY <1>2, <2>3, <2>4 DEF LNSettle
<1>3. CASE LNCancel(q, t)
  <2>1. updates' \in Seq(Reqs)
    BY <1>3, AppendType DEF LNCancel, Notify
  <2> QED
    BY <1>3, <2>1 DEF LNCancel
<1> QED
  BY <1>1, <1>2, <1>3

\* Opening, confirming and closing a channel keeps the node's types.
LEMMA LNChannelType ==
    ASSUME LNTypeOK, NEW q \in Reqs,
           LNOpenChannel(q) \/ LNConfirm(q) \/ LNClose(q)
    PROVE  LNTypeOK'
<1> USE DEF LNTypeOK
<1>1. CASE LNOpenChannel(q)
  <2>1. opens' \in [Reqs -> Nat]
    BY <1>1 DEF LNOpenChannel
  <2>2. chan' \in [Reqs -> {"none", "pending", "failed", "open", "closed"}]
    BY <1>1 DEF LNOpenChannel
  <2> QED
    BY <1>1, <2>1, <2>2 DEF LNOpenChannel
<1>2. CASE LNConfirm(q) \/ LNClose(q)
  BY <1>2 DEF LNConfirm, LNClose
<1> QED
  BY <1>1, <1>2

\* Subscribing, losing the stream and repeating an update keeps the node's types.
LEMMA LNStreamType ==
    ASSUME LNTypeOK,
           LNSubscribe \/ LNDrop \/ \E q \in Reqs : LNDuplicate(q)
    PROVE  LNTypeOK'
<1> USE LNBoundsAssumption DEF LNTypeOK
<1>1. CASE LNSubscribe
  BY <1>1 DEF LNSubscribe
<1>2. CASE LNDrop
  <2>1. PICK k \in 0..Len(updates) : updates' = SubSeq(updates, 1, k)
    BY <1>2 DEF LNDrop
  <2>2. updates' \in Seq(Reqs)
    BY <2>1, PrefixType
  <2>3. drops' \in 0..MaxDrops
    BY <1>2 DEF LNDrop
  <2>4. UNCHANGED <<invoice, chan, opens, duplicates>> /\ subscribed' = FALSE
    BY <1>2 DEF LNDrop
  <2> QED
    BY <2>2, <2>3, <2>4
<1>3. ASSUME NEW q \in Reqs, LNDuplicate(q)
      PROVE  LNTypeOK'
  <2>1. updates' \in Seq(Reqs)
    BY <1>3, AppendType DEF LNDuplicate
  <2> QED
    BY <1>3, <2>1 DEF LNDuplicate
<1> QED
  BY <1>1, <1>2, <1>3

\* Reading an update (listenToInvoices) keeps the node's types.
LEMMA ReadUpdateType ==
    ASSUME LNTypeOK, updates /= <<>>, ReadUpdate
    PROVE  LNTypeOK'
<1>1. Tail(updates) \in Seq(Reqs)
  BY DEF LNTypeOK
<1> QED
  BY <1>1 DEF LNTypeOK, ReadUpdate

\* So does a step that leaves the node alone.
LEMMA LNUnchangedType == LNTypeOK /\ UNCHANGED lnVars => LNTypeOK'
  BY DEF LNTypeOK, lnVars

-----------------------------------------------------------------------------
(* A step of the server, seen by the table, by the node and by the server. *)

\* Only the lock, the opened channel, the cleanup, the process and the clock use
\* the table.
LEMMA TableUntouched ==
    ASSUME NEW q \in Reqs,
           \/ Submit(q) \/ CheckPolicy(q) \/ CheckCapacity(q)
           \/ AddInvoice(q) \/ CreateFile(q) \/ WriteAndReply(q)
           \/ OpenerStep(q) \/ OpenerStreamEnds(q)
           \/ ClientPays(q) \/ NodeActs(q)
           \/ HandleCanceled(q) \/ HandleSettled(q) \/ IgnoreSettled(q)
    PROVE  UNCHANGED tableVars
  BY DEF Submit, CheckPolicy, CheckCapacity, AddInvoice, CreateFile,
         WriteAndReply, OpenerStep, OpenerChecks, OpenerCalls, OpenerFails,
         OpenerRetries, OpenerStreamEnds, ClientPays, NodeActs, HandleCanceled,
         HandleSettled, IgnoreSettled

\* Every step of the server is a step of the table.
LEMMA ServerStepIsTableStep ==
    ASSUME LPTypeOK, [Next]_vars
    PROVE  [TableNext]_tableVars
<1> USE DEF LPTypeOK, ServerTypeOK
<1>1. ASSUME NEW q \in Reqs, LockNode(q)
      PROVE  [TableNext]_tableVars
  BY <1>1 DEF LockNode, TableNext, tableVars
<1>2. ASSUME NEW q \in Reqs, OpenerSeesOpen(q)
      PROVE  [TableNext]_tableVars
  BY <1>2 DEF OpenerSeesOpen, TableNext
<1>3. CASE SweepTable \/ Stop \/ TimePasses
  BY <1>3 DEF SweepTable, Stop, TimePasses, TableNext
<1>4. CASE Subscribe \/ Restart \/ StreamBreaks \/ UNCHANGED vars
  BY <1>4 DEF Subscribe, Restart, StreamBreaks, vars
<1> QED
  BY <1>1, <1>2, <1>3, <1>4, TableUntouched DEF Next, Handler, Opener, Listener

\* Every step of the server leaves the node's state well typed.
LEMMA LNTypeStep ==
    ASSUME LPTypeOK, [Next]_vars
    PROVE  LNTypeOK'
<1> USE LNUnchangedType DEF LPTypeOK
<1>0. now \in Nat
  BY MaxTimeAssumption DEF TableTypeOK
<1>1. ASSUME NEW q \in Reqs, Handler(q)
      PROVE  LNTypeOK'
  <2>1. CASE AddInvoice(q)
    <3>1. AmountForNewChan(winv[q].ChannelSize) \in Nat
      BY AmountType DEF ServerTypeOK
    <3> QED
      BY <1>0, <2>1, <3>1, LNInvoiceType DEF AddInvoice
  <2>2. CASE ~AddInvoice(q)
    BY <1>1, <2>2 DEF Handler, Submit, CheckPolicy, CheckCapacity, LockNode,
                      CreateFile, WriteAndReply
  <2> QED
    BY <2>1, <2>2
<1>2. ASSUME NEW q \in Reqs, Opener(q)
      PROVE  LNTypeOK'
  BY <1>2, LNChannelType
     DEF Opener, OpenerStep, OpenerChecks, OpenerCalls, OpenerFails,
         OpenerRetries, OpenerSeesOpen, OpenerStreamEnds
<1>3. ASSUME NEW q \in Reqs, ClientPays(q) \/ NodeActs(q)
      PROVE  LNTypeOK'
  BY <1>0, <1>3, LNInvoiceType, LNChannelType, LNStreamType
     DEF ClientPays, NodeActs
<1>4. ASSUME NEW q \in Reqs,
             HandleCanceled(q) \/ HandleSettled(q) \/ IgnoreSettled(q)
      PROVE  LNTypeOK'
  BY <1>4, ReadUpdateType
     DEF HandleCanceled, HandleSettled, IgnoreSettled, NextUpdate
<1>5. CASE Subscribe \/ StreamBreaks
  BY <1>5, LNStreamType DEF Subscribe, StreamBreaks
<1>6. CASE Stop
  <2>1. <<>> \in Seq(Reqs)
    OBVIOUS
  <2> QED
    BY <1>6, <2>1 DEF Stop, LNTypeOK
<1>7. CASE SweepTable \/ Restart \/ TimePasses \/ UNCHANGED vars
  BY <1>7 DEF SweepTable, Restart, TimePasses, vars
<1> QED
  BY <1>1, <1>2, <1>3, <1>4, <1>5, <1>6, <1>7 DEF Next, Listener

\* Every step of the server leaves its own state well typed.
LEMMA ServerTypeStep ==
    ASSUME LPTypeOK, [Next]_vars
    PROVE  ServerTypeOK'
<1> USE DEF ServerTypeOK, InFlight, Active
<1>0. ServerTypeOK /\ now \in Nat
  BY MaxTimeAssumption DEF LPTypeOK, TableTypeOK
<1> USE <1>0
<1>1. ASSUME NEW q \in Reqs,
             Submit(q) \/ CheckPolicy(q) \/ CheckCapacity(q)
      PROVE  ServerTypeOK'
  BY <1>1 DEF Submit, CheckPolicy, CheckCapacity, At, Goto
<1>2. ASSUME NEW q \in Reqs,
             LockNode(q)
      PROVE  ServerTypeOK'
  <2>1. pc' \in [Reqs -> InFlight \cup {"idle", "replied", "refused", "dead"}]
    BY <1>2 DEF LockNode, At, Goto
  <2>2. lockedAt' \in [Reqs -> Nat \cup {NoEntry}]
    BY <1>2 DEF LockNode
  <2>3. UNCHANGED <<cfg, up, winv, db, opener, attempt, stops>>
    BY <1>2 DEF LockNode
  <2> QED
    BY <2>1, <2>2, <2>3
<1>3. ASSUME NEW q \in Reqs,
             AddInvoice(q)
      PROVE  ServerTypeOK'
  BY <1>3 DEF AddInvoice, At, Goto
<1>4. ASSUME NEW q \in Reqs,
             CreateFile(q)
      PROVE  ServerTypeOK'
  BY <1>4 DEF CreateFile, At, Goto
<1>5. ASSUME NEW q \in Reqs,
             WriteAndReply(q)
      PROVE  ServerTypeOK'
  BY <1>5 DEF WriteAndReply, At, Goto
<1>6. ASSUME NEW q \in Reqs,
             OpenerChecks(q) \/ OpenerCalls(q) \/ OpenerSeesOpen(q) \/ OpenerStreamEnds(q)
      PROVE  ServerTypeOK'
  BY <1>6 DEF OpenerChecks, OpenerCalls, OpenerSeesOpen, OpenerStreamEnds,
         OpenerAt, OpenerGoto
<1>7. ASSUME NEW q \in Reqs,
             OpenerFails(q)
      PROVE  ServerTypeOK'
  BY <1>7 DEF OpenerFails, OpenerAt, OpenerGoto, MaxAttempts
<1>8. ASSUME NEW q \in Reqs,
             HandleCanceled(q) \/ HandleSettled(q)
      PROVE  ServerTypeOK'
  BY <1>8 DEF HandleCanceled, HandleSettled, RemoveFile
<1>9. ASSUME NEW q \in Reqs,
             ClientPays(q) \/ NodeActs(q) \/ IgnoreSettled(q)
      PROVE  ServerTypeOK'
  BY <1>9 DEF ClientPays, NodeActs, IgnoreSettled, lpVars
<1>10. ASSUME NEW q \in Reqs, OpenerRetries(q)
      PROVE  ServerTypeOK'
  BY <1>10 DEF OpenerRetries, OpenerAt, OpenerGoto, MaxAttempts
<1>11. CASE Stop
  <2>1. pc' \in [Reqs -> InFlight \cup {"idle", "replied", "refused", "dead"}]
    BY <1>11 DEF Stop
  <2>2. opener' \in [Reqs -> Active \cup {"none", "refused", "gaveup", "ended",
                                          "done", "killed"}]
    BY <1>11 DEF Stop
  <2>3. \A q \in Reqs : opener'[q] /= "delay"
    BY <1>11 DEF Stop
  <2>4. stops' \in 0..MaxStops /\ up' = FALSE
    BY <1>11, LPBoundsAssumption DEF Stop
  <2> QED
    BY <1>11, <2>1, <2>2, <2>3, <2>4 DEF Stop
<1>12. CASE Restart
  BY <1>12 DEF Restart
<1>13. CASE Subscribe \/ SweepTable \/ StreamBreaks \/ TimePasses \/ UNCHANGED vars
  BY <1>13 DEF Subscribe, SweepTable, StreamBreaks, TimePasses, lpVars, vars
<1> QED
  BY <1>1, <1>2, <1>3, <1>4, <1>5, <1>6, <1>7, <1>8, <1>9, <1>10, <1>11, <1>12, <1>13
     DEF Next, Handler, Opener, OpenerStep, Listener

-----------------------------------------------------------------------------
(* Type correctness, and the table.                                        *)

\* The three parts together: every step of the server keeps the types.
LEMMA LPTypeStep == LPTypeOK /\ [Next]_vars => LPTypeOK'
  BY ServerStepIsTableStep, TableTypeStep, LNTypeStep, ServerTypeStep DEF LPTypeOK

\* A server that has just started (New) is well typed.
LEMMA LPTypeInit == LPInit => LPTypeOK
<1> SUFFICES ASSUME LPInit
             PROVE  LPTypeOK
  OBVIOUS
<1>1. TableTypeOK
  BY MaxTimeAssumption DEF LPInit, TableInit, TableTypeOK, EmptyTable
<1>2. LNTypeOK
  <2>1. <<>> \in Seq(Reqs)
    OBVIOUS
  <2> QED
    <3>1. invoice \in [Reqs -> [state : {"none", "open", "settled", "canceled"},
                                value : Nat, paid : Nat, created : Nat]]
      BY DEF LPInit, LNInit, NoInvoice
    <3>2. updates \in Seq(Reqs)
      BY <2>1 DEF LPInit, LNInit
    <3>3. /\ chan \in [Reqs -> {"none", "pending", "failed", "open", "closed"}]
          /\ opens \in [Reqs -> Nat]
      BY DEF LPInit, LNInit
    <3>4. drops \in 0..MaxDrops /\ duplicates \in 0..MaxDuplicates
      BY LNBoundsAssumption DEF LPInit, LNInit
    <3>5. subscribed \in BOOLEAN
      BY DEF LPInit, LNInit
    <3> QED
      BY <3>1, <3>2, <3>3, <3>4, <3>5 DEF LNTypeOK
<1>3. ServerTypeOK
  BY LPBoundsAssumption
     DEF LPInit, ServerTypeOK, InFlight, Active, MaxAttempts
<1> QED
  BY <1>1, <1>2, <1>3 DEF LPTypeOK

\* The type invariant of the server, its node and its table.
THEOREM LPTypeCorrect == Spec => []LPTypeOK
  BY LPTypeInit, LPTypeStep, PTL DEF Spec

\* The handlers, the goroutines, the cleanup and the crashes of the server use
\* the table only through its operations.
THEOREM ServerImplementsTable == Spec => TableSpec
<1>1. LPInit => TableInit
  BY DEF LPInit
<1>2. LPTypeOK /\ [Next]_vars => [TableNext]_tableVars
  BY ServerStepIsTableStep
<1> QED
  BY <1>1, <1>2, LPTypeCorrect, PTL DEF Spec, TableSpec

-----------------------------------------------------------------------------
(* The inductive invariant.                                                *)

\* A step keeps what is known of a request it does not touch.
LEMMA Untouched ==
    ASSUME NEW r \in Reqs, RequestInv(r), UNCHANGED <<cfg, up, winv>>,
           pc'[r] = pc[r], invoice'[r] = invoice[r], db'[r] = db[r],
           opener'[r] = opener[r], opens'[r] = opens[r]
    PROVE  RequestInv(r)'
<1>1. PaidInFull(r)' = PaidInFull(r) /\ WithinPolicy(winv[r])' = WithinPolicy(winv[r])
  BY DEF PaidInFull, AmountForNewChan, WithinPolicy
<1>2. HandlerInv(r)'
  BY DEF RequestInv, HandlerInv
<1>3. PaymentInv(r)'
  BY DEF RequestInv, PaymentInv
<1>4. OpenerInv(r)'
  BY <1>1 DEF RequestInv, OpenerInv
<1> QED
  BY <1>2, <1>3, <1>4 DEF RequestInv

\* Nobody serves a request that is not paid (listenToInvoices).
LEMMA Unpaid ==
    ASSUME NEW r \in Reqs, RequestInv(r), invoice[r].state /= "settled"
    PROVE  opener[r] = "none" /\ opens[r] = 0
  BY DEF RequestInv, PaymentInv, OpenerInv

\* While a request is not paid, only its handler's promises are at stake.
LEMMA UnpaidStep ==
    ASSUME NEW r \in Reqs, RequestInv(r),
           invoice[r].state /= "settled", invoice'[r].state /= "settled",
           opener'[r] = opener[r], opens'[r] = opens[r], HandlerInv(r)'
    PROVE  RequestInv(r)'
<1>1. opener'[r] = "none" /\ opens'[r] = 0
  BY Unpaid
<1>2. PaymentInv(r)'
  BY <1>1 DEF PaymentInv
<1>3. OpenerInv(r)'
  BY <1>1 DEF OpenerInv, Active
<1> QED
  BY <1>2, <1>3 DEF RequestInv

\* A goroutine at work serves a payment in full under the policy it checked, and
\* has called the node only when it reads the call's stream (openChannel).
LEMMA Served ==
    ASSUME NEW r \in Reqs, RequestInv(r), opener[r] \in Active
    PROVE  /\ up /\ PaidInFull(r)
           /\ opener[r] /= "check" => WithinPolicy(winv[r])
           /\ opens[r] = IF opener[r] = "stream" THEN 1 ELSE 0
  BY DEF RequestInv, OpenerInv, Active

\* A goroutine's own step leaves the handler and the payment as they are.
LEMMA GoroutineStep ==
    ASSUME NEW r \in Reqs, RequestInv(r), UNCHANGED <<cfg, up, winv>>,
           pc'[r] = pc[r], invoice'[r] = invoice[r], db'[r] = db[r],
           opener[r] \in Active, opener'[r] /= "none",
           opener'[r] \in Active \ {"check"} => WithinPolicy(winv[r]),
           \/ opens'[r] = 0 /\ opener'[r] \notin {"stream", "done", "ended"}
           \/ opens'[r] = 1 /\ opener'[r] \in {"stream", "done", "ended"}
    PROVE  RequestInv(r)'
<1>1. PaidInFull(r)' = PaidInFull(r) /\ WithinPolicy(winv[r])' = WithinPolicy(winv[r])
  BY DEF PaidInFull, AmountForNewChan, WithinPolicy
<1>2. HandlerInv(r)'
  BY DEF RequestInv, HandlerInv
<1>3. PaymentInv(r)'
  BY DEF RequestInv, PaymentInv, Active
<1>4. up /\ PaidInFull(r)
  BY Served
<1>5. OpenerInv(r)'
  BY <1>1, <1>4 DEF OpenerInv
<1> QED
  BY <1>2, <1>3, <1>5 DEF RequestInv

\* Before any request, nothing is promised (New).
LEMMA InvInit == LPInit => IInv
  BY DEF LPInit, LNInit, NoInvoice, IInv, RequestInv, HandlerInv, PaymentInv,
         OpenerInv, BeforeInvoice, Active

\* CreateInvoice's steps keep what is known of each request.
LEMMA HandlerInvStep ==
    ASSUME LPTypeOK, IInv, NEW q \in Reqs, Handler(q), NEW r \in Reqs
    PROVE  RequestInv(r)'
<1>0. /\ pc \in [Reqs -> InFlight \cup {"idle", "replied", "refused", "dead"}]
      /\ db \in [Reqs -> {"absent", "torn", "whole"}]
      /\ invoice \in [Reqs -> [state : {"none", "open", "settled", "canceled"},
                               value : Nat, paid : Nat, created : Nat]]
      /\ RequestInv(r)
  BY DEF LPTypeOK, LNTypeOK, ServerTypeOK, IInv
<1>1. CASE Submit(q) \/ CheckPolicy(q) \/ CheckCapacity(q) \/ LockNode(q)
  <2>1. /\ UNCHANGED <<cfg, up, winv, invoice, db, opener, opens>>
        /\ pc[q] \in {"idle", "policy", "capacity", "lock"}
        /\ \E stage \in {"policy", "capacity", "lock", "invoice", "refused"} :
              pc' = [pc EXCEPT ![q] = stage]
    BY <1>1 DEF Submit, CheckPolicy, CheckCapacity, LockNode, At, Goto, lnVars
  <2>2. CASE r /= q
    BY <1>0, <2>1, <2>2, Untouched
  <2>3. CASE r = q
    <3>1. pc'[r] \in BeforeInvoice \cup {"refused"}
      BY <1>0, <2>1, <2>3 DEF BeforeInvoice
    <3>2. invoice[r].state = "none" /\ db[r] = "absent"
      BY <1>0, <2>1, <2>3 DEF RequestInv, HandlerInv, BeforeInvoice
    <3>3. HandlerInv(r)'
      BY <2>1, <3>1, <3>2 DEF HandlerInv, BeforeInvoice
    <3> QED
      BY <1>0, <2>1, <3>2, <3>3, UnpaidStep
  <2> QED
    BY <2>2, <2>3
<1>2. CASE AddInvoice(q)
  <2>1. /\ UNCHANGED <<cfg, up, winv, db, opener, opens>> /\ pc[q] = "invoice"
        /\ \/ UNCHANGED invoice /\ pc' = [pc EXCEPT ![q] = "refused"]
           \/ /\ \E i : i.state = "open" /\ invoice' = [invoice EXCEPT ![q] = i]
              /\ pc' = [pc EXCEPT ![q] = "create"]
    <3>1. CASE LNAddInvoice(q, AmountForNewChan(winv[q].ChannelSize), now)
                   /\ Goto(q, "create")
      <4> DEFINE i == [state |-> "open", paid |-> 0, created |-> now,
                       value |-> AmountForNewChan(winv[q].ChannelSize)]
      <4>1. i.state = "open" /\ invoice' = [invoice EXCEPT ![q] = i]
        BY <3>1 DEF LNAddInvoice
      <4> QED
        BY <1>2, <3>1, <4>1 DEF AddInvoice, LNAddInvoice, At, Goto
    <3>2. CASE Goto(q, "refused") /\ UNCHANGED lnVars
      BY <1>2, <3>2 DEF AddInvoice, lnVars, At, Goto
    <3> QED
      BY <1>2, <3>1, <3>2 DEF AddInvoice
  <2>2. CASE r /= q
    BY <1>0, <2>1, <2>2, Untouched
  <2>3. CASE r = q
    <3>1. invoice[r].state = "none" /\ db[r] = "absent"
      BY <1>0, <2>1, <2>3 DEF RequestInv, HandlerInv, BeforeInvoice
    <3>2. \/ pc'[r] = "refused" /\ invoice'[r].state = "none"
          \/ pc'[r] = "create" /\ invoice'[r].state = "open"
      BY <1>0, <2>1, <2>3, <3>1
    <3>3. HandlerInv(r)'
      BY <2>1, <3>1, <3>2 DEF HandlerInv, BeforeInvoice
    <3> QED
      BY <1>0, <2>1, <3>1, <3>2, <3>3, UnpaidStep
  <2> QED
    BY <2>2, <2>3
<1>3. CASE CreateFile(q)
  <2>1. /\ UNCHANGED <<cfg, up, winv, invoice, opener, opens>> /\ pc[q] = "create"
        /\ \/ pc' = [pc EXCEPT ![q] = "refused"] /\ UNCHANGED db
           \/ /\ pc' = [pc EXCEPT ![q] = "encode"]
              /\ db' = [db EXCEPT ![q] = "torn"]
    BY <1>3 DEF CreateFile, At, Goto, lnVars
  <2>2. CASE r /= q
    BY <1>0, <2>1, <2>2, Untouched
  <2>3. CASE r = q
    <3>1. invoice[r].state \in {"open", "canceled"}
      BY <1>0, <2>1, <2>3 DEF RequestInv, HandlerInv
    <3>2. pc'[r] = "refused" \/ (pc'[r] = "encode" /\ db'[r] = "torn")
      BY <1>0, <2>1, <2>3
    <3>3. HandlerInv(r)'
      BY <2>1, <3>1, <3>2 DEF HandlerInv, BeforeInvoice
    <3> QED
      BY <1>0, <2>1, <3>1, <3>3, UnpaidStep
  <2> QED
    BY <2>2, <2>3
<1>4. CASE WriteAndReply(q)
  <2>1. /\ UNCHANGED <<cfg, up, winv, invoice, opener, opens>> /\ pc[q] = "encode"
        /\ \/ pc' = [pc EXCEPT ![q] = "refused"]
           \/ /\ pc' = [pc EXCEPT ![q] = "replied"]
              /\ db'[q] = IF db[q] = "torn" THEN "whole" ELSE db[q]
        /\ \A p \in Reqs \ {q} : db'[p] = db[p]
    BY <1>0, <1>4 DEF WriteAndReply, At, Goto, lnVars
  <2>2. CASE r /= q
    BY <1>0, <2>1, <2>2, Untouched
  <2>3. CASE r = q
    <3>1. \/ invoice[r].state = "open" /\ db[r] = "torn"
          \/ invoice[r].state = "canceled"
      BY <1>0, <2>1, <2>3 DEF RequestInv, HandlerInv
    <3>2. \/ pc'[r] = "refused"
          \/ pc'[r] = "replied" /\ (db[r] = "torn" => db'[r] = "whole")
      BY <1>0, <2>1, <2>3
    <3>3. HandlerInv(r)'
      BY <2>1, <3>1, <3>2 DEF HandlerInv, BeforeInvoice
    <3> QED
      BY <1>0, <2>1, <3>1, <3>3, UnpaidStep
  <2> QED
    BY <2>2, <2>3
<1> QED
  BY <1>1, <1>2, <1>3, <1>4 DEF Handler

\* openChannel's steps keep what is known of each request.
LEMMA OpenerInvStep ==
    ASSUME LPTypeOK, IInv, NEW q \in Reqs, Opener(q), NEW r \in Reqs
    PROVE  RequestInv(r)'
<1>0. /\ opener \in [Reqs -> Active \cup {"none", "refused", "gaveup", "ended",
                                          "done", "killed"}]
      /\ opens \in [Reqs -> Nat]
      /\ RequestInv(r)
  BY DEF LPTypeOK, LNTypeOK, ServerTypeOK, IInv
<1>1. ASSUME NEW from \in Active, NEW to,
             UNCHANGED <<cfg, up, winv, pc, invoice, db, opens>>,
             opener[q] = from, opener' = [opener EXCEPT ![q] = to],
             \/ from = "check" /\ to = "refused"
             \/ from = "check" /\ to = "try" /\ WithinPolicy(winv[q])
             \/ from = "try" /\ to \in {"gaveup", "delay"}
             \/ from = "delay" /\ to = "try"
             \/ from = "stream" /\ to \in {"done", "ended"}
      PROVE  RequestInv(r)'
  <2>1. CASE r /= q
    BY <1>0, <1>1, <2>1, Untouched
  <2>2. CASE r = q
    <3>1. opener[r] = from /\ opener'[r] = to
      BY <1>0, <1>1, <2>2
    <3>2. /\ from /= "check" => WithinPolicy(winv[r])
          /\ opens[r] = IF from = "stream" THEN 1 ELSE 0
      BY <1>0, <1>1, <3>1, Served
    <3> QED
      BY <1>0, <1>1, <2>2, <3>1, <3>2, GoroutineStep DEF Active
  <2> QED
    BY <2>1, <2>2
<1>2. CASE OpenerChecks(q)
  BY <1>1, <1>2 DEF OpenerChecks, OpenerAt, OpenerGoto, CanCreateChannel, lnVars,
                    Active
<1>3. CASE OpenerFails(q)
  BY <1>1, <1>3 DEF OpenerFails, OpenerAt, OpenerGoto, lnVars, Active
<1>4. CASE OpenerRetries(q)
  BY <1>1, <1>4 DEF OpenerRetries, OpenerAt, OpenerGoto, lnVars, Active
<1>5. CASE OpenerSeesOpen(q)
  BY <1>1, <1>5 DEF OpenerSeesOpen, OpenerAt, OpenerGoto, lnVars, Active
<1>6. CASE OpenerStreamEnds(q)
  BY <1>1, <1>6 DEF OpenerStreamEnds, OpenerAt, OpenerGoto, lnVars, Active
<1>7. CASE OpenerCalls(q)
  <2>1. /\ UNCHANGED <<cfg, up, winv, pc, db, invoice>> /\ opener[q] = "try"
        /\ opener' = [opener EXCEPT ![q] = "stream"]
        /\ opens' = [opens EXCEPT ![q] = opens[q] + 1]
    BY <1>7 DEF OpenerCalls, OpenerAt, OpenerGoto, LNOpenChannel
  <2>2. CASE r /= q
    BY <1>0, <2>1, <2>2, Untouched
  <2>3. CASE r = q
    <3>1. opener[r] = "try" /\ opener'[r] = "stream" /\ opens'[r] = opens[r] + 1
      BY <1>0, <2>1, <2>3
    <3>2. WithinPolicy(winv[r]) /\ opens[r] = 0
      BY <1>0, <3>1, Served DEF Active
    <3>3. opens'[r] = 1
      BY <3>1, <3>2
    <3> QED
      BY <1>0, <2>1, <2>3, <3>1, <3>2, <3>3, GoroutineStep DEF Active
  <2> QED
    BY <2>2, <2>3
<1> QED
  BY <1>2, <1>3, <1>4, <1>5, <1>6, <1>7 DEF Opener, OpenerStep

\* listenToInvoices' steps keep what is known of each request.
LEMMA ListenerInvStep ==
    ASSUME LPTypeOK, IInv, NEW q \in Reqs, NEW r \in Reqs,
           HandleCanceled(q) \/ HandleSettled(q) \/ IgnoreSettled(q)
    PROVE  RequestInv(r)'
<1>0. /\ db \in [Reqs -> {"absent", "torn", "whole"}]
      /\ opener \in [Reqs -> Active \cup {"none", "refused", "gaveup", "ended",
                                          "done", "killed"}]
      /\ RequestInv(r)
  BY DEF LPTypeOK, ServerTypeOK, IInv
<1>1. CASE HandleCanceled(q)
  <2>1. /\ UNCHANGED <<cfg, up, pc, winv, invoice, opener, opens>>
        /\ invoice[q].state = "canceled" /\ db' = [db EXCEPT ![q] = "absent"]
    BY <1>1 DEF HandleCanceled, ReadUpdate, RemoveFile
  <2>2. CASE r /= q
    BY <1>0, <2>1, <2>2, Untouched
  <2>3. CASE r = q
    <3>1. invoice[r].state = "canceled" /\ db'[r] = "absent"
      BY <1>0, <2>1, <2>3
    <3>2. HandlerInv(r)'
      BY <1>0, <2>1, <3>1 DEF RequestInv, HandlerInv
    <3> QED
      BY <1>0, <2>1, <3>1, <3>2, UnpaidStep
  <2> QED
    BY <2>2, <2>3
<1>2. CASE HandleSettled(q)
  <2>1. /\ UNCHANGED <<cfg, up, pc, winv, invoice, opens>> /\ up
        /\ invoice[q].state = "settled" /\ db[q] = "whole" /\ PaidInFull(q)
        /\ db' = [db EXCEPT ![q] = "absent"]
        /\ opener' = [opener EXCEPT ![q] = "check"]
    BY <1>2 DEF HandleSettled, NextUpdate, ReadUpdate, Recorded, RemoveFile
  <2>2. CASE r /= q
    BY <1>0, <2>1, <2>2, Untouched
  <2>3. CASE r = q
    <3>1. /\ invoice[r].state = "settled" /\ pc[r] = "replied" /\ opens[r] = 0
          /\ db'[r] = "absent" /\ opener'[r] = "check"
      BY <1>0, <2>1, <2>3 DEF RequestInv, PaymentInv, OpenerInv
    <3>2. PaidInFull(r)'
      BY <2>1, <2>3 DEF PaidInFull, AmountForNewChan
    <3>3. HandlerInv(r)'
      BY <2>1, <3>1 DEF HandlerInv, BeforeInvoice
    <3>4. PaymentInv(r)'
      BY <2>1, <3>1 DEF PaymentInv
    <3>5. OpenerInv(r)'
      BY <2>1, <3>1, <3>2 DEF OpenerInv
    <3> QED
      BY <3>3, <3>4, <3>5 DEF RequestInv
  <2> QED
    BY <2>2, <2>3
<1>3. CASE IgnoreSettled(q)
  <2>1. UNCHANGED <<cfg, up, winv, pc, invoice, db, opener, opens>>
    BY <1>3 DEF IgnoreSettled, ReadUpdate, lpVars
  <2> QED
    BY <1>0, <2>1, Untouched
<1> QED
  BY <1>1, <1>2, <1>3

\* Payments and the node's own steps keep what is known of each request.
LEMMA NodeInvStep ==
    ASSUME LPTypeOK, IInv, NEW q \in Reqs, ClientPays(q) \/ NodeActs(q),
           NEW r \in Reqs
    PROVE  RequestInv(r)'
<1>0. /\ invoice \in [Reqs -> [state : {"none", "open", "settled", "canceled"},
                               value : Nat, paid : Nat, created : Nat]]
      /\ RequestInv(r)
  BY DEF LPTypeOK, LNTypeOK, IInv
<1>1. CASE ClientPays(q)
  <2>1. /\ UNCHANGED <<cfg, up, winv, pc, db, opener, opens>> /\ pc[q] = "replied"
        /\ invoice[q].state = "open"
        /\ \E paid : invoice' = [invoice EXCEPT ![q].state = "settled",
                                                ![q].paid = paid]
    BY <1>1 DEF ClientPays, LNSettle, Payable, lpVars
  <2>2. CASE r /= q
    BY <1>0, <2>1, <2>2, Untouched
  <2>3. CASE r = q
    <3>1. invoice[r].state = "open" /\ invoice'[r].state = "settled"
      BY <1>0, <2>1, <2>3
    <3>2. db[r] = "whole" /\ opener[r] = "none" /\ opens[r] = 0
      BY <1>0, <2>1, <2>3, <3>1, Unpaid DEF RequestInv, HandlerInv
    <3>3. HandlerInv(r)'
      BY <2>1, <2>3, <3>1 DEF HandlerInv, BeforeInvoice
    <3>4. PaymentInv(r)'
      BY <2>1, <2>3, <3>1, <3>2 DEF PaymentInv
    <3>5. OpenerInv(r)'
      BY <2>1, <3>2 DEF OpenerInv, Active
    <3> QED
      BY <3>3, <3>4, <3>5 DEF RequestInv
  <2> QED
    BY <2>2, <2>3
<1>2. CASE NodeActs(q) /\ LNCancel(q, now)
  <2>1. /\ UNCHANGED <<cfg, up, winv, pc, db, opener, opens>>
        /\ invoice[q].state = "open"
        /\ invoice' = [invoice EXCEPT ![q].state = "canceled"]
    BY <1>2 DEF NodeActs, LNCancel, lpVars
  <2>2. CASE r /= q
    BY <1>0, <2>1, <2>2, Untouched
  <2>3. CASE r = q
    <3>1. invoice[r].state = "open" /\ invoice'[r].state = "canceled"
      BY <1>0, <2>1, <2>3
    <3>2. HandlerInv(r)'
      BY <1>0, <2>1, <3>1 DEF RequestInv, HandlerInv, BeforeInvoice
    <3> QED
      BY <1>0, <2>1, <3>1, <3>2, UnpaidStep
  <2> QED
    BY <2>2, <2>3
<1>3. CASE NodeActs(q) /\ ~LNCancel(q, now)
  <2>1. UNCHANGED <<cfg, up, winv, pc, invoice, db, opener, opens>>
    BY <1>3 DEF NodeActs, LNDuplicate, LNConfirm, LNClose, lpVars
  <2> QED
    BY <1>0, <2>1, Untouched
<1> QED
  BY <1>1, <1>2, <1>3

\* The end of the process keeps what is known of each request: it kills handlers
\* and goroutines, and the records stay (Run).
LEMMA StopInvStep ==
    ASSUME LPTypeOK, IInv, Stop, NEW r \in Reqs
    PROVE  RequestInv(r)'
<1>1. /\ UNCHANGED <<invoice, opens, db>>
      /\ pc'[r] = IF pc[r] \in InFlight THEN "dead" ELSE pc[r]
      /\ opener'[r] = IF opener[r] \in Active THEN "killed" ELSE opener[r]
      /\ RequestInv(r)
  BY DEF Stop, IInv
<1>2. HandlerInv(r)'
  BY <1>1 DEF RequestInv, HandlerInv, BeforeInvoice, InFlight
<1>3. PaymentInv(r)'
  BY <1>1 DEF RequestInv, PaymentInv, InFlight, Active
<1>4. OpenerInv(r)'
  BY <1>1 DEF RequestInv, OpenerInv, Active
<1> QED
  BY <1>2, <1>3, <1>4 DEF RequestInv

\* A new process, under whatever configuration, keeps what is known of each
\* request: no goroutine is at work before it (New).
LEMMA RestartInvStep ==
    ASSUME LPTypeOK, IInv, Restart, NEW r \in Reqs
    PROVE  RequestInv(r)'
<1>1. /\ UNCHANGED <<invoice, opens, db, pc, opener>> /\ ~up /\ RequestInv(r)
  BY DEF Restart, lnVars, IInv
<1>2. opener[r] \notin Active
  BY <1>1 DEF RequestInv, OpenerInv
<1>3. HandlerInv(r)'
  BY <1>1 DEF RequestInv, HandlerInv
<1>4. PaymentInv(r)'
  BY <1>1 DEF RequestInv, PaymentInv
<1>5. OpenerInv(r)'
  BY <1>1, <1>2 DEF RequestInv, OpenerInv
<1> QED
  BY <1>3, <1>4, <1>5 DEF RequestInv

\* Every step of the server keeps what is known of each request.
LEMMA InvStep ==
    ASSUME LPTypeOK, IInv, [Next]_vars
    PROVE  IInv'
<1> SUFFICES ASSUME NEW r \in Reqs
             PROVE  RequestInv(r)'
  BY DEF IInv
<1>1. CASE \E q \in Reqs : Handler(q) \/ Opener(q) \/ ClientPays(q) \/ NodeActs(q)
  BY <1>1, HandlerInvStep, OpenerInvStep, NodeInvStep
<1>2. CASE \/ Subscribe \/ SweepTable \/ StreamBreaks \/ TimePasses
           \/ UNCHANGED vars
  <2>1. UNCHANGED <<cfg, up, winv, pc, invoice, db, opener, opens>>
    BY <1>2 DEF Subscribe, SweepTable, StreamBreaks, TimePasses,
                LNSubscribe, LNDrop, vars, lnVars, lpVars
  <2> QED
    BY <2>1, Untouched DEF IInv
<1>3. CASE Listener
  BY <1>2, <1>3, ListenerInvStep DEF Listener
<1>4. CASE Stop \/ Restart
  BY <1>4, StopInvStep, RestartInvStep
<1> QED
  BY <1>1, <1>2, <1>3, <1>4 DEF Next

\* The inductive invariant holds in every reachable state.
THEOREM InvCorrect == Spec => []IInv
<1>1. LPTypeOK /\ IInv /\ [Next]_vars => IInv'
  BY InvStep
<1> QED
  BY InvInit, <1>1, LPTypeCorrect, PTL DEF Spec

-----------------------------------------------------------------------------
(* What a step does to one request's invoice and channel.                  *)

\* The handler has made the invoice (CreateInvoice).
Invoiced == {"create", "encode", "replied"}

\* amountForNewChan under some configuration.
PriceUnder(c, size) == (size * c.ChanInvoiceFeeRate) \div RateScale

\* The node neither opens nor closes for this request.
SameChannel(q) == chan'[q] = chan[q] /\ opens'[q] = opens[q]

\* AddInvoice, at the price in force.
IsOffered(q) ==
    /\ pc[q] = "invoice" /\ invoice[q].state = "none"
    /\ invoice'[q].state = "open" /\ invoice'[q].paid = 0
    /\ invoice'[q].value = AmountForNewChan(winv[q].ChannelSize)

\* The client pays a replied invoice, once.
IsSettled(q) ==
    /\ pc[q] = "replied" /\ invoice[q].state = "open"
    /\ invoice'[q].state = "settled" /\ invoice'[q].value = invoice[q].value
    /\ \E extra \in 0..MaxOverpay : invoice'[q].paid = invoice[q].value + extra

\* An open invoice is canceled.
IsCanceled(q) ==
    /\ invoice[q].state = "open" /\ invoice'[q].state = "canceled"
    /\ invoice'[q].value = invoice[q].value /\ invoice'[q].paid = invoice[q].paid

\* The goroutine's first accepted OpenChannel call.
IsCalled(q) ==
    /\ opener[q] = "try"
    /\ opens[q] = 0 /\ opens'[q] = 1
    /\ chan'[q] \in {"pending", "failed"}

\* The channel confirms, or closes.
IsMined(q) ==
    /\ opens'[q] = opens[q]
    /\ \/ chan[q] = "pending" /\ chan'[q] = "open"
       \/ chan[q] = "open" /\ chan'[q] = "closed"

\* Only the invoice, only the channel, or neither.
InvoiceMoves(q) == /\ IsOffered(q) \/ IsSettled(q) \/ IsCanceled(q)
                   /\ SameChannel(q)

ChannelMoves(q) == /\ IsCalled(q) \/ IsMined(q)
                   /\ invoice'[q] = invoice[q]

NothingMoves(q) == invoice'[q] = invoice[q] /\ SameChannel(q)

\* A step makes, settles or cancels a request's invoice, or opens or closes its
\* channel, or starts another process, and never two of these at once.
LEMMA RequestMoves ==
    ASSUME LPTypeOK, IInv, [Next]_vars, NEW q \in Reqs
    PROVE  \/ Restart /\ NothingMoves(q)
           \/ cfg' = cfg /\ (InvoiceMoves(q) \/ ChannelMoves(q) \/ NothingMoves(q))
<1>0. /\ invoice \in [Reqs -> [state : {"none", "open", "settled", "canceled"},
                               value : Nat, paid : Nat, created : Nat]]
      /\ chan \in [Reqs -> {"none", "pending", "failed", "open", "closed"}]
      /\ opens \in [Reqs -> Nat]
  BY DEF LPTypeOK, LNTypeOK
<1>1. ASSUME NEW r \in Reqs, AddInvoice(r),
             LNAddInvoice(r, AmountForNewChan(winv[r].ChannelSize), now)
      PROVE  InvoiceMoves(q) \/ NothingMoves(q)
  <2>1. /\ SameChannel(q) /\ pc[r] = "invoice" /\ invoice[r].state = "none"
        /\ invoice' = [invoice EXCEPT ![r] =
              [state |-> "open", value |-> AmountForNewChan(winv[r].ChannelSize),
               paid |-> 0, created |-> now]]
    BY <1>1 DEF AddInvoice, LNAddInvoice, At, SameChannel
  <2>2. CASE r = q
    BY <1>0, <2>1, <2>2 DEF InvoiceMoves, IsOffered
  <2>3. CASE r /= q
    BY <1>0, <2>1, <2>3 DEF NothingMoves
  <2> QED
    BY <2>2, <2>3
<1>2. ASSUME NEW r \in Reqs, ClientPays(r)
      PROVE  InvoiceMoves(q) \/ NothingMoves(q)
  <2>1. PICK extra \in 0..MaxOverpay :
            invoice' = [invoice EXCEPT ![r].state = "settled",
                                       ![r].paid = invoice[r].value + extra]
    BY <1>2 DEF ClientPays, LNSettle
  <2>2. SameChannel(q) /\ pc[r] = "replied" /\ invoice[r].state = "open"
    BY <1>2 DEF ClientPays, LNSettle, Payable, SameChannel
  <2>3. CASE r = q
    <3>1. /\ invoice'[q].state = "settled" /\ invoice'[q].value = invoice[q].value
          /\ invoice'[q].paid = invoice[q].value + extra
      BY <1>0, <2>1, <2>3
    <3> QED
      BY <2>2, <2>3, <3>1 DEF InvoiceMoves, IsSettled
  <2>4. CASE r /= q
    BY <1>0, <2>1, <2>2, <2>4 DEF NothingMoves
  <2> QED
    BY <2>3, <2>4
<1>3. ASSUME NEW r \in Reqs, LNCancel(r, now)
      PROVE  InvoiceMoves(q) \/ NothingMoves(q)
  <2>1. /\ SameChannel(q) /\ invoice[r].state = "open"
        /\ invoice' = [invoice EXCEPT ![r].state = "canceled"]
    BY <1>3 DEF LNCancel, SameChannel
  <2>2. CASE r = q
    BY <1>0, <2>1, <2>2 DEF InvoiceMoves, IsCanceled
  <2>3. CASE r /= q
    BY <1>0, <2>1, <2>3 DEF NothingMoves
  <2> QED
    BY <2>2, <2>3
<1>4. ASSUME NEW r \in Reqs, LNConfirm(r) \/ LNClose(r)
      PROVE  ChannelMoves(q) \/ NothingMoves(q)
  <2>1. /\ UNCHANGED <<invoice, opens>>
        /\ \/ chan[r] = "pending" /\ chan' = [chan EXCEPT ![r] = "open"]
           \/ chan[r] = "open" /\ chan' = [chan EXCEPT ![r] = "closed"]
    BY <1>4 DEF LNConfirm, LNClose
  <2>2. CASE r = q
    BY <1>0, <2>1, <2>2 DEF ChannelMoves, IsMined
  <2>3. CASE r /= q
    BY <1>0, <2>1, <2>3 DEF NothingMoves, SameChannel
  <2> QED
    BY <2>2, <2>3
<1>5. ASSUME NEW r \in Reqs, OpenerCalls(r)
      PROVE  ChannelMoves(q) \/ NothingMoves(q)
  <2>1. /\ UNCHANGED invoice /\ opener[r] = "try"
        /\ opens' = [opens EXCEPT ![r] = opens[r] + 1]
        /\ \E outcome \in {"pending", "failed"} :
              chan' = [chan EXCEPT ![r] = outcome]
    BY <1>5 DEF OpenerCalls, OpenerAt, LNOpenChannel
  <2>2. CASE r = q
    <3>1. opens[q] = 0
      BY <2>1, <2>2, Served DEF IInv, Active
    <3>2. opens'[q] = 1 /\ chan'[q] \in {"pending", "failed"}
      BY <1>0, <2>1, <2>2, <3>1
    <3> QED
      BY <2>1, <2>2, <3>1, <3>2 DEF ChannelMoves, IsCalled
  <2>3. CASE r /= q
    BY <1>0, <2>1, <2>3 DEF NothingMoves, SameChannel
  <2> QED
    BY <2>2, <2>3
<1>6. ASSUME UNCHANGED <<invoice, chan, opens>>
      PROVE  NothingMoves(q)
  BY <1>6 DEF NothingMoves, SameChannel
<1>7. ASSUME NEW r \in Reqs, Handler(r)
      PROVE  cfg' = cfg /\ (InvoiceMoves(q) \/ NothingMoves(q))
  <2>1. CASE AddInvoice(r) /\ UNCHANGED lnVars
    BY <1>6, <2>1 DEF AddInvoice, lnVars
  <2>2. CASE ~AddInvoice(r)
    BY <1>6, <1>7, <2>2 DEF Handler, Submit, CheckPolicy, CheckCapacity, LockNode,
                            CreateFile, WriteAndReply, lnVars
  <2> QED
    BY <1>1, <2>1, <2>2 DEF AddInvoice
<1>8. ASSUME NEW r \in Reqs, Opener(r)
      PROVE  cfg' = cfg /\ (ChannelMoves(q) \/ NothingMoves(q))
  <2>1. CASE OpenerCalls(r)
    BY <1>5, <2>1 DEF OpenerCalls
  <2>2. CASE ~OpenerCalls(r)
    BY <1>6, <1>8, <2>2 DEF Opener, OpenerStep, OpenerChecks, OpenerFails,
                            OpenerRetries, OpenerSeesOpen, OpenerStreamEnds, lnVars
  <2> QED
    BY <2>1, <2>2
<1>9. ASSUME NEW r \in Reqs, ClientPays(r) \/ NodeActs(r)
      PROVE  cfg' = cfg /\ (InvoiceMoves(q) \/ ChannelMoves(q) \/ NothingMoves(q))
  <2>1. cfg' = cfg
    BY <1>9 DEF ClientPays, NodeActs, lpVars
  <2>2. CASE LNDuplicate(r)
    BY <1>6, <2>1, <2>2 DEF LNDuplicate
  <2>3. CASE ClientPays(r) \/ LNCancel(r, now)
    BY <1>2, <1>3, <2>1, <2>3
  <2>4. CASE LNConfirm(r) \/ LNClose(r)
    BY <1>4, <2>1, <2>4
  <2> QED
    BY <1>9, <2>2, <2>3, <2>4 DEF NodeActs
<1>10. CASE Listener
  BY <1>6, <1>10 DEF Listener, Subscribe, LNSubscribe, HandleCanceled,
                     HandleSettled, IgnoreSettled, ReadUpdate, lpVars
<1>11. CASE SweepTable \/ Stop \/ StreamBreaks \/ TimePasses \/ UNCHANGED vars
  BY <1>6, <1>11 DEF SweepTable, Stop, StreamBreaks, LNDrop, TimePasses, vars,
                     lnVars, lpVars
<1>12. CASE Restart
  BY <1>6, <1>12 DEF Restart, lnVars
<1> QED
  BY <1>7, <1>8, <1>9, <1>10, <1>11, <1>12 DEF Next

\* What a request asks for never changes, and neither a reply nor an invoice is
\* taken back; an invoice comes before a reply.
LEMMA HandlerMoves ==
    ASSUME LPTypeOK, IInv, [Next]_vars, NEW q \in Reqs
    PROVE  /\ winv' = winv
           /\ pc[q] = "replied" => pc'[q] = "replied"
           /\ pc'[q] \in Invoiced => pc[q] \in Invoiced \/ IsOffered(q)
<1>0. /\ pc \in [Reqs -> InFlight \cup {"idle", "replied", "refused", "dead"}]
      /\ invoice \in [Reqs -> [state : {"none", "open", "settled", "canceled"},
                               value : Nat, paid : Nat, created : Nat]]
  BY DEF LPTypeOK, ServerTypeOK, LNTypeOK
<1> DEFINE Goal == /\ winv' = winv
                   /\ pc[q] = "replied" => pc'[q] = "replied"
                   /\ pc'[q] \in Invoiced => pc[q] \in Invoiced \/ IsOffered(q)
<1>1. ASSUME NEW r \in Reqs, Submit(r) \/ CheckPolicy(r) \/ CheckCapacity(r)
                             \/ LockNode(r) \/ CreateFile(r) \/ WriteAndReply(r)
      PROVE  Goal
  <2>1. winv' = winv /\ pc[r] /= "replied"
    BY <1>1 DEF Submit, CheckPolicy, CheckCapacity, LockNode, CreateFile,
                WriteAndReply, At
  <2>2. \/ \E stage \in {"policy", "capacity", "lock", "invoice", "refused"} :
               pc' = [pc EXCEPT ![r] = stage]
        \/ /\ pc[r] \in Invoiced
           /\ \E stage \in {"encode", "replied", "refused"} :
                 pc' = [pc EXCEPT ![r] = stage]
    BY <1>1 DEF Submit, CheckPolicy, CheckCapacity, LockNode, CreateFile,
                WriteAndReply, At, Goto, Invoiced
  <2>3. CASE r = q
    BY <1>0, <2>1, <2>2, <2>3 DEF Invoiced
  <2>4. CASE r /= q
    BY <1>0, <2>1, <2>2, <2>4
  <2> QED
    BY <2>3, <2>4
<1>2. ASSUME NEW r \in Reqs, AddInvoice(r)
      PROVE  Goal
  <2>1. /\ winv' = winv /\ pc[r] = "invoice"
        /\ \/ pc' = [pc EXCEPT ![r] = "refused"]
           \/ /\ pc' = [pc EXCEPT ![r] = "create"]
              /\ invoice[r].state = "none"
              /\ invoice' = [invoice EXCEPT ![r] =
                    [state |-> "open", paid |-> 0, created |-> now,
                     value |-> AmountForNewChan(winv[r].ChannelSize)]]
    BY <1>2 DEF AddInvoice, LNAddInvoice, At, Goto
  <2>2. CASE r = q
    BY <1>0, <2>1, <2>2 DEF IsOffered, Invoiced
  <2>3. CASE r /= q
    BY <1>0, <2>1, <2>3
  <2> QED
    BY <2>2, <2>3
<1>3. CASE Stop
  BY <1>0, <1>3 DEF Stop, InFlight, Invoiced
<1>4. ASSUME UNCHANGED <<pc, winv>>
      PROVE  Goal
  BY <1>4
<1>5. ASSUME NEW r \in Reqs, Opener(r) \/ ClientPays(r) \/ NodeActs(r)
      PROVE  UNCHANGED <<pc, winv>>
  BY <1>5 DEF Opener, OpenerStep, OpenerChecks, OpenerCalls, OpenerFails,
              OpenerRetries, OpenerSeesOpen, OpenerStreamEnds, ClientPays,
              NodeActs, lpVars
<1>6. CASE Listener
  BY <1>4, <1>6 DEF Listener, Subscribe, HandleCanceled, HandleSettled,
                    IgnoreSettled, lpVars
<1>7. CASE SweepTable \/ Restart \/ StreamBreaks \/ TimePasses \/ UNCHANGED vars
  BY <1>4, <1>7 DEF SweepTable, Restart, StreamBreaks, TimePasses, vars, lpVars
<1> QED
  BY <1>1, <1>2, <1>3, <1>4, <1>5, <1>6, <1>7 DEF Next, Handler

\* An invoice asks for the price of some configuration, what was paid is its
\* value and perhaps more, and a channel comes from a call of the node.
BoughtInv(q) ==
    /\ pc[q] \in Invoiced => invoice[q].state /= "none"
    /\ invoice[q].state /= "none" =>
           \E c \in Configs : invoice[q].value = PriceUnder(c, winv[q].ChannelSize)
    /\ invoice[q].state = "settled" =>
           \E extra \in 0..MaxOverpay : invoice[q].paid = invoice[q].value + extra
    /\ invoice[q].state /= "settled" => invoice[q].paid = 0
    /\ (chan[q] = "none") = (opens[q] = 0)

\* A step keeps it.
LEMMA BoughtStep ==
    ASSUME LPTypeOK, IInv, [Next]_vars, NEW q \in Reqs, BoughtInv(q)
    PROVE  BoughtInv(q)'
<1>1. /\ winv' = winv
      /\ pc'[q] \in Invoiced => pc[q] \in Invoiced \/ IsOffered(q)
  BY HandlerMoves
<1>2. \A c : PriceUnder(c, winv[q].ChannelSize)'
                 = PriceUnder(c, winv[q].ChannelSize)
  BY <1>1 DEF PriceUnder
<1>3. CASE NothingMoves(q)
  BY <1>1, <1>2, <1>3 DEF BoughtInv, NothingMoves, SameChannel, IsOffered
<1>4. CASE IsOffered(q) /\ SameChannel(q)
  <2>1. cfg \in Configs
    BY DEF LPTypeOK, ServerTypeOK
  <2>2. invoice'[q].value = PriceUnder(cfg, winv[q].ChannelSize)
    BY <1>4 DEF IsOffered, AmountForNewChan, PriceUnder
  <2> QED
    BY <1>1, <1>2, <1>4, <2>1, <2>2 DEF BoughtInv, IsOffered, SameChannel
<1>5. CASE IsSettled(q) /\ SameChannel(q)
  BY <1>1, <1>2, <1>5 DEF BoughtInv, IsSettled, SameChannel
<1>6. CASE IsCanceled(q) /\ SameChannel(q)
  BY <1>1, <1>2, <1>6 DEF BoughtInv, IsCanceled, SameChannel
<1>7. CASE ChannelMoves(q)
  BY <1>1, <1>2, <1>7
     DEF BoughtInv, ChannelMoves, IsCalled, IsMined, IsOffered
<1> QED
  BY <1>3, <1>4, <1>5, <1>6, <1>7, RequestMoves DEF InvoiceMoves

\* In every reachable state, what was offered, paid and opened fits together.
LEMMA BoughtCorrect == Spec => [](\A q \in Reqs : BoughtInv(q))
<1> DEFINE Bought == \A q \in Reqs : BoughtInv(q)
<1>1. LPInit => Bought
  BY DEF LPInit, LNInit, NoInvoice, BoughtInv, Invoiced
<1>2. LPTypeOK /\ IInv /\ Bought /\ [Next]_vars => Bought'
  BY BoughtStep
<1> QED
  BY <1>1, <1>2, LPTypeCorrect, InvCorrect, PTL DEF Spec

-----------------------------------------------------------------------------
(* The safety properties.                                                  *)

\* No payment buys two channels, and no channel comes without a payment.
THEOREM OneChannelPerPaymentHolds == Spec => []OneChannelPerPayment
<1>1. LPTypeOK /\ IInv => OneChannelPerPayment
  BY DEF IInv, RequestInv, OpenerInv, PaymentInv, OneChannelPerPayment
<1> QED
  BY <1>1, InvCorrect, LPTypeCorrect, PTL

\* Whoever is served paid in full, as the price stands now.
THEOREM ServedIsPaidInFullHolds == Spec => []ServedIsPaidInFull
<1>1. IInv => ServedIsPaidInFull
  BY DEF IInv, RequestInv, OpenerInv, PaymentInv, ServedIsPaidInFull, Active
<1> QED
  BY <1>1, InvCorrect, PTL

\* Whoever is served is within the policy, as it stands now.
THEOREM ServedWithinPolicyHolds == Spec => []ServedWithinPolicy
<1>1. IInv => ServedWithinPolicy
  BY DEF IInv, RequestInv, OpenerInv, ServedWithinPolicy
<1> QED
  BY <1>1, InvCorrect, PTL

\* What can be paid has its record on disk.
THEOREM PayableIsRecordedHolds == Spec => []PayableIsRecorded
<1>1. IInv => PayableIsRecorded
  BY DEF IInv, RequestInv, HandlerInv, PayableIsRecorded, Recorded
<1> QED
  BY <1>1, InvCorrect, PTL

\* What was paid has its record, or a goroutine, and not both.
THEOREM PaidIsAccountedHolds == Spec => []PaidIsAccounted
<1>1. IInv => PaidIsAccounted
  BY DEF IInv, RequestInv, PaymentInv, PaidIsAccounted, Recorded
<1> QED
  BY <1>1, InvCorrect, PTL

-----------------------------------------------------------------------------
(* The entries of the table.                                               *)

\* A request's entry is not taken away, while dcrlnd takes the payment of the
\* invoice made along with it, but by the end of the process or by the goroutine
\* that opened a channel to its node.
LEMMA EntryStep ==
    ASSUME LPTypeOK, [Next]_vars, NEW q \in Reqs
    PROVE  EntryKeptOrDone(q)
<1> DEFINE n == winv[q].TargetNode
<1> SUFFICES ASSUME HoldsEntry(q)
             PROVE  \/ pendingChans'[n] = lockedAt[q]
                    \/ ~up'
                    \/ \E p \in RequestsOf(n) :
                           opener[p] = "stream" /\ opener'[p] = "done"
  BY DEF EntryKeptOrDone
<1>0. /\ n \in Nodes /\ pendingChans[n] = lockedAt[q]
      /\ lockedAt[q] \in Nat /\ ~Stale(lockedAt[q]) /\ HasPending(n)
  <2>1. lockedAt[q] \in Nat /\ invoice[q].created \in Nat /\ now \in Nat
    BY MaxTimeAssumption DEF LPTypeOK, TableTypeOK, LNTypeOK, HoldsEntry
  <2>2. now <= lockedAt[q] + InvoiceExpiry /\ pendingChans[n] = lockedAt[q]
    BY DEF HoldsEntry, Payable
  <2>3. ~Stale(lockedAt[q])
    BY <2>1, <2>2, InvoiceExpiryAssumption, InvoiceExpirationAssumption,
       ExpiryAssumption DEF Stale
  <2> QED
    BY <2>1, <2>2, <2>3, NoEntryAssumption
       DEF LPTypeOK, ServerTypeOK, HasPending
<1>1. ASSUME NEW p \in Reqs, LockNode(p)
      PROVE  pendingChans'[n] = lockedAt[q]
  BY <1>0, <1>1 DEF LockNode, RegisterRequest, tableVars, LPTypeOK, TableTypeOK
<1>2. ASSUME NEW p \in Reqs, OpenerSeesOpen(p)
      PROVE  \/ pendingChans'[n] = lockedAt[q]
             \/ p \in RequestsOf(n) /\ opener[p] = "stream" /\ opener'[p] = "done"
  BY <1>0, <1>2 DEF OpenerSeesOpen, OpenerAt, OpenerGoto, ReleaseNode, RequestsOf,
                    LPTypeOK, TableTypeOK, ServerTypeOK
<1>3. CASE SweepTable
  BY <1>0, <1>3 DEF SweepTable, Sweep
<1>4. CASE Stop
  BY <1>4 DEF Stop
<1>5. CASE TimePasses
  BY <1>0, <1>5 DEF TimePasses, Tick
<1>6. CASE UNCHANGED tableVars
  BY <1>0, <1>6 DEF tableVars
<1>7. CASE Subscribe \/ Restart \/ StreamBreaks \/ UNCHANGED vars
  BY <1>6, <1>7 DEF Subscribe, Restart, StreamBreaks, vars
<1> QED
  BY <1>1, <1>2, <1>3, <1>4, <1>5, <1>6, <1>7, TableUntouched
     DEF Next, Handler, Opener, Listener

\* Whoever can pay is not pushed out of the table, in whatever order handlers,
\* goroutines and the cleanup come.
THEOREM EntryOutlivesInvoiceHolds == Spec => EntryOutlivesInvoice
<1>1. LPTypeOK /\ [Next]_vars => [\A q \in Reqs : EntryKeptOrDone(q)]_vars
  BY EntryStep
<1> QED
  BY <1>1, LPTypeCorrect, PTL DEF Spec, EntryOutlivesInvoice

-----------------------------------------------------------------------------
(* The server implements RequestLease.                                     *)

LeaseMap == Lease!leaseVars

\* What the lease sees of a step that lets nobody in and opens no channel.
LEMMA LeaseUntouched ==
    ASSUME UNCHANGED <<now, up, winv>>,
           \A r \in Reqs : /\ (lockedAt'[r] /= NoEntry) = (lockedAt[r] /= NoEntry)
                           /\ (opener'[r] = "done") = (opener[r] = "done"),
           \A n \in Nodes : TicksLeft(n)' = TicksLeft(n)
    PROVE  UNCHANGED LeaseMap
<1>1. \A n \in Nodes : Admitted(n)' = Admitted(n) /\ Opened(n)' = Opened(n)
  BY DEF Admitted, Opened, RequestsOf
<1> QED
  BY <1>1 DEF LeaseMap, Lease!leaseVars

\* A step that leaves the table and the process alone lets nobody in and opens
\* no channel; a goroutine that is done stays done, as its record is gone.
LEMMA NobodyLetIn ==
    ASSUME LPTypeOK, IInv, NEW q \in Reqs,
           \/ Submit(q) \/ CheckPolicy(q) \/ CheckCapacity(q)
           \/ AddInvoice(q) \/ CreateFile(q) \/ WriteAndReply(q)
           \/ OpenerStep(q) \/ OpenerStreamEnds(q)
           \/ ClientPays(q) \/ NodeActs(q)
           \/ HandleCanceled(q) \/ HandleSettled(q) \/ IgnoreSettled(q)
    PROVE  /\ UNCHANGED <<up, winv, lockedAt>>
           /\ \A r \in Reqs : (opener'[r] = "done") = (opener[r] = "done")
<1> USE DEF LPTypeOK, ServerTypeOK
<1>1. CASE Submit(q) \/ CheckPolicy(q) \/ CheckCapacity(q) \/ AddInvoice(q)
               \/ CreateFile(q) \/ WriteAndReply(q)
  BY <1>1 DEF Submit, CheckPolicy, CheckCapacity, AddInvoice, CreateFile,
              WriteAndReply
<1>2. CASE OpenerStep(q) \/ OpenerStreamEnds(q)
  BY <1>2 DEF OpenerStep, OpenerChecks, OpenerCalls, OpenerFails, OpenerRetries,
              OpenerStreamEnds, OpenerAt, OpenerGoto
<1>3. CASE ClientPays(q) \/ NodeActs(q) \/ HandleCanceled(q) \/ IgnoreSettled(q)
  BY <1>3 DEF ClientPays, NodeActs, HandleCanceled, IgnoreSettled, lpVars
<1>4. CASE HandleSettled(q)
  <2>1. opener[q] = "none"
    BY <1>4 DEF HandleSettled, Recorded, IInv, RequestInv, PaymentInv
  <2> QED
    BY <1>4, <2>1 DEF HandleSettled
<1> QED
  BY <1>1, <1>2, <1>3, <1>4

\* Each step of the server is one of the lease's: it lets a request in, opens a
\* channel, ends or begins a process, passes time, or is none of its business.
LEMMA ServerStepIsLeaseStep ==
    ASSUME LPTypeOK, IInv, [Next]_vars
    PROVE  [Lease!Next]_LeaseMap
<1>0. TableTypeOK
  BY DEF LPTypeOK
<1>types. /\ winv \in [Reqs -> [TargetNode : Nodes, ChannelSize : Sizes]]
          /\ lockedAt \in [Reqs -> Nat \cup {NoEntry}]
          /\ DOMAIN opener = Reqs /\ now \in Nat
  BY MaxTimeAssumption DEF LPTypeOK, ServerTypeOK, TableTypeOK
<1>1. ASSUME NEW q \in Reqs, LockNode(q)
      PROVE  [Lease!Next]_LeaseMap
  <2>1. PICK n \in Nodes : n = winv[q].TargetNode
    BY <1>types
  <2>2. CASE RegisterRequest(n) /\ lockedAt' = [lockedAt EXCEPT ![q] = now]
    <3>1. /\ TicksLeft(n) = 0 /\ TicksLeft(n)' = InvoiceExpiration + 1
          /\ \A m \in Nodes \ {n} : TicksLeft(m)' = TicksLeft(m)
      BY <1>0, <2>1, <2>2, RegisterGrants
    <3>2. up /\ UNCHANGED <<now, up, winv, opener>>
      BY <1>1, <2>2 DEF LockNode, RegisterRequest, At
    <3>3. \A m \in Nodes : Opened(m)' = Opened(m)
      BY <3>2 DEF Opened, RequestsOf
    <3>4. \A m \in Nodes : Admitted(m)' = IF m = n THEN Admitted(m) \cup {q}
                                                  ELSE Admitted(m)
      BY <1>types, <2>1, <2>2, <3>2, NoEntryAssumption DEF Admitted, RequestsOf
    <3>5. Lease!Grant(n, q)
      BY <2>1, <3>1, <3>2, <3>3, <3>4 DEF Lease!Grant
    <3> QED
      BY <2>1, <3>5 DEF Lease!Next
  <2>3. CASE UNCHANGED <<tableVars, lockedAt>>
    <3>1. UNCHANGED <<now, up, winv, opener, lockedAt>>
      BY <1>1, <2>3 DEF LockNode, tableVars
    <3>2. \A m \in Nodes : TicksLeft(m)' = TicksLeft(m)
      BY <2>3 DEF TicksLeft, tableVars
    <3> QED
      BY <3>1, <3>2, LeaseUntouched
  <2> QED
    BY <1>1, <2>1, <2>2, <2>3 DEF LockNode
<1>2. ASSUME NEW q \in Reqs, OpenerSeesOpen(q)
      PROVE  [Lease!Next]_LeaseMap
  <2>1. PICK n \in Nodes : n = winv[q].TargetNode
    BY <1>types
  <2>2. /\ TicksLeft(n)' = 0
        /\ \A m \in Nodes \ {n} : TicksLeft(m)' = TicksLeft(m)
    BY <1>0, <1>2, <2>1, ReleaseFrees DEF OpenerSeesOpen
  <2>3. /\ up /\ UNCHANGED <<now, up, winv, lockedAt>>
        /\ opener[q] = "stream" /\ opener' = [opener EXCEPT ![q] = "done"]
    BY <1>2 DEF OpenerSeesOpen, OpenerAt, OpenerGoto, ReleaseNode
  <2>4. \A m \in Nodes : Admitted(m)' = Admitted(m)
    BY <2>3 DEF Admitted, RequestsOf
  <2>5. /\ q \notin Opened(n)
        /\ \A m \in Nodes : Opened(m)' = IF m = n THEN Opened(m) \cup {q}
                                                  ELSE Opened(m)
    BY <1>types, <2>1, <2>3 DEF Opened, RequestsOf
  <2>6. Lease!Open(n, q)
    BY <2>1, <2>2, <2>3, <2>4, <2>5 DEF Lease!Open
  <2> QED
    BY <2>1, <2>6 DEF Lease!Next
<1>3. CASE SweepTable
  <2>1. \A m \in Nodes : TicksLeft(m)' = TicksLeft(m)
    BY <1>0, <1>3, SweepKeeps DEF SweepTable
  <2>2. UNCHANGED <<now, up, winv, opener, lockedAt>>
    BY <1>3 DEF SweepTable, Sweep, lpVars
  <2> QED
    BY <2>1, <2>2, LeaseUntouched
<1>4. CASE Stop
  <2>1. \A m \in Nodes : TicksLeft(m)' = 0
    BY <1>4 DEF Stop, ForgetTable, EmptyTable, TicksLeft
  <2>2. /\ up /\ up' = FALSE /\ UNCHANGED <<now, winv, lockedAt>>
        /\ \A r \in Reqs : (opener'[r] = "done") = (opener[r] = "done")
    BY <1>4 DEF Stop, ForgetTable, Active
  <2>3. \A m \in Nodes : Admitted(m)' = Admitted(m) /\ Opened(m)' = Opened(m)
    BY <2>2 DEF Admitted, Opened, RequestsOf
  <2> QED
    BY <2>1, <2>2, <2>3 DEF Lease!Next, Lease!End
<1>5. CASE Restart
  <2>1. /\ ~up /\ up' = TRUE
        /\ UNCHANGED <<now, pendingChans, winv, lockedAt, opener>>
    BY <1>5 DEF Restart, tableVars
  <2>2. \A m \in Nodes : /\ Admitted(m)' = Admitted(m) /\ Opened(m)' = Opened(m)
                         /\ TicksLeft(m)' = TicksLeft(m)
    BY <2>1 DEF Admitted, Opened, RequestsOf, TicksLeft
  <2> QED
    BY <2>1, <2>2 DEF Lease!Next, Lease!Begin
<1>6. CASE TimePasses
  <2>1. /\ now' = now + 1 /\ UNCHANGED <<up, winv, lockedAt, opener>>
        /\ \A m \in Nodes : TicksLeft(m)' = IF TicksLeft(m) = 0 THEN 0
                                                              ELSE TicksLeft(m) - 1
    BY <1>0, <1>6, TickElapses DEF TimePasses, Tick, lpVars
  <2>2. \A m \in Nodes : Admitted(m)' = Admitted(m) /\ Opened(m)' = Opened(m)
    BY <2>1 DEF Admitted, Opened, RequestsOf
  <2> QED
    BY <2>1, <2>2 DEF Lease!Next, Lease!Elapse
<1>7. ASSUME UNCHANGED tableVars, UNCHANGED <<up, winv, lockedAt>>,
             \A r \in Reqs : (opener'[r] = "done") = (opener[r] = "done")
      PROVE  UNCHANGED LeaseMap
  <2>1. UNCHANGED now /\ \A m \in Nodes : TicksLeft(m)' = TicksLeft(m)
    BY <1>7 DEF tableVars, TicksLeft
  <2> QED
    BY <1>7, <2>1, LeaseUntouched
<1>8. CASE Subscribe \/ StreamBreaks \/ UNCHANGED vars
  BY <1>7, <1>8 DEF Subscribe, StreamBreaks, vars, lpVars
<1>9. ASSUME NEW q \in Reqs,
             \/ Submit(q) \/ CheckPolicy(q) \/ CheckCapacity(q)
             \/ AddInvoice(q) \/ CreateFile(q) \/ WriteAndReply(q)
             \/ OpenerStep(q) \/ OpenerStreamEnds(q)
             \/ ClientPays(q) \/ NodeActs(q)
             \/ HandleCanceled(q) \/ HandleSettled(q) \/ IgnoreSettled(q)
      PROVE  UNCHANGED LeaseMap
  BY <1>7, <1>9, TableUntouched, NobodyLetIn
<1> QED
  BY <1>1, <1>2, <1>3, <1>4, <1>5, <1>6, <1>8, <1>9
     DEF Next, Handler, Opener, Listener

\* A request that is let in keeps every other of its node out until its lease
\* has run out tick by tick, a channel to the node opened, or the process ended.
THEOREM ServerImplementsLease == Spec => ImplementsLease
<1>1. LPInit => Lease!Init
  BY DEF LPInit, TableInit, EmptyTable, Lease!Init, TicksLeft, Admitted, Opened,
         RequestsOf
<1>2. LPTypeOK /\ IInv /\ [Next]_vars => [Lease!Next]_LeaseMap
  BY ServerStepIsLeaseStep
<1> QED
  BY <1>1, <1>2, LPTypeCorrect, InvCorrect, PTL
     DEF Spec, ImplementsLease, Lease!Spec, LeaseMap

-----------------------------------------------------------------------------
(* The server implements ChannelSale.                                      *)

SaleMap == [q \in Reqs |-> SaleState(q)]

\* A request whose invoice, goroutine and calls are as before is where it was.
LEMMA SaleUntouched ==
    ASSUME NEW r \in Reqs, opens'[r] = opens[r], opener'[r] = opener[r],
           invoice'[r].state = invoice[r].state
    PROVE  SaleState(r)' = SaleState(r)
  BY DEF SaleState, Unserved

\* When only one request changes state, the sales make that move.
LEMMA SaleMoves ==
    ASSUME NEW q \in Reqs, NEW from, NEW to,
           SaleState(q) = from, SaleState(q)' = to,
           \A r \in Reqs \ {q} : SaleState(r)' = SaleState(r)
    PROVE  Sale!Move(q, from, to)
  BY DEF SaleMap, Sale!Move

\* Each step of the server moves one sale, abandons those a crash cut off, or
\* leaves the sales alone.
LEMMA ServerStepIsSaleStep ==
    ASSUME LPTypeOK, IInv, [Next]_vars
    PROVE  [Sale!Next]_SaleMap
<1> USE DEF LPTypeOK, LNTypeOK, ServerTypeOK
<1> DEFINE Same(r) == /\ opens'[r] = opens[r] /\ opener'[r] = opener[r]
                      /\ invoice'[r].state = invoice[r].state
<1>same. ASSUME \A r \in Reqs : Same(r)
      PROVE  UNCHANGED SaleMap
  BY <1>same, SaleUntouched DEF SaleMap
<1>moves. ASSUME NEW q \in Reqs, \A r \in Reqs \ {q} : Same(r)
         PROVE  Sale!Move(q, SaleState(q), SaleState(q)')
  BY <1>moves, SaleUntouched, SaleMoves
<1>1. ASSUME NEW q \in Reqs, AddInvoice(q)
      PROVE  [Sale!Next]_SaleMap
  <2>1. CASE LNAddInvoice(q, AmountForNewChan(winv[q].ChannelSize), now)
    <3>1. /\ invoice[q].state = "none" /\ invoice'[q].state = "open"
          /\ \A r \in Reqs \ {q} : Same(r)
          /\ UNCHANGED <<opens, opener>>
      BY <1>1, <2>1 DEF AddInvoice, LNAddInvoice
    <3>2. opens[q] = 0 /\ opener[q] = "none"
      BY <3>1 DEF IInv, RequestInv, PaymentInv, OpenerInv
    <3>3. SaleState(q) = "none" /\ SaleState(q)' = "offered"
      BY <3>1, <3>2 DEF SaleState, Unserved
    <3> QED
      BY <1>moves, <3>1, <3>3 DEF Sale!Next, Sale!Offer
  <2>2. CASE UNCHANGED lnVars
    BY <1>same, <1>1, <2>2 DEF AddInvoice, lnVars
  <2> QED
    BY <1>1, <2>1, <2>2 DEF AddInvoice
<1>2. ASSUME NEW q \in Reqs, HandleSettled(q)
      PROVE  [Sale!Next]_SaleMap
  <2>1. /\ invoice[q].state = "settled" /\ opener'[q] = "check"
        /\ \A r \in Reqs \ {q} : Same(r)
        /\ UNCHANGED <<opens, invoice>> /\ db[q] = "whole"
    BY <1>2 DEF HandleSettled, ReadUpdate, Recorded
  <2>2. opens[q] = 0 /\ opener[q] = "none"
    BY <2>1 DEF IInv, RequestInv, PaymentInv, OpenerInv
  <2>3. SaleState(q) = "paid" /\ SaleState(q)' = "serving"
    BY <2>1, <2>2 DEF SaleState, Unserved
  <2> QED
    BY <1>moves, <2>1, <2>3 DEF Sale!Next, Sale!TakeUp
<1>3. ASSUME NEW q \in Reqs, OpenerChecks(q) \/ OpenerFails(q)
      PROVE  [Sale!Next]_SaleMap
  <2>1. /\ opener[q] \in {"check", "try"}
        /\ opener'[q] \in {"try", "delay", "refused", "gaveup"}
        /\ \A r \in Reqs \ {q} : Same(r)
        /\ UNCHANGED <<opens, invoice>>
    BY <1>3 DEF OpenerChecks, OpenerFails, OpenerAt, OpenerGoto, lnVars
  <2>2. opens[q] = 0
    BY <2>1 DEF IInv, RequestInv, OpenerInv
  <2>3. SaleState(q) = "serving"
    BY <2>1, <2>2 DEF SaleState, Unserved
  <2>4. CASE opener'[q] \in {"try", "delay"}
    <3>1. SaleState(q)' = "serving"
      BY <2>1, <2>2, <2>4 DEF SaleState, Unserved
    <3> QED
      BY <2>1, <2>3, <3>1, SaleUntouched DEF SaleMap
  <2>5. CASE opener'[q] \in {"refused", "gaveup"}
    <3>1. SaleState(q)' = "abandoned"
      BY <2>1, <2>2, <2>5 DEF SaleState, Unserved
    <3>2. Sale!Abandon({q})
      BY <2>1, <2>3, <3>1, SaleUntouched DEF Sale!Abandon, SaleMap
    <3> QED
      BY <3>2 DEF Sale!Next
  <2> QED
    BY <2>1, <2>4, <2>5
<1>4. ASSUME NEW q \in Reqs, OpenerCalls(q)
      PROVE  [Sale!Next]_SaleMap
  <2>1. /\ opener[q] = "try" /\ opens'[q] = opens[q] + 1
        /\ \A r \in Reqs \ {q} : Same(r)
    BY <1>4 DEF OpenerCalls, OpenerAt, OpenerGoto, LNOpenChannel
  <2>2. opens[q] = 0
    BY <2>1 DEF IInv, RequestInv, OpenerInv
  <2>3. SaleState(q) = "serving" /\ SaleState(q)' = "delivered"
    BY <2>1, <2>2 DEF SaleState, Unserved
  <2> QED
    BY <1>moves, <2>1, <2>3 DEF Sale!Next, Sale!Deliver
<1>5. ASSUME NEW q \in Reqs,
             OpenerRetries(q) \/ OpenerSeesOpen(q) \/ OpenerStreamEnds(q)
      PROVE  [Sale!Next]_SaleMap
  <2>1. /\ \/ opener[q] = "delay" /\ opener'[q] = "try"
           \/ opener[q] = "stream"
        /\ \A r \in Reqs \ {q} : Same(r)
        /\ UNCHANGED <<opens, invoice>>
    BY <1>5 DEF OpenerRetries, OpenerSeesOpen, OpenerStreamEnds, OpenerAt,
                OpenerGoto, lnVars
  <2>2. opener[q] = "stream" => opens[q] = 1
    BY DEF IInv, RequestInv, OpenerInv
  <2>3. SaleState(q)' = SaleState(q)
    BY <2>1, <2>2 DEF SaleState, Unserved
  <2> QED
    BY <2>1, <2>3, SaleUntouched DEF SaleMap
<1>6. ASSUME NEW q \in Reqs,
             ClientPays(q) \/ NodeActs(q), LNSettle(q, now) \/ LNCancel(q, now)
      PROVE  [Sale!Next]_SaleMap
  <2>1. /\ invoice[q].state = "open" /\ invoice'[q].state \in {"settled", "canceled"}
        /\ \A r \in Reqs \ {q} : Same(r)
        /\ UNCHANGED <<opens, opener>>
    BY <1>6 DEF ClientPays, NodeActs, LNSettle, LNCancel, Payable, lpVars
  <2>2. opens[q] = 0 /\ opener[q] = "none"
    BY <2>1 DEF IInv, RequestInv, PaymentInv, OpenerInv
  <2>3. SaleState(q) = "offered" /\ SaleState(q)' \in {"paid", "void"}
    BY <2>1, <2>2 DEF SaleState, Unserved
  <2> QED
    BY <1>moves, <2>1, <2>3 DEF Sale!Next, Sale!Pay, Sale!Withdraw
<1>7. ASSUME NEW q \in Reqs, NodeActs(q), ~LNCancel(q, now)
      PROVE  [Sale!Next]_SaleMap
  BY <1>same, <1>7 DEF NodeActs, LNDuplicate, LNConfirm, LNClose, lpVars
<1>8. ASSUME NEW q \in Reqs,
             \/ Submit(q) \/ CheckPolicy(q) \/ CheckCapacity(q) \/ LockNode(q)
             \/ CreateFile(q) \/ WriteAndReply(q)
             \/ HandleCanceled(q) \/ IgnoreSettled(q)
      PROVE  [Sale!Next]_SaleMap
  BY <1>same, <1>8
     DEF Submit, CheckPolicy, CheckCapacity, LockNode, CreateFile, WriteAndReply,
         HandleCanceled, IgnoreSettled, ReadUpdate, lnVars, lpVars
<1>9. CASE Stop
  <2>1. \A r \in Reqs : /\ opens'[r] = opens[r] /\ invoice'[r] = invoice[r]
                        /\ opener'[r] = IF opener[r] \in Active THEN "killed"
                                                                ELSE opener[r]
    BY <1>9 DEF Stop
  <2>2. \A r \in Reqs : SaleState(r)' = IF SaleState(r) = "serving" THEN "abandoned"
                                                                   ELSE SaleState(r)
    BY <2>1 DEF SaleState, Unserved, Active, IInv, RequestInv, OpenerInv
  <2>3. Sale!Abandon({r \in Reqs : SaleState(r) = "serving"})
    BY <2>2 DEF Sale!Abandon, SaleMap
  <2> QED
    BY <2>3 DEF Sale!Next
<1>10. CASE \/ Subscribe \/ SweepTable \/ Restart \/ StreamBreaks \/ TimePasses
            \/ UNCHANGED vars
  BY <1>same, <1>10 DEF Subscribe, SweepTable, Restart, StreamBreaks, TimePasses,
                     LNSubscribe, LNDrop, vars, lnVars, lpVars
<1>11. ASSUME NEW q \in Reqs, Handler(q)
       PROVE  [Sale!Next]_SaleMap
  BY <1>1, <1>8, <1>11 DEF Handler
<1>12. ASSUME NEW q \in Reqs, Opener(q)
       PROVE  [Sale!Next]_SaleMap
  BY <1>3, <1>4, <1>5, <1>12 DEF Opener, OpenerStep
<1>13. ASSUME NEW q \in Reqs, ClientPays(q) \/ NodeActs(q)
       PROVE  [Sale!Next]_SaleMap
  <2>1. CASE ClientPays(q)
    BY <1>6, <2>1 DEF ClientPays
  <2>2. CASE NodeActs(q) /\ LNCancel(q, now)
    BY <1>6, <2>2
  <2>3. CASE NodeActs(q) /\ ~LNCancel(q, now)
    BY <1>7, <2>3
  <2> QED
    BY <1>13, <2>1, <2>2, <2>3
<1>14. CASE Listener
  BY <1>2, <1>8, <1>10, <1>14 DEF Listener
<1> QED
  BY <1>9, <1>10, <1>11, <1>12, <1>13, <1>14 DEF Next

\* Whatever stops, breaks or repeats, each sale goes forward as ChannelSale
\* allows: taken up once when paid, then delivered or abandoned for good.
THEOREM ServerImplementsSale == Spec => ImplementsSale
<1>1. LPInit => Sale!Init
  BY DEF LPInit, LNInit, NoInvoice, Sale!Init, SaleState, Unserved
<1>2. LPTypeOK /\ IInv /\ [Next]_vars => [Sale!Next]_SaleMap
  BY ServerStepIsSaleStep
<1> QED
  BY <1>1, <1>2, LPTypeCorrect, InvCorrect, PTL
     DEF Spec, ImplementsSale, Sale!Spec, SaleMap
=============================================================================
