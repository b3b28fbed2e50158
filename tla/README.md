# A TLA+ development of dcrlnlpd

dcrlnlpd sells inbound Lightning channels: a client asks for an invoice, pays
it, and the provider's dcrlnd node opens a channel back to the client. When the
wallet runs low, the provider closes the channels that are used least. The
modules here model the program in `src/`, TLC checks them on small instances,
and TLAPS proves their safety properties and refinements for all values of the
constants.

Contents: [inventory](#inventory) · [modules](#modules) ·
[runs](#runs) · [bounds](#bounds) · [fairness](#fairness) ·
[proofs](#proofs) · [disagreements](#where-the-documents-and-the-code-disagree) ·
[not modelled](#not-modelled) · [plan](#plan)

## Inventory

| part | code | state | operations |
|---|---|---|---|
| HTTP API | `server/api-v1.go`, `lprpcV1Call` of the client | none | `handleInvoice`, `handlePolicy` |
| sale of a channel | `server/server.go` `CreateInvoice`, `listenToInvoices`, `openChannel` | one goroutine per HTTP request, one listener, one goroutine per paid invoice | three checks against the node, the lock, `AddInvoice`, the record, the reply; an update read and acted on; up to three attempts to open |
| table of pending requests | `Server.pendingChans` | node → time of its request, under a mutex | `hasPendingCreateChanReqs`, the delete in `openChannel`, the cleanup in `Run` |
| records | `server/db.go` | one file for each unpaid invoice | `writeJsonFile`, `readJsonFile`, `removeFile` |
| queries of the node | `server/dcrlnd.go` | none | `isConnectedToNode`, `hasMaxPendingChannels`, `hasUnspentForNewChannel` |
| channel management | `runManageChannels`, `FetchManagedChannels`, `manageChannels`, `closeChannel`, `server/chanscore.go` | what a round has read; one goroutine per channel being closed | four reads, the choice, the closing calls |
| client library | `client/lpdclient.go` | one request and one goroutine that watches for its channel | `RequestChannel`, `watchForChannel` |
| dcrlnd (external) | used through `lnrpc` | invoices, an update stream, channels, wallet, height | as the server and the client call it |
| process | `main.go`, `signal.go`, `Server.Run` | a context, a held signal, the goroutines of an errgroup, the requests being answered | start, signal, request for shutdown, failure of a service, graceful and late end |
| configuration | `config.go`, `dcrlnpd.conf` | the options in force; the directory of the process | two passes over the command line, the file between them, the checks, `serverConfig` |
| encodings, version, logging, CLI | `rpc/`, `util.go`, `internal/version`, `log.go`, `cmd/client` | none | conversions and printing |

How they interact. A client POSTs to the API; its handler calls
`CreateInvoice`, which asks dcrlnd about channels, peers, coins and pending
channels, enters the node in the table, adds an invoice and writes a record
named by the invoice's hash. The listener reads updates from dcrlnd: for a
settled invoice with a record it removes the record and starts `openChannel`,
which checks the policy again, calls dcrlnd up to three times and deletes the
table's entry when the channel opens. A cleanup goroutine empties the table of
stale entries. Independently, a management goroutine wakes up, reads wallet,
pending channels, open channels and height, and starts a goroutine for each
channel to close. The table is the only state goroutines share in memory; the
records and the node are what survive the process. `_main` starts all of this
once `loadConfig` has a configuration and `New` has found the node on the
expected network, and ends it when a signal comes, when the profiler fails or when
`Run` returns an error; goroutines that open channels end with the process.

What is hard in it:

* every check is a remote read, used later and by another goroutine;
* invoice updates are not replayed: one sent while nobody listens is gone, and
  one may be told more than once;
* a record and a table entry are the only things that keep a payment from being
  served twice or a node from being invoiced twice, and one of them does not
  survive a crash;
* the process may come back with another fee rate, other sizes or other ignored
  nodes than the ones outstanding invoices were made under;
* a round of management overlaps with the closings of the rounds before it;
* a shutdown may be asked for by a signal, by `Run` and by the profiler, in any
  order and more than once, through unbuffered channels;
* values come from defaults, a file and two passes over the command line, and
  some of what is derived from them is derived between the passes.

What makes each part correct: a request let in has an exclusive lease on its
node; a sale
moves from offer to payment to one attempt at a channel and never back, whatever
crashes; whoever is served has paid what the channel costs under the present
policy and is allowed one; a choice of channels to close takes the least active
ones, enough and no more; only managed channels are closed; a client pays what
it was shown, which is what the server asks, and is told when a channel opens;
the process runs on valid values, with a node of its own network, all of its
services or none, and a shutdown ends it. `PROJECT.json` lists the hazards
line by line, each with the properties that cover it.

## Modules

| module | models | state and actions |
|---|---|---|
| `RequestLease` | what the server promises a node it lets in (abstract) | ticks left of each node's lease, requests admitted, channels opened; `Grant`, `Open`, `End`, `Begin`, `Elapse` |
| `PendingChans` | `Server.pendingChans` | the table and the clock. `RegisterRequest`: `hasPendingCreateChanReqs`; `ReleaseNode`: the delete in `openChannel`; `Sweep`: one pass of `Run`'s cleanup; `ForgetTable`: `New` |
| `LightningNode` | dcrlnd as the server uses it (external) | invoices, the stream, channels |
| `ChannelSale` | what a sale promises (abstract) | none → offered → paid or void; paid → serving → delivered or abandoned |
| `LPServer` | the whole sale; extends `PendingChans` and `LightningNode` | `pc`: where each `CreateInvoice` is; `db`: its record (absent, torn, whole); `opener`, `attempt`: its `openChannel` goroutine; `cfg`, `up`: the running process |
| `ClosePolicy` | the pure part of `FetchManagedChannels`, `channelActivity` | operators only: the score order, `MarkNext` (one turn of the loop), `WillClose` |
| `ChannelManager` | the management goroutine and `closeChannel`, over `ClosePolicy` | `mgr`: the call it makes next; `seen`: what it read; `closers`: goroutines that have not called yet; the node's channels, wallet and height |
| `LPClient` | `RequestChannel` and `watchForChannel`, with a server that may do anything a server could | `pc`, `result`; `watcher`: the goroutine; `events`: its stream; the server's policy |
| `Purchase` | a client and its server: `LPClient` with `LPServer` for its environment, and the API between them | both states; a step is the client's, or the server's with what the client sees of it |
| `LPConfig` | `loadConfig`, `serverConfig` | `args`, `file`, `cwd`; `cfg`: the options in force. `PreParse`, `ReadFileAndArgs`, `Validate` |
| `Lifecycle` | `_main`, `shutdownListener`, `requestShutdown`, `Run`; extends `LPConfig` | `stage`: where `_main` is; `ctx`, `interrupt`, `asking`: the shutdown; `members`, `runErr`, `conn`: the errgroup; `serve`, `http`: the HTTP server |
| `MCLPServer`, `MCClosePolicy`, `MCLPClient`, `MCPurchase`, `MCLifecycle` | instances for TLC | |
| `PendingChansProofs`, `LPServerProofs`, `ClosePolicyProofs`, `MCClosePolicyProofs`, `ChannelManagerProofs`, `LPClientProofs`, `PurchaseProofs`, `LifecycleProofs` | theorems | |

`LPServer` composes: every step of it is a step of the table, of the node, or
leaves them alone, and `ServerImplementsTable` proves the first. A step is the
code between two waits. `CreateInvoice` waits for the answers of `ListChannels`,
`PendingChannels` and `AddInvoice` and for two file operations, so these are
seven actions and others may run between any two. The part under the mutex is
one action, and so is a turn of the listener's loop, with the removal of the
record and the `go` statement in it: a process that dies between them is the
same as one that dies right after.

`Purchase` composes a client with that server. The policy the client fetches is
the configuration the server runs with; its request is one of `LPServer`'s,
which starts when the client makes it and is paid when the client pays; a reply
may arrive after the process that sent it is gone, and any status but OK, or
silence, is an error to the client, as in `lprpcV1Call`. What the client sees of
a server's step is in `ClientSees`. That this is no more than the environment
`LPClient` assumes is the property `ImplementsClient`. A payment settles only
while the client's is under way, and for more than nothing: a node does not send
an empty payment.

`Lifecycle` is about the goroutines of the process and not about what they do;
`LPServer` is about what they do, and has one action, `Stop`, for every way a
process ends. `NoServiceDiesAlone` is what allows this: a process that is up has
all of its services. `_main` forgets what it was given once `New` has returned
(`NewServer` resets `args` and `file`): the code has only `cfg` from there.

An operator introduced with "A slip" is not part of any
specification: it is what a plausible mistake would make of the action it
precedes, and serves to show that a property notices it.

What is abstracted. A node, a request and a channel are model values; a request
stands for its invoice, its record (whose name is the invoice's hash) and its
channel. Fee rates are multiples of `1/RateScale` and amounts are small naturals,
so `AmountForNewChan` truncates like the code's `uint64(float64 * rate)`
but does not round like a float. Peers, coins and failures of RPCs are choices of the
environment: wherever the code can refuse because of them, the model may.
Channels the peers open are among those reasons, so `ChannelsWith` counts the
channels sold. The clock counts ticks; the two `time.Now()` of
`hasPendingCreateChanReqs` fall into one. A set of options is a function on the
names given; a path is the sequence of its components, which is all
`cleanAndExpandPath`, `filepath.Abs` and `filepath.Join` look at; a macaroon's
path stands for the network of the node that takes it. `uint64` of an amount is
`%` of a `Word` that stands for 2^64.

## Runs

Passing runs:

| run | instance | shows |
|---|---|---|
| `one` | `MCLPServer_one.cfg` | one request, every fault: nothing is served twice, underpaid or against the policy now in force; what was paid is accounted for; `ChannelSale` is implemented; `IInv` holds |
| `two` | `MCLPServer_two.cfg` | two requests of one node interleaved: whoever can pay has a record; a request let in holds a lease on its node that ends early only with a channel to it or with the process, and its entry outlives the invoice made along with it; stale entries are collected; a payment the listener is told of is served to the end |
| `policy` | `MCClosePolicy.cfg` | the choice closes the least active channels, enough and no more |
| `manager` | `ChannelManager.cfg` | no stale decision closes an ignored or young channel; no panic with two confirmations; a shortage is managed although rounds fail |
| `purchase` | `MCPurchase.cfg` | client and server together: the client pays what it was shown and the server takes that for enough, its payment has a record, success is a channel delivered, the wait ends when a channel opens; the server is the environment `LPClient` allows for |
| `process` | `MCLifecycle.cfg` | from command line to exit, again and again: valid values, one network, no service gone alone, a shutdown or fatal error ends the process, and a clean exit has waited for what it says it waits for |

The other six runs each refute one sentence of the documents; see
[below](#where-the-documents-and-the-code-disagree).

`CHECK_DEADLOCK FALSE` is set for `MCClosePolicy`, which builds a list and ends,
and for the two instances with a client (`MCPurchase`, `MCLPClient_success`),
whose request returns or waits for a channel that may never open. Elsewhere a
state without a successor would be reported.

## Bounds

* `one`: sizes below, at and above the limits, four configurations (a dearer
  one, a narrower one, one that ignores the node), overpayment by one, one lost
  stream, two repeated updates, two ends of the process. Three instants pass an
  invoice's expiry and a lease.
* `two`: two requests of one node, one crash, one lost stream, under a maximum
  of two channels, so that they compete for the table and not for the cap. Three
  instants and a lease of two ticks: an entry is written, becomes stale at the
  tick its invoice expires, and is collected or replaced. Entries of different
  nodes do not meet in the code; that the lease holds for any number of nodes is
  proved.
* `policy`: all sets of up to three channels with two capacities, three local
  balances, three amounts sent, lifetimes below and above the minimum and below
  and above an hour, four balances around the minimum; every order of equal
  scores. Three channels are enough for one to be skipped, one closed and one
  spared.
* `manager`: a managed and an ignored channel, four blocks, a wallet that may
  fall below the minimum, up to two goroutines for a channel (rounds may overlap).
* `purchase`: a client that asks for three units under four configurations: a
  cheap one, a dearer one, one whose price rounds to nothing, and one that refuses the
  size. A rate is a number of quarters, so prices are truncated. Two
  ends of the process, so that a policy can go and come back between the
  client's steps, and with each end the update stream is lost; one channel of
  another peer.
* `process`: seven command lines (nothing, help, one that does not parse, two
  networks, values at a limit, a relative directory) with seven files (nothing, none, one
  that does not parse, a network, values the command line replaces or not, a tilde, a
  negative size), two working directories, nodes of three networks, two
  listeners and one HTTP request. A second is two ticks, so that a duration may
  fall between seconds. Nothing is bounded: the process may be started again for ever.

`MaxTime`, `MaxStops`, `MaxDrops`, `MaxDuplicates`, `MaxOverpay`, `MaxHeight`,
`MaxClosers`, `MaxChannels` and `MaxOthers` are bounds of the models; every other
constant is the program's or the environment's.

## Fairness

* `LPServer!FairSpec`: the listener's goroutine and those of `openChannel` are
  scheduled, their RPCs return or fail and the retry's delay ends, so
  `Listener` and `OpenerStep` are weakly fair; `Run`'s cleanup wakes every
  minute, so `SweepTable` is. Nothing is asked of clients, of
  the node's confirmations or of the stream; the property `PaidIsServed` ends
  when the process or the stream does.
* `ChannelManager!FairSpec`: the interval ends (`ReadWallet` weakly fair). A
  call may fail each time it is made but not for ever (`ReadLimbo`,
  `ReadChannels`, `Decide` strongly fair). The goroutines that close run.
* `Purchase!FairPurchaseSpec`: the client's two goroutines run; a stream need
  not break, and server, payment and peers owe nothing.
* `Lifecycle!FairSpec`: `_main`, the goroutine of `shutdownListener`, `Run` and
  the goroutines of its group take the steps they can take; their calls to the
  node carry the group's context, so they end when it is canceled. `Serve`
  returns once the server is shutting down, and the grace period ends. Nobody
  need send a signal, nothing need fail, and a client may never be done with its
  request, which is what the grace period is for.

## Proofs

TLAPS checks eight modules; the assumptions are those the modules state about
their constants, which TLC evaluates in the runs. In the configuration's terms:
`InvoiceExpiration` is at least one tick (`config.go` refuses less than a
second), the invoice's `Expiry` is no longer than it (it is that duration in
whole seconds), rates and sizes are naturals, what an operator gives
as an amount is an int64, and a node has finitely many channels.

* `TableTypeCorrect`; the lemmas after it say what each operation does to
  `TicksLeft`. An entry written at `t` leaves `t + InvoiceExpiration + 1 - now`
  ticks; `PendingWhileTicksLeft` is the comparison at its boundary.
  `TableTypeOK` is needed because only an entry that is not from the future
  counts down by one a tick and starts with a full lease.
* `LPTypeCorrect`: by parts, the table's part through `ServerStepIsTableStep`.
* `InvCorrect`: the inductive invariant `IInv`. The safety properties are not
  inductive: that a served request has paid needs that only a replied invoice
  is settled (`HandlerInv`, `PaymentInv`); that a payment is served once needs
  that a started goroutine leaves no record behind (`PaymentInv`) and how often
  it can have called the node at each stage (`OpenerInv`); and `OpenerInv` says
  `PaidInFull` and `WithinPolicy` only while the process that compared them
  still runs, since `Restart` may change the configuration. The proof takes the
  21 kinds of step one at a time; `Untouched` covers every request but the one
  that moves.
* `OneChannelPerPaymentHolds`, `ServedIsPaidInFullHolds`,
  `ServedWithinPolicyHolds`, `PayableIsRecordedHolds`, `PaidIsAccountedHolds`
  follow from it.
* `EntryOutlivesInvoiceHolds`: an action property, from the types and from
  `ExpiryAssumption` (the invoice's expiry is no longer than the entry's): one step
  for each operation of the table.
* `ServerImplementsLease`: by the mapping `TicksLeft` of the entries, `Admitted`
  of the requests that were let in and `Opened` of the goroutines that saw their
  channel open. The lease ends early only in `Open` and `End`, which must
  show in `Opened` and `up`. `IInv` is needed: a goroutine that is done is not
  started again, so that `Opened` only grows.
* `ServerImplementsSale`: by the mapping `SaleState`; each step moves one sale,
  a crash abandons the ones being served, every other step stutters.
* `RequestMoves` (a lemma) says what any step does to one request: it makes,
  settles or cancels its invoice, or opens or closes its channel, or starts another
  process, and never two of these. `BoughtInv`, on top of it: an invoice that was made
  has the price some configuration asks, nothing was paid for it unless it is settled,
  and there is a channel only after the one call of its goroutine. Both are
  what a client has of the server.

* `ChoiceIsRight`: for every finite set of channels and every order of equal
  scores, `WillClose` is `LowestFirst`, `Enough` and `NoMore`. `WillCloseLoops` turns
  the fold into what is marked after each turn; `LoopInv` says of `i` turns that
  no old channel was spared before one that was marked, that one was spared only
  once nothing more was needed, and that without the last one marked something would be.
  `OrderSorts` takes neighbours in order to any two, which needs that cross products
  of scores are transitive (`LessActiveOrders`) and so positive divisors. Nothing is
  needed of the sum except that it is a number (`LocalSumType`).
* `ClosesLowestFirstHolds`, `ClosesEnoughHolds`, `ClosesNoMoreHolds`: the same in
  every state of `MCClosePolicy`.
* `ManagerTypeCorrect`, `OnlyManagedAreClosedHolds`: from `ManagerInv`. A round's
  list has the funding the node has (`SeenInv`), and funding is not undone
  (`ChannelInv`), so what `ChoiceIsRight` says of the ages a round computed is true of
  the channels, and stays true while a goroutine waits (`CloserInv`): they only get
  older, and no channel becomes an ignored one.
* `NeverPanicsHolds`: by `ConfirmedInv`, that an open channel has its
  confirmations, that what a round has read was open when it was read, and that
  the height only grows until it is read too.
* `ClientTypeCorrect`, `PaysWhatWasShownHolds`, `WaitIsAnswerableHolds`,
  `SuccessIsPaidForHolds`: from `ClientInv`. `CheckedInv` ties the policy that was
  fetched, the invoice and the goroutine together: once there is a goroutine,
  neither is changed again, though the server's policy is. `ToldInv` says that what
  is on the goroutine's stream has happened, which success needs because it is
  reported some steps after the event was read.
* `PurchaseRunsServer`: a purchase is a run of `LPServer`, so `LPServerProofs`,
  instantiated, holds of its server (`ServerInv`). `SameServer` and the lemmas before it
  say that the two instances of `LPServer` at hand, the one that `Purchase` is made of and
  the one its theorems are about, have the same steps.
* `PurchaseImplementsClient`: and it is a run of `LPClient`. `JoinInv` is where the
  two meet: the client sees the policy, the payment and the channel as the server
  and its node have them; an invoice it holds is the one its server replied with; and
  what is settled was paid for with more than nothing. With `RequestMoves`, a server's
  step is one of `LPClient`'s environment: `ServerRestarts`, `PaymentSettles`,
  `ServerOpens`, or nothing the client sees. That the client may take the server's
  invoice is `InvoiceIsAnEstimate`.
* `PayingIsRecordedHolds`, `FairDealHolds`, `SuccessIsDeliveryHolds`: each needs both
  sides: the client's `ClientInv` for what it knows when it pays or succeeds, the server's
  `IInv` and `BoughtInv` for what that means, and `JoinInv` between them.
* `ClientKeepsPromises`, `ServerKeepsPromises`: what was proved of each holds of
  both together.
* `LifecycleTypeCorrect`, `NoServiceDiesAloneHolds`, `CleanExitHolds`,
  `CutOnlyLateHolds`: from `LifecycleInv`. What a process is judged by at its exit
  was settled before: `Run` asks for a shutdown or is done only after its group
  (`RunInv`), nothing is shut down without a canceled context (`ShutdownInv`), and
  a process that ends in `loadConfig` never started any of it (`StartUpInv`).
* `RunsOnValidConfigHolds`, `CommandLineWinsHolds`, `NetworksAgreeHolds`: from
  `ConfigInv`: options stay typed under `Over`, which is how one parser's result
  goes over another's; until `Validate` is passed they are `Merged`, and after it
  they are `ValidOptions`. The last one joins it with `RunInv`.

These hold for any number of nodes, requests, configurations, crashes,
repetitions, losses, channels, policies, options and listeners. A fact about all
turns of a fold is an induction over data, and the library's induction theorems are
of no use to the provers; `LeastNatural`, a set of naturals has a least element,
takes their place: there is no first turn that breaks the invariant, and no smallest
set without a sum.

Only model-checked is liveness (`StaleIsCollected`, `PaidIsServed`,
`ShortageIsManaged`, `OpeningIsHeard`, `ShutdownEnds`, `FatalErrorEnds`), which needs
fairness and ENABLED. The documents' sentences below are refuted by TLC's
counterexamples.

## Where the documents and the code disagree

| run | the sentence | what happens |
|---|---|---|
| `chancap` | `dcrlnpd.conf:73`, "Maximum number of channels opened to the same node" | only open channels are counted, so a second one is opened while the first is pending |
| `onepending` | `server.go:80-81`, `pendingChans` "tracks nodes for which there's already a pending request" | an old request's channel deletes the entry of a newer request |
| `trigger` | `server.go:201-202`, "an invoice that, once paid, will trigger the underlying node to open a channel" | not if it is paid between two subscriptions or while the server is down |
| `panic` | `chanscore.go:28`, "lifetime cannot be <= 0" | it is, for a channel open with one confirmation |
| `success` | `lpdclient.go:331`, "Wait for channel to be opened" | any channel that opens ends the wait |
| `rootdir` | `dcrlnpd.conf:15-16`, "Location where files are stored" | `AppData` is used as it was given: without it, or with a relative one, the records' directory is relative to the working directory, and a tilde in the file is a directory of that name |

Each of them is what the code does, read line by line; `PROJECT.json` names the
lines. More are plain from one reading and have no run:

* `README.md:36-46` describes a policy that closes every channel nothing much was
  sent through; the code closes channels only while coins are short, as
  `dcrlnpd.conf:95-105` says.
* "pending to be reclaimed in already closed channels" (`server.go:520-521`)
  leaves out the channels being closed with the peer's help, so a round may close
  one more than the coins on their way make necessary.
* "Max number of channels the underlying dcrlnd instance can have as pending"
  (`server.go:49-50`) is checked when an invoice is made (`server.go:217`) and
  not when it is paid.
* "Wait for all goroutines to finish" (`main.go:137`) leaves out the goroutines of
  `openChannel`: a channel that was paid for may be lost at a graceful shutdown.
* `main.go:133` compares the error of `Shutdown` with `Canceled`, but it is
  `DeadlineExceeded`: nothing says that requests were cut off.
* `config.go:594` lets a negative `maxchansize` pass, and `uint64` makes it no
  limit; `RunsOnValidConfig` excepts it.

## Not modelled

* The answers of `isConnectedToNode` and `hasUnspentForNewChannel` are choices
  of the environment: wherever they may refuse, the model may.
* Options for logs, TLS files and addresses are only able to fail. The creation
  of the default configuration file and of directories, too.
* What the HTTP status of an error is: no caller tells one from another.
* Loss of written file data in a power failure (`writeJsonFile` does not sync).
* Rounding of floating-point fees and scores, and amounts near 2^63. Option values
  are integers, so `RunsOnValidConfig` says nothing of a fee rate that is not a
  number: `nan` passes the comparison of `config.go:601`.
* How long `AddInvoice` takes: the invoice's expiry counts from within it, the
  entry's from before. An invoice made late outlives its node's entry, so
  `EntryOutlivesInvoice` speaks of those made in the tick of the entry.
* TLS, JSON and hexadecimal conversions, logging, versions, the command-line
  client: no state, no interleaving.

## Plan

Done: the sale (`RequestLease`, `PendingChans`, `LightningNode`, `ChannelSale`,
`LPServer`), the management of channels (`ClosePolicy`, `ChannelManager`), the client
(`LPClient`) and its composition with the server (`Purchase`), the process and its
configuration (`LPConfig`, `Lifecycle`); and the proofs of every safety property and
refinement the runs check.

Left:

1. `LPServer`'s `Stop` as what `Lifecycle` does to its services, by a refinement
   instead of by `NoServiceDiesAlone` and a sentence.
2. The hazards no property covers (their notes in `PROJECT.json` say why), the
   overlap of a round of management with the closings of the one before it first.
