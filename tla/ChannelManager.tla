--------------------------- MODULE ChannelManager ---------------------------
(***************************************************************************)
(* The management of open channels: runManageChannels wakes up, reads the  *)
(* wallet, the pending channels, the open channels and the height in four  *)
(* calls to the node, decides, and starts a closeChannel goroutine for     *)
(* each channel to close, while the node, the chain and the channels' other *)
(* ends go on.                                                             *)
(***************************************************************************)
EXTENDS ClosePolicy

CONSTANTS Chans,            \* the node's channels
          Ignored,          \* those isChannelIgnored leaves out: opened by the
                            \* peer, or configured to be ignored
          Capacity,         \* of every channel
          FundingConfs,     \* confirmations before a channel is open
          InitialWallet,
          MaxHeight,        \* bound on the chain
          MaxClosers        \* bound on closeChannel goroutines of one channel

ASSUME ManagerAssumption ==
    /\ IsFiniteSet(Chans) /\ Ignored \subseteq Chans
    /\ Capacity \in Nat \ {0} /\ FundingConfs \in Nat \ {0}
    /\ InitialWallet \in Nat /\ MaxHeight \in Nat \ {0} /\ MaxClosers \in Nat

VARIABLES height,    \* the node's block height
          wallet,    \* WalletBalance.TotalBalance, confirmed or not
          stage,     \* each channel: funding, open, closing (with the peer's
                     \* help), forced, or closed
          funded,    \* the height of each channel's funding transaction, or 0
          local,     \* each channel's local balance
          sent,      \* atoms sent through each channel
          mgr,       \* what the management goroutine reads next
          seen,      \* what it read so far
          closers    \* closeChannel goroutines before their CloseChannel call

nodeVars == <<height, wallet, stage, funded, local, sent>>
managerVars == <<mgr, seen, closers>>
vars == <<nodeVars, managerVars>>

Read(balance, limbo, list) ==
    [balance |-> balance, limbo |-> limbo, list |-> list]
NothingRead == Read(0, 0, {})

LocalOf(c) == local[c]
ChannelsIn(stages) == {c \in Chans : stage[c] \in stages}

Init ==
    /\ height = 1
    /\ wallet = InitialWallet
    /\ stage = [c \in Chans |-> "funding"]
    /\ funded = [c \in Chans |-> 0]
    /\ local = [c \in Chans |-> Capacity]
    /\ sent = [c \in Chans |-> 0]
    /\ mgr = "sleep"
    /\ seen = NothingRead
    /\ closers = [c \in Chans |-> 0]

-----------------------------------------------------------------------------
(* The node, the chain and the peers.                                      *)

\* A channel's funding transaction gets into the next block.
Mine(c) ==
    /\ stage[c] = "funding" /\ funded[c] = 0
    /\ funded' = [funded EXCEPT ![c] = height]
    /\ UNCHANGED <<height, wallet, stage, local, sent, managerVars>>

Block ==
    /\ height < MaxHeight
    /\ height' = height + 1
    /\ UNCHANGED <<wallet, stage, funded, local, sent, managerVars>>

Open(c) ==
    /\ stage[c] = "funding" /\ funded[c] > 0
    /\ height >= funded[c] + FundingConfs - 1
    /\ stage' = [stage EXCEPT ![c] = "open"]
    /\ UNCHANGED <<height, wallet, funded, local, sent, managerVars>>

\* A payment goes out through the channel.
Send(c) ==
    /\ stage[c] = "open" /\ local[c] > 0
    /\ local' = [local EXCEPT ![c] = @ - 1]
    /\ sent' = [sent EXCEPT ![c] = @ + 1]
    /\ UNCHANGED <<height, wallet, stage, funded, managerVars>>

\* The operator, or the opening of another channel, takes coins.
Spend ==
    /\ wallet > 0
    /\ wallet' = wallet - 1
    /\ UNCHANGED <<height, stage, funded, local, sent, managerVars>>

\* The closing transaction pays the wallet.
Reclaim(c) ==
    /\ stage[c] \in {"closing", "forced"}
    /\ stage' = [stage EXCEPT ![c] = "closed"]
    /\ wallet' = wallet + local[c]
    /\ UNCHANGED <<height, funded, local, sent, managerVars>>

-----------------------------------------------------------------------------
(* runManageChannels and FetchManagedChannels, one call to the node a step. *)

ReadWallet ==
    /\ mgr = "sleep"
    /\ mgr' = "limbo"
    /\ seen' = Read(wallet, 0, {})
    /\ UNCHANGED <<nodeVars, closers>>

\* Only channels closed by force count.
ReadLimbo ==
    /\ mgr = "limbo"
    /\ mgr' = "list"
    /\ seen' = [seen EXCEPT !.limbo =
                    MapThenSumSet(LocalOf, ChannelsIn({"forced"}))]
    /\ UNCHANGED <<nodeVars, closers>>

\* A slip: ignored channels are managed too.
ReadAllChannels ==
    /\ mgr = "list"
    /\ mgr' = "height"
    /\ seen' = [seen EXCEPT !.list =
           {[id |-> c, capacity |-> Capacity, local |-> local[c],
             sent |-> sent[c], since |-> funded[c]] : c \in ChannelsIn({"open"})}]
    /\ UNCHANGED <<nodeVars, closers>>

\* A slip: channels with no confirmation are listed too.
ReadUnconfirmed ==
    /\ mgr = "list"
    /\ mgr' = "height"
    /\ seen' = [seen EXCEPT !.list =
           {[id |-> c, capacity |-> Capacity, local |-> local[c],
             sent |-> sent[c], since |-> funded[c]] :
                c \in ChannelsIn({"funding", "open"}) \ Ignored}]
    /\ UNCHANGED <<nodeVars, closers>>

\* ListChannels, less what isChannelIgnored leaves out.
ReadChannels ==
    /\ mgr = "list"
    /\ mgr' = "height"
    /\ seen' = [seen EXCEPT !.list =
           {[id |-> c, capacity |-> Capacity, local |-> local[c],
             sent |-> sent[c], since |-> funded[c]] :
                c \in ChannelsIn({"open"}) \ Ignored}]
    /\ UNCHANGED <<nodeVars, closers>>

\* A slip: a block that is not over does not count.
AgedLess == {[id |-> c.id, capacity |-> c.capacity, local |-> c.local,
              sent |-> c.sent, lifetime |-> height - c.since - 1] : c \in seen.list}

\* The channels read, with their lifetime at the height just read.
Aged == {[id |-> c.id, capacity |-> c.capacity, local |-> c.local,
          sent |-> c.sent, lifetime |-> height - c.since] : c \in seen.list}

TotalBalance == seen.balance + seen.limbo

\* GetInfo, the scores, the choice, and a goroutine for each channel chosen.
\* A channel with no lifetime yet panics in channelActivity.
Decide ==
    /\ mgr = "height"
    /\ IF \A c \in Aged : HasScore(c)
       THEN \E order \in ByScore(Aged) :
              LET chosen == {c.id : c \in WillClose(order, TotalBalance)}
              IN  /\ \A c \in chosen : closers[c] < MaxClosers
                  /\ closers' = [c \in Chans |->
                                    closers[c] + IF c \in chosen THEN 1 ELSE 0]
                  /\ mgr' = "sleep"
       ELSE mgr' = "panicked" /\ UNCHANGED closers
    /\ seen' = NothingRead
    /\ UNCHANGED nodeVars

\* A slip: an error ends the loop.
ReadFailsForGood ==
    /\ mgr \in {"limbo", "list", "height"}
    /\ mgr' = "panicked"
    /\ seen' = NothingRead
    /\ UNCHANGED <<nodeVars, closers>>

\* Any of the four calls may fail; the error is logged until the next round.
ReadFails ==
    /\ mgr \in {"limbo", "list", "height"}
    /\ mgr' = "sleep"
    /\ seen' = NothingRead
    /\ UNCHANGED <<nodeVars, closers>>

-----------------------------------------------------------------------------

\* closeChannel's CloseChannel call: with the peer's help when it is connected,
\* by force otherwise.
CloseStarts(c) ==
    /\ closers[c] > 0
    /\ stage[c] = "open"
    /\ \E how \in {"closing", "forced"} : stage' = [stage EXCEPT ![c] = how]
    /\ closers' = [closers EXCEPT ![c] = @ - 1]
    /\ UNCHANGED <<height, wallet, funded, local, sent, mgr, seen>>

\* The call fails, as it does for a channel that is closing already.
CloseFails(c) ==
    /\ closers[c] > 0
    /\ closers' = [closers EXCEPT ![c] = @ - 1]
    /\ UNCHANGED <<nodeVars, mgr, seen>>

-----------------------------------------------------------------------------

Environment == \/ \E c \in Chans : Mine(c) \/ Open(c) \/ Send(c) \/ Reclaim(c)
               \/ Block \/ Spend

Manager == ReadWallet \/ ReadLimbo \/ ReadChannels \/ Decide \/ ReadFails

Closer(c) == CloseStarts(c) \/ CloseFails(c)

Next == Environment \/ Manager \/ \E c \in Chans : Closer(c)

Spec == Init /\ [][Next]_vars

\* The interval ends, and calls to the node do not fail for ever.
FairSpec ==
    /\ Spec
    /\ WF_vars(ReadWallet)
    /\ SF_vars(ReadLimbo) /\ SF_vars(ReadChannels) /\ SF_vars(Decide)
    /\ \A c \in Chans : WF_vars(Closer(c))

-----------------------------------------------------------------------------
(* Correctness.                                                            *)

\* The type invariant; a listed channel has its funding in a block.
TypeOK ==
    /\ height \in 1..MaxHeight
    /\ wallet \in Nat
    /\ stage \in [Chans -> {"funding", "open", "closing", "forced", "closed"}]
    /\ funded \in [Chans -> 0..MaxHeight]
    /\ local \in [Chans -> 0..Capacity]
    /\ sent \in [Chans -> 0..Capacity]
    /\ mgr \in {"sleep", "limbo", "list", "height", "panicked"}
    /\ seen.balance \in Nat /\ seen.limbo \in Nat
    /\ \A c \in seen.list : c.id \in Chans /\ c.since \in 1..height
    /\ closers \in [Chans -> 0..MaxClosers]

MinLifetimeReached(c) == height - funded[c] >= MinChanLifetime
Managed(c) == stage[c] = "open" /\ c \notin Ignored /\ MinLifetimeReached(c)

\* The server closes no channel the operator or the peer opened it to keep, nor
\* one younger than its minimum lifetime, however old the decision is by the
\* time its goroutine acts (isChannelIgnored, closeChannel).
OnlyManagedAreClosed ==
    [][\A c \in Chans :
          (stage[c] = "open" /\ stage'[c] /= "open") => Managed(c)]_vars

\* The height is read after the channels, so a channel with more than one
\* confirmation has a lifetime to divide by (FetchManagedChannels,
\* channelActivity).
NeverPanics == FundingConfs > 1 => mgr /= "panicked"

\* Coins in the wallet and on their way back to it.
Funds == wallet + MapThenSumSet(LocalOf, ChannelsIn({"closing", "forced"}))
InNeed == Funds < MinWalletBalance /\ \E c \in Chans : Managed(c)

\* As long as coins are short and a channel may be closed, a round of management
\* comes that sets about closing one, though rounds may fail
\* (runManageChannels).
ShortageIsManaged == InNeed ~> (~InNeed \/ \E c \in Chans : closers[c] > 0)

-----------------------------------------------------------------------------
(* What the documentation says, and the code does not keep.                *)

\* "Lifetime cannot be <= 0" (channelActivity's panic).
LifetimeIsPositive == mgr /= "panicked"
=============================================================================
