------------------------ MODULE ChannelManagerProofs ------------------------
(* What a round of management may do, however long ago it read what it goes *)
(* by: it closes only managed channels, and it divides by no lifetime of    *)
(* zero when the node asks for more than one confirmation.                  *)
EXTENDS ChannelManager, ClosePolicyProofs

\* Blocks only come, and the height is read last: a channel that is open has
\* its confirmations at every height the round may still read.
ConfirmedInv ==
    /\ height \in Nat
    /\ funded \in [Chans -> Nat]
    /\ stage \in [Chans -> {"funding", "open", "closing", "forced", "closed"}]
    /\ \A c \in Chans : stage[c] = "open" => height >= funded[c] + FundingConfs - 1
    /\ \A c \in seen.list : /\ c.capacity = Capacity /\ c.since \in Nat
                            /\ height >= c.since + FundingConfs - 1

PanicInv == ConfirmedInv /\ NeverPanics

\* No channel is open yet.
LEMMA PanicInit == Init => PanicInv
BY ManagerAssumption DEF Init, PanicInv, ConfirmedInv, NeverPanics, NothingRead, Read

\* Only blocks, openings and the reading of channels matter.
LEMMA PanicStep == PanicInv /\ [Next]_vars => PanicInv'
<1> SUFFICES ASSUME PanicInv, [Next]_vars
             PROVE  PanicInv'
  OBVIOUS
<1> USE ManagerAssumption DEF PanicInv, ConfirmedInv, NeverPanics, nodeVars,
                              managerVars
<1>1. ASSUME NEW c \in Chans, Mine(c)
      PROVE  PanicInv'
  BY <1>1 DEF Mine
<1>2. CASE Block
  BY <1>2 DEF Block
<1>3. ASSUME NEW c \in Chans, Open(c)
      PROVE  PanicInv'
  BY <1>3 DEF Open
<1>4. ASSUME NEW c \in Chans, Send(c) \/ Reclaim(c) \/ CloseStarts(c) \/ CloseFails(c)
      PROVE  PanicInv'
  BY <1>4 DEF Send, Reclaim, CloseStarts, CloseFails
<1>5. CASE Spend
  BY <1>5 DEF Spend
<1>6. CASE ReadWallet \/ ReadFails
  BY <1>6 DEF ReadWallet, ReadFails, Read, NothingRead
<1>7. CASE ReadLimbo
  BY <1>7 DEF ReadLimbo
<1>8. CASE ReadChannels
  BY <1>8 DEF ReadChannels, ChannelsIn
<1>9. CASE Decide
  <2>1. FundingConfs > 1 => \A c \in Aged : HasScore(c)
    BY DEF Aged, HasScore
  <2> QED
    BY <1>9, <2>1 DEF Decide, NothingRead, Read
<1>10. CASE UNCHANGED vars
  BY <1>10 DEF vars
<1> QED
  BY <1>1, <1>2, <1>3, <1>4, <1>5, <1>6, <1>7, <1>8, <1>9, <1>10
     DEF Next, Environment, Manager, Closer

\* The height is read after the channels, so no channel a round has read is
\* without a lifetime (FetchManagedChannels, channelActivity).
THEOREM NeverPanicsHolds == Spec => []NeverPanics
BY PanicInit, PanicStep, PTL DEF Spec, PanicInv

-----------------------------------------------------------------------------
(* Only managed channels are closed.                                       *)

\* A channel as ListChannels reports it.
Listed == [id : Chans, capacity : {Capacity}, local : 0..Capacity,
           sent : 0..Capacity, since : 1..MaxHeight]

\* What a round has read is what it reads: its list has a record for some
\* channels, each with the funding the channel still has.
SeenInv ==
    /\ seen \in [balance : Nat, limbo : Nat, list : SUBSET Listed]
    /\ IsFiniteSet(seen.list)
    /\ \A d \in seen.list : /\ d.id \notin Ignored
                            /\ d.since = funded[d.id] /\ d.since <= height

\* Coins move from one end of a channel to the other, and a channel past its
\* funding has it in a block.
ChannelInv ==
    \A c \in Chans : /\ local[c] + sent[c] = Capacity
                     /\ funded[c] <= height
                     /\ stage[c] /= "funding" => funded[c] > 0

\* A goroutine was started for a channel that may be closed, and its funding
\* only gets older.
CloserInv ==
    \A c \in Chans : closers[c] > 0 =>
        c \notin Ignored /\ funded[c] > 0 /\ MinLifetimeReached(c)

\* The inductive invariant.
ManagerInv == TypeOK /\ SeenInv /\ ChannelInv /\ CloserInv

\* Nothing was read and no goroutine started.
LEMMA ManagerInit == Init => ManagerInv
<1> SUFFICES ASSUME Init
             PROVE  ManagerInv
  OBVIOUS
<1>1. IsFiniteSet({})
  BY FS_EmptySet
<1>2. TypeOK
  BY ManagerAssumption DEF Init, TypeOK, NothingRead, Read
<1>3. SeenInv
  BY <1>1 DEF Init, SeenInv, NothingRead, Read
<1>4. ChannelInv /\ CloserInv
  BY ManagerAssumption DEF Init, ChannelInv, CloserInv
<1> QED
  BY <1>2, <1>3, <1>4 DEF ManagerInv

\* What the channels in some stages hold is a natural (LimboBalance).
LEMMA LimboType ==
    ASSUME TypeOK, NEW stages
    PROVE  MapThenSumSet(LocalOf, ChannelsIn(stages)) \in Nat
<1> DEFINE W == ChannelsIn(stages)
           Sums == CHOOSE g : IsSum(g, W, local)
<1>1. MapThenSumSet(LocalOf, W) = Sums[W]
  BY DEF MapThenSumSet, MapThenFoldSet, LocalOf, IsSum, SumLine
<1>2. IsFiniteSet(W)
  <2>1. W \in SUBSET Chans
    BY DEF ChannelsIn
  <2> QED
    BY <2>1, ManagerAssumption, FS_Subset
<1>3. \A c \in W : local[c] \in Nat
  BY ManagerAssumption DEF TypeOK, ChannelsIn
<1> HIDE DEF W
<1>4. IsSum(Sums, W, local)
  BY <1>2, SumExists
<1> HIDE DEF Sums
<1>5. Sums[W] \in Nat
  BY <1>2, <1>3, <1>4, SumType
<1> QED
  BY <1>1, <1>5 DEF W

\* The channels a round chooses are managed (FetchManagedChannels).
LEMMA ChosenAreManaged ==
    ASSUME ManagerInv, NEW order \in ByScore(Aged), \A c \in Aged : HasScore(c),
           NEW c \in WillClose(order, TotalBalance)
    PROVE  /\ c.id \in Chans /\ c.id \notin Ignored
           /\ funded[c.id] > 0 /\ MinLifetimeReached(c.id)
<1> DEFINE AgedOf(d) == [id |-> d.id, capacity |-> d.capacity, local |-> d.local,
                         sent |-> d.sent, lifetime |-> height - d.since]
           f == [d \in seen.list |-> AgedOf(d)]
<1>1. IsFiniteSet(Aged)
  <2>1. f \in Surjection(seen.list, Aged)
    BY DEF Aged, Surjection
  <2> HIDE DEF f
  <2> QED
    BY <2>1, FS_Surjection DEF ManagerInv, SeenInv
<1>2. ASSUME NEW d \in seen.list
      PROVE  Scored(AgedOf(d))
  <2>1. /\ d.capacity = Capacity /\ d.local \in Nat /\ d.sent \in Nat
        /\ d.since \in Nat /\ d.since <= height /\ height \in Nat
    BY ManagerAssumption DEF ManagerInv, SeenInv, Listed, TypeOK
  <2> QED
    BY <2>1, ManagerAssumption DEF Scored
<1>3. \A d \in Aged : Scored(d)
  BY <1>2 DEF Aged
<1>4. TotalBalance \in Int
  BY DEF ManagerInv, SeenInv, TotalBalance
<1>5. c \in Aged /\ HasMinLifetime(c)
  BY <1>1, <1>3, <1>4, ChoiceIsRight DEF Eligible
<1>6. PICK d \in seen.list : c = AgedOf(d)
  BY <1>5 DEF Aged
<1>7. /\ c.id = d.id /\ c.lifetime = height - funded[d.id] /\ d.id \in Chans
      /\ d.id \notin Ignored /\ funded[d.id] > 0
  BY <1>6 DEF ManagerInv, SeenInv, Listed
<1> QED
  BY <1>5, <1>7 DEF HasMinLifetime, MinLifetimeReached

\* The node's and the chain's own steps: a listed channel has its funding, and
\* a block only makes it older.
LEMMA NodeKeepsInv ==
    ASSUME ManagerInv, Environment
    PROVE  ManagerInv'
<1> USE ManagerAssumption DEF ManagerInv, TypeOK, SeenInv, ChannelInv, CloserInv,
                              nodeVars, managerVars, MinLifetimeReached
<1>1. ASSUME NEW c \in Chans, Mine(c)
      PROVE  ManagerInv'
  <2>1. \A d \in seen.list : d.id \in Chans /\ d.since > 0
    BY DEF Listed
  <2>2. funded' = [funded EXCEPT ![c] = height] /\ funded[c] = 0
    BY <1>1 DEF Mine
  <2>3. SeenInv'
    BY <1>1, <2>1, <2>2 DEF Mine
  <2> QED
    BY <1>1, <2>3 DEF Mine
<1>2. CASE Block
  <2>1. /\ height' = height + 1 /\ {height, height'} \subseteq 1..MaxHeight
        /\ UNCHANGED <<wallet, stage, funded, local, sent, mgr, seen, closers>>
    BY <1>2 DEF Block
  <2>2. SeenInv'
    BY <2>1 DEF Listed
  <2>3. ChannelInv'
    BY <2>1
  <2>4. CloserInv'
    BY <2>1, ClosePolicyAssumption
  <2>5. TypeOK'
    BY <2>1
  <2> QED
    BY <2>2, <2>3, <2>4, <2>5
<1>3. ASSUME NEW c \in Chans, Open(c)
      PROVE  ManagerInv'
  BY <1>3 DEF Open
<1>4. ASSUME NEW c \in Chans, Send(c)
      PROVE  ManagerInv'
  <2>1. /\ local' = [local EXCEPT ![c] = local[c] - 1]
        /\ sent' = [sent EXCEPT ![c] = sent[c] + 1]
        /\ UNCHANGED <<height, wallet, stage, funded, mgr, seen, closers>>
    BY <1>4 DEF Send
  <2>2. /\ local[c] \in 0..Capacity /\ sent[c] \in 0..Capacity
        /\ local[c] + sent[c] = Capacity /\ local[c] > 0
    BY <1>4 DEF Send
  <2>3. local[c] - 1 \in 0..Capacity /\ sent[c] + 1 \in 0..Capacity
    BY <2>2
  <2>4. ChannelInv'
    BY <2>1, <2>2
  <2> QED
    BY <2>1, <2>3, <2>4
<1>5. ASSUME NEW c \in Chans, Reclaim(c)
      PROVE  ManagerInv'
  BY <1>5 DEF Reclaim
<1>6. CASE Spend
  BY <1>6 DEF Spend
<1> QED
  BY <1>1, <1>2, <1>3, <1>4, <1>5, <1>6 DEF Environment

\* The goroutines that close: one fewer has not called yet.
LEMMA CloserKeepsInv ==
    ASSUME ManagerInv, NEW c \in Chans, Closer(c)
    PROVE  ManagerInv'
<1> USE ManagerAssumption DEF ManagerInv, TypeOK, SeenInv, ChannelInv, CloserInv,
                              nodeVars, managerVars, MinLifetimeReached
<1>1. CASE CloseStarts(c)
  BY <1>1 DEF CloseStarts
<1>2. CASE CloseFails(c)
  BY <1>2 DEF CloseFails
<1> QED
  BY <1>1, <1>2 DEF Closer

\* What is read is as the node has it when it is read.
LEMMA ListingIsSeen ==
    ASSUME ManagerInv, ReadChannels
    PROVE  SeenInv'
<1> DEFINE Ours == ChannelsIn({"open"}) \ Ignored
           RecordOf(c) == [id |-> c, capacity |-> Capacity, local |-> local[c],
                           sent |-> sent[c], since |-> funded[c]]
           f == [c \in Ours |-> RecordOf(c)]
           List == {RecordOf(c) : c \in Ours}
<1>1. IsFiniteSet(Ours)
  <2>1. Ours \in SUBSET Chans
    BY DEF ChannelsIn
  <2> QED
    BY <2>1, ManagerAssumption, FS_Subset
<1>2. IsFiniteSet(List)
  <2>1. f \in Surjection(Ours, List)
    BY DEF Surjection
  <2> HIDE DEF f, Ours, List
  <2> QED
    BY <1>1, <2>1, FS_Surjection
<1>3. \A c \in Ours : RecordOf(c) \in Listed
  BY ManagerAssumption DEF ChannelsIn, ManagerInv, TypeOK, ChannelInv, Listed
<1>4. \A d \in List : /\ d.id \notin Ignored
                      /\ d.since = funded[d.id] /\ d.since <= height
  BY ManagerAssumption DEF ChannelsIn, ManagerInv, ChannelInv
<1>5. seen' = [seen EXCEPT !.list = List] /\ UNCHANGED <<funded, height>>
  BY DEF ReadChannels, nodeVars
<1>6. List \in SUBSET Listed
  BY <1>3
<1> HIDE DEF List
<1> QED
  BY <1>2, <1>4, <1>5, <1>6 DEF SeenInv, ManagerInv

\* A round: it chooses managed channels only.
LEMMA ManagerKeepsInv ==
    ASSUME ManagerInv, Manager
    PROVE  ManagerInv'
<1> USE ManagerAssumption DEF ManagerInv, TypeOK, SeenInv, ChannelInv, CloserInv,
                              nodeVars, MinLifetimeReached
<1>0. IsFiniteSet({})
  BY FS_EmptySet
<1>1. CASE ReadWallet
  BY <1>0, <1>1 DEF ReadWallet, Read
<1>2. CASE ReadLimbo
  <2>1. MapThenSumSet(LocalOf, ChannelsIn({"forced"})) \in Nat
    BY LimboType
  <2> QED
    BY <1>2, <2>1 DEF ReadLimbo
<1>3. CASE ReadChannels
  <2>1. SeenInv'
    BY <1>3, ListingIsSeen
  <2>2. UNCHANGED <<nodeVars, closers>> /\ mgr' = "height"
    BY <1>3 DEF ReadChannels
  <2> QED
    BY <2>1, <2>2 DEF Listed
<1>4. CASE Decide
  <2>1. UNCHANGED nodeVars /\ seen' = NothingRead
    BY <1>4 DEF Decide
  <2>2. SeenInv'
    BY <1>0, <2>1 DEF NothingRead, Read
  <2>3. CASE mgr' = "panicked" /\ UNCHANGED closers
    BY <2>1, <2>2, <2>3 DEF NothingRead, Read
  <2>4. CASE /\ \A c \in Aged : HasScore(c)
             /\ \E order \in ByScore(Aged) :
                   LET chosen == {c.id : c \in WillClose(order, TotalBalance)}
                   IN  /\ \A c \in chosen : closers[c] < MaxClosers
                       /\ closers' = [c \in Chans |->
                                         closers[c] + IF c \in chosen THEN 1 ELSE 0]
                       /\ mgr' = "sleep"
    <3> PICK order \in ByScore(Aged) :
               LET chosen == {c.id : c \in WillClose(order, TotalBalance)}
               IN  /\ \A c \in chosen : closers[c] < MaxClosers
                   /\ closers' = [c \in Chans |->
                                     closers[c] + IF c \in chosen THEN 1 ELSE 0]
                   /\ mgr' = "sleep"
      BY <2>4
    <3> DEFINE chosen == {c.id : c \in WillClose(order, TotalBalance)}
    <3>1. \A c \in chosen : /\ c \in Chans /\ c \notin Ignored
                            /\ funded[c] > 0 /\ MinLifetimeReached(c)
      BY <2>4, ChosenAreManaged
    <3>2. /\ \A c \in chosen : closers[c] < MaxClosers
          /\ closers' = [c \in Chans |->
                            closers[c] + IF c \in chosen THEN 1 ELSE 0]
          /\ mgr' = "sleep"
      OBVIOUS
    <3> HIDE DEF chosen
    <3>3. closers' \in [Chans -> 0..MaxClosers]
      BY <3>2
    <3>4. CloserInv'
      BY <2>1, <3>1, <3>2
    <3> QED
      BY <2>1, <2>2, <3>2, <3>3, <3>4 DEF NothingRead, Read
  <2> QED
    BY <1>4, <2>3, <2>4 DEF Decide
<1>5. CASE ReadFails
  BY <1>0, <1>5 DEF ReadFails, NothingRead, Read
<1> QED
  BY <1>1, <1>2, <1>3, <1>4, <1>5 DEF Manager

\* Every step keeps it.
LEMMA ManagerStep == ManagerInv /\ [Next]_vars => ManagerInv'
<1>1. ManagerInv /\ UNCHANGED vars => ManagerInv'
  BY DEF vars, nodeVars, managerVars, ManagerInv, TypeOK, SeenInv, ChannelInv,
         CloserInv, MinLifetimeReached
<1> QED
  BY <1>1, NodeKeepsInv, ManagerKeepsInv, CloserKeepsInv DEF Next

\* The invariant of the manager, the node and the goroutines that close.
LEMMA ManagerCorrect == Spec => []ManagerInv
  BY ManagerInit, ManagerStep, PTL DEF Spec

\* Type correctness.
THEOREM ManagerTypeCorrect == Spec => []TypeOK
<1>1. ManagerInv => TypeOK
  BY DEF ManagerInv
<1> QED
  BY <1>1, ManagerCorrect, PTL

\* No channel the operator or the peer keeps is closed, nor one too young, by a
\* decision however old (isChannelIgnored, closeChannel).
THEOREM OnlyManagedAreClosedHolds == Spec => OnlyManagedAreClosed
<1> DEFINE OnlyManaged == \A c \in Chans :
               (stage[c] = "open" /\ stage'[c] /= "open") => Managed(c)
<1>1. ManagerInv /\ [Next]_vars => [OnlyManaged]_vars
  <2> SUFFICES ASSUME ManagerInv, Next, NEW c \in Chans,
                      stage[c] = "open", stage'[c] /= "open"
               PROVE  Managed(c)
    OBVIOUS
  <2>1. CloseStarts(c)
    BY DEF Next, Environment, Manager, Closer, Mine, Open, Send, Reclaim, Block,
           Spend, ReadWallet, ReadLimbo, ReadChannels, Decide, ReadFails,
           CloseStarts, CloseFails, nodeVars, ManagerInv, TypeOK
  <2> QED
    BY <2>1 DEF CloseStarts, Managed, ManagerInv, CloserInv
<1> QED
  BY <1>1, ManagerCorrect, PTL DEF Spec, OnlyManagedAreClosed
=============================================================================
