---------------------------- MODULE PendingChans ----------------------------
(***************************************************************************)
(* The server's in-memory table of nodes with a pending request to create  *)
(* a channel (Server.pendingChans): when each node's request was granted.  *)
(* Every access in the code holds pendingChansMtx for the whole of the     *)
(* read and write below, so each operation is one step.  The clock is      *)
(* time.Now(), counted in ticks; it is read twice in                       *)
(* hasPendingCreateChanReqs with the mutex held, which one tick covers.    *)
(***************************************************************************)
EXTENDS Integers

CONSTANTS Nodes,               \* the nodes that ask for channels
          InvoiceExpiration,   \* cfg.InvoiceExpiration, in ticks
          NoEntry,             \* the table has no entry for the node
          MaxTime              \* bound on the clock

ASSUME InvoiceExpirationAssumption == InvoiceExpiration \in Nat \ {0}
ASSUME MaxTimeAssumption == MaxTime \in Nat
ASSUME NoEntryAssumption == NoEntry \notin Nat

VARIABLES now,                 \* the clock
          pendingChans         \* the time of each node's entry, or NoEntry

tableVars == <<now, pendingChans>>

\* A slip: an entry is stale one tick too early.
StaleEarly(t) == t <= now - InvoiceExpiration

\* t.Before(time.Now().Add(-s.cfg.InvoiceExpiration))
Stale(t) == t < now - InvoiceExpiration

HasPending(n) == pendingChans[n] /= NoEntry /\ ~Stale(pendingChans[n])

EmptyTable == [n \in Nodes |-> NoEntry]

TableInit == now = 0 /\ pendingChans = EmptyTable

-----------------------------------------------------------------------------

\* hasPendingCreateChanReqs when it returns false: the node's entry is written.
RegisterRequest(n) ==
    /\ ~HasPending(n)
    /\ pendingChans' = [pendingChans EXCEPT ![n] = now]
    /\ UNCHANGED now

\* openChannel deletes the node's entry once the channel is open, whichever
\* request wrote it.
ReleaseNode(n) ==
    /\ pendingChans' = [pendingChans EXCEPT ![n] = NoEntry]
    /\ UNCHANGED now

\* A slip: the comparison with the limit the other way round.
SweepFresh ==
    /\ pendingChans' = [n \in Nodes |-> IF HasPending(n) THEN NoEntry
                                                         ELSE pendingChans[n]]
    /\ UNCHANGED now

\* A slip: the cleanup takes an entry as old as the limit for an older one.
SweepEarly ==
    /\ pendingChans' = [n \in Nodes |->
                            IF pendingChans[n] /= NoEntry
                                /\ pendingChans[n] > now - InvoiceExpiration
                            THEN pendingChans[n] ELSE NoEntry]
    /\ UNCHANGED now

\* The cleanup goroutine of Run: one pass over the table.
Sweep ==
    /\ pendingChans' = [n \in Nodes |-> IF HasPending(n) THEN pendingChans[n]
                                                         ELSE NoEntry]
    /\ UNCHANGED now

\* The table lives in memory: New makes an empty one.
ForgetTable ==
    /\ pendingChans' = EmptyTable
    /\ UNCHANGED now

Tick ==
    /\ now < MaxTime
    /\ now' = now + 1
    /\ UNCHANGED pendingChans

TableNext == \/ \E n \in Nodes : RegisterRequest(n) \/ ReleaseNode(n)
             \/ Sweep
             \/ ForgetTable
             \/ Tick

TableSpec == TableInit /\ [][TableNext]_tableVars

-----------------------------------------------------------------------------

\* The table's type: no entry is from the future.
TableTypeOK ==
    /\ now \in 0..MaxTime
    /\ pendingChans \in [Nodes -> (0..now) \cup {NoEntry}]

\* The ticks left of the time an entry is good for, from when it was written:
\* InvoiceExpiration and the tick it runs out in.
TicksLeft(n) ==
    IF pendingChans[n] /= NoEntry /\ now <= pendingChans[n] + InvoiceExpiration
    THEN pendingChans[n] + InvoiceExpiration + 1 - now
    ELSE 0

Overdue(n) == pendingChans[n] /= NoEntry /\ TicksLeft(n) = 0

\* Every entry whose time is over is collected by the cleanup or replaced by a
\* new request: the table does not grow with nodes that never come back (Run).
StaleIsCollected == \A n \in Nodes : Overdue(n) ~> ~Overdue(n)
=============================================================================
