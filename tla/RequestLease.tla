---------------------------- MODULE RequestLease ----------------------------
(***************************************************************************)
(* What the server promises about the nodes it lets request a channel: a   *)
(* request let in takes an exclusive lease on its node, counted down by    *)
(* the clock and by nothing else.  No other request of the node is let in  *)
(* before the lease runs out, and it ends early in two ways only: a        *)
(* channel to that node opens, or the process ends and remembers nothing.  *)
(***************************************************************************)
EXTENDS Naturals

CONSTANTS Nodes,         \* the nodes that ask for channels
          Requests,      \* what they ask
          LeaseTicks     \* how long a lease lasts

VARIABLES clock,
          alive,         \* a process runs
          admitted,      \* requests of each node that were ever let in
          opened,        \* requests of each node whose channel opened
          lease          \* ticks left of each node's lease, 0 when it is free

leaseVars == <<clock, alive, admitted, opened, lease>>

Init == /\ clock = 0
        /\ alive = TRUE
        /\ admitted = [n \in Nodes |-> {}]
        /\ opened = [n \in Nodes |-> {}]
        /\ lease = [n \in Nodes |-> 0]

Grant(n, r) == /\ alive
               /\ lease[n] = 0
               /\ admitted' = [admitted EXCEPT ![n] = @ \cup {r}]
               /\ lease' = [lease EXCEPT ![n] = LeaseTicks]
               /\ UNCHANGED <<clock, alive, opened>>

\* Any of the node's requests ends the lease when its channel opens, once.
Open(n, r) == /\ alive
              /\ r \notin opened[n]
              /\ opened' = [opened EXCEPT ![n] = @ \cup {r}]
              /\ lease' = [lease EXCEPT ![n] = 0]
              /\ UNCHANGED <<clock, alive, admitted>>

End == /\ alive
       /\ alive' = FALSE
       /\ lease' = [n \in Nodes |-> 0]
       /\ UNCHANGED <<clock, admitted, opened>>

Begin == /\ ~alive
         /\ alive' = TRUE
         /\ UNCHANGED <<clock, admitted, opened, lease>>

Elapse == /\ clock' = clock + 1
          /\ lease' = [n \in Nodes |-> IF lease[n] = 0 THEN 0 ELSE lease[n] - 1]
          /\ UNCHANGED <<alive, admitted, opened>>

Next == \/ \E n \in Nodes, r \in Requests : Grant(n, r) \/ Open(n, r)
        \/ End \/ Begin
        \/ Elapse

Spec == Init /\ [][Next]_leaseVars
=============================================================================
