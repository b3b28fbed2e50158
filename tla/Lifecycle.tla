------------------------------ MODULE Lifecycle ------------------------------
(***************************************************************************)
(* The life of the process once it is configured: _main, the goroutine     *)
(* that listens for signals and shutdown requests (shutdownListener), the  *)
(* goroutine around Server.Run with its errgroup, the HTTP server and the  *)
(* profiler, until the process exits and is started again.  Goroutines     *)
(* that open channels belong to none of these and just end with the        *)
(* process (LPServer's Stop).                                              *)
(***************************************************************************)
EXTENDS LPConfig

CONSTANTS Listeners,      \* listening addresses, each with its Serve goroutine
          HttpReqs        \* HTTP requests

\* The goroutines of Run's errgroup: listenToInvoices, the cleanup of the table,
\* runManageChannels, and the one that closes the connection to dcrlnd.
Members == {"invoices", "cleanup", "manager", "closer"}

VARIABLES nodeNet,        \* the network of the dcrlnd node
          signals,        \* the goroutine of shutdownListener
          interrupt,      \* interruptChannel holds a signal
          ctx,            \* the main context is canceled
          asking,         \* goroutines blocked in requestShutdown
          runner,         \* the goroutine that calls Run
          members,        \* the goroutines of its group
          runErr,         \* the group's first error
          conn,           \* the connection to dcrlnd
          serve,          \* the Serve goroutine of each listener
          http,           \* each HTTP request
          late,           \* Shutdown's five seconds ran out
          profiler

mainVars == <<nodeNet, runner, members, runErr, conn, serve, http, late>>
signalVars == <<signals, interrupt, ctx, asking, profiler>>
processVars == <<mainVars, signalVars>>
vars == <<configVars, processVars>>

Running == stage \notin {"down", "exited"}
ShuttingDown == stage \in {"draining", "waiting"}

\* gctx: the group's context, canceled with its parent or by the first error.
GroupCanceled == ctx \/ runErr /= "none"

AllReturned == \A m \in Members : members[m] = "returned"

Init ==
    /\ ConfigInit
    /\ nodeNet \in Networks
    /\ signals = "none" /\ interrupt = FALSE /\ ctx = FALSE /\ asking = {}
    /\ profiler = "off"
    /\ runner = "none" /\ runErr = "none" /\ conn = "none" /\ late = FALSE
    /\ members = [m \in Members |-> "none"]
    /\ serve = [l \in Listeners |-> "none"]
    /\ http = [r \in HttpReqs |-> "none"]

-----------------------------------------------------------------------------
(* _main.                                                                  *)

\* Nothing of an ended process is left.
Vanish ==
    /\ Gone
    /\ signals' = "none" /\ interrupt' = FALSE /\ ctx' = FALSE /\ asking' = {}
    /\ profiler' = "off"
    /\ runner' = "none" /\ runErr' = "none" /\ conn' = "none" /\ late' = FALSE
    /\ members' = [m \in Members |-> "none"]
    /\ serve' = [l \in Listeners |-> "none"]
    /\ http' = [r \in HttpReqs |-> "none"]
    /\ UNCHANGED nodeNet

\* A new process, next to whatever node the operator runs.
StartProcess ==
    /\ Start
    /\ nodeNet' \in Networks
    /\ UNCHANGED <<runner, members, runErr, conn, serve, http, late, signalVars>>

Configure == LoadConfig /\ UNCHANGED processVars

\* shutdownListener, and the profiler's goroutine.
ListenForShutdown ==
    /\ stage = "boot"
    /\ Goto("new")
    /\ signals' = "starting"
    /\ profiler' \in {"off", "running"}
    /\ UNCHANGED <<cwd, args, file, cfg, mainVars, interrupt, ctx, asking>>

NodeAccepts == cfg.opts.lnmacaroonpath = nodeNet

\* A slip: the node's network is not looked at.
NewOnAnyNet ==
    /\ stage = "new"
    /\ \/ /\ NodeAccepts
          /\ conn' = "open"
          /\ runner' = "running"
          /\ members' = [m \in Members |-> "running"]
          /\ args' = NoOptions /\ file' = NoOptions
          /\ Goto("listen")
       \/ Exit("error") /\ UNCHANGED <<conn, runner, members, args, file>>
    /\ UNCHANGED <<cwd, cfg, nodeNet, runErr, serve, http, late, signalVars>>

\* serverConfig and New, which asks the node for its network, and Run starts.
\* Of what was given only cfg is still known.
NewServer ==
    /\ stage = "new"
    /\ \/ /\ NodeAccepts /\ nodeNet = ActiveNet
          /\ conn' = "open"
          /\ runner' = "running"
          /\ members' = [m \in Members |-> "running"]
          /\ args' = NoOptions /\ file' = NoOptions
          /\ Goto("listen")
       \/ Exit("error") /\ UNCHANGED <<conn, runner, members, args, file>>
    /\ UNCHANGED <<cwd, cfg, nodeNet, runErr, serve, http, late, signalVars>>

\* An address that cannot be listened on ends the process there and then.
Listen ==
    /\ stage = "listen"
    /\ \/ Goto("serving") /\ serve' = [l \in Listeners |-> "accepting"]
       \/ Exit("error") /\ UNCHANGED serve
    /\ UNCHANGED <<cwd, args, file, cfg, nodeNet, runner, members, runErr, conn,
                   http, late, signalVars>>

BeginShutdown ==
    /\ stage = "serving" /\ ctx
    /\ Goto("draining")
    /\ UNCHANGED <<cwd, args, file, cfg, processVars>>

\* A slip: the listeners are closed and nobody is waited for.
CloseAtOnce ==
    /\ stage = "draining"
    /\ Goto("waiting")
    /\ UNCHANGED <<cwd, args, file, cfg, processVars>>

\* Shutdown returns when no request is left.
Drained ==
    /\ stage = "draining"
    /\ \A r \in HttpReqs : http[r] /= "active"
    /\ Goto("waiting")
    /\ UNCHANGED <<cwd, args, file, cfg, processVars>>

\* ... or after five seconds.
GraceExpires ==
    /\ stage = "draining"
    /\ late' = TRUE
    /\ Goto("waiting")
    /\ UNCHANGED <<cwd, args, file, cfg, nodeNet, runner, members, runErr, conn,
                   serve, http, signalVars>>

\* A slip: only the Serve goroutines are waited for.
WaitForServe ==
    /\ stage = "waiting"
    /\ \A l \in Listeners : serve[l] = "done"
    /\ Exit("ok")
    /\ UNCHANGED <<cwd, args, file, cfg, processVars>>

\* wg.Wait, and the process ends.
WaitForAll ==
    /\ stage = "waiting"
    /\ runner = "done" /\ \A l \in Listeners : serve[l] = "done"
    /\ Exit("ok")
    /\ UNCHANGED <<cwd, args, file, cfg, processVars>>

Main == Configure \/ ListenForShutdown \/ NewServer \/ Listen \/ BeginShutdown
            \/ Drained \/ GraceExpires \/ WaitForAll

-----------------------------------------------------------------------------
(* shutdownListener's goroutine, requestShutdown and the profiler.         *)

\* signal.Notify
Arm ==
    /\ Running /\ signals = "starting"
    /\ signals' = "armed"
    /\ UNCHANGED <<configVars, mainVars, interrupt, ctx, asking, profiler>>

\* Before Notify a signal kills the process; after it, one is held.
SignalArrives ==
    /\ Running
    /\ \/ signals = "armed" /\ interrupt' = TRUE /\ UNCHANGED <<stage, status>>
       \/ signals /= "armed" /\ Exit("killed") /\ UNCHANGED interrupt
    /\ UNCHANGED <<cwd, args, file, cfg, mainVars, signals, ctx, asking, profiler>>

HearSignal ==
    /\ Running /\ signals = "armed" /\ interrupt
    /\ interrupt' = FALSE
    /\ ctx' = TRUE
    /\ UNCHANGED <<configVars, mainVars, signals, asking, profiler>>

\* A slip: once it has canceled the context the goroutine returns.
HearFirstRequest(g) ==
    /\ Running /\ signals = "armed" /\ g \in asking /\ ~ctx
    /\ asking' = asking \ {g}
    /\ ctx' = TRUE
    /\ runner' = IF g = "runner" THEN "done" ELSE runner
    /\ profiler' = IF g = "profiler" THEN "off" ELSE profiler
    /\ UNCHANGED <<configVars, nodeNet, members, runErr, conn, serve, http, late,
                   signals, interrupt>>

\* Both ends of shutdownRequestChannel meet, and the sender goes on.  The first
\* signal or request cancels the context; later ones are received all the same.
HearRequest(g) ==
    /\ Running /\ signals = "armed" /\ g \in asking
    /\ asking' = asking \ {g}
    /\ ctx' = TRUE
    /\ runner' = IF g = "runner" THEN "done" ELSE runner
    /\ profiler' = IF g = "profiler" THEN "off" ELSE profiler
    /\ UNCHANGED <<configVars, nodeNet, members, runErr, conn, serve, http, late,
                   signals, interrupt>>

ProfilerFails ==
    /\ Running /\ profiler = "running"
    /\ profiler' = "asking"
    /\ asking' = asking \cup {"profiler"}
    /\ UNCHANGED <<configVars, mainVars, signals, interrupt, ctx>>

-----------------------------------------------------------------------------
(* Server.Run.                                                             *)

MemberRuns(m) == Running /\ members[m] = "running"

FirstError(err) == runErr' = IF runErr = "none" THEN err ELSE runErr

\* A slip: a round that fails ends the management of channels, with no error.
ManagerGivesUp(m) ==
    /\ MemberRuns(m)
    /\ \/ GroupCanceled /\ FirstError("canceled")
       \/ m = "manager" /\ UNCHANGED runErr
    /\ members' = [members EXCEPT ![m] = "returned"]
    /\ conn' = IF m = "closer" THEN "closed" ELSE conn
    /\ UNCHANGED <<configVars, nodeNet, runner, serve, http, late, signalVars>>

\* Every goroutine of the group returns gctx.Err() once there is one; the closer
\* has closed the connection by then.
MemberReturns(m) ==
    /\ MemberRuns(m)
    /\ GroupCanceled
    /\ FirstError("canceled")
    /\ members' = [members EXCEPT ![m] = "returned"]
    /\ conn' = IF m = "closer" THEN "closed" ELSE conn
    /\ UNCHANGED <<configVars, nodeNet, runner, serve, http, late, signalVars>>

\* A record that cannot be read or removed is fatal to listenToInvoices.
InvoicesFail ==
    /\ MemberRuns("invoices")
    /\ FirstError("fatal")
    /\ members' = [members EXCEPT !["invoices"] = "returned"]
    /\ UNCHANGED <<configVars, nodeNet, runner, conn, serve, http, late, signalVars>>

\* A slip: the error is logged and no more.
RunReturnsQuietly ==
    /\ Running /\ runner = "running" /\ AllReturned
    /\ runner' = "done"
    /\ UNCHANGED <<configVars, nodeNet, members, runErr, conn, serve, http, late,
                   signalVars>>

\* A slip: the shutdown is asked for on the side.
RunAsksAside ==
    /\ Running /\ runner = "running" /\ AllReturned
    /\ runner' = "done"
    /\ asking' = IF runErr = "fatal" THEN asking \cup {"runner"} ELSE asking
    /\ UNCHANGED <<configVars, nodeNet, members, runErr, conn, serve, http, late,
                   signals, interrupt, ctx, profiler>>

\* g.Wait returns the first error; any but a cancellation asks for a shutdown.
RunReturns ==
    /\ Running /\ runner = "running" /\ AllReturned
    /\ IF runErr = "fatal"
       THEN runner' = "asking" /\ asking' = asking \cup {"runner"}
       ELSE runner' = "done" /\ UNCHANGED asking
    /\ UNCHANGED <<configVars, nodeNet, members, runErr, conn, serve, http, late,
                   signals, interrupt, ctx, profiler>>

-----------------------------------------------------------------------------
(* The HTTP server.                                                        *)

\* Serve returns because the server is shutting down, or because accepting
\* failed for good: its error is dropped.
ServeReturns(l) ==
    /\ Running /\ serve[l] = "accepting"
    /\ serve' = [serve EXCEPT ![l] = "done"]
    /\ UNCHANGED <<configVars, nodeNet, runner, members, runErr, conn, http, late,
                   signalVars>>

Accept(r) ==
    /\ Running /\ ~ShuttingDown /\ http[r] = "none"
    /\ \E l \in Listeners : serve[l] = "accepting"
    /\ http' = [http EXCEPT ![r] = "active"]
    /\ UNCHANGED <<configVars, nodeNet, runner, members, runErr, conn, serve, late,
                   signalVars>>

\* The handler is done, with whatever answer.
Answer(r) ==
    /\ Running /\ http[r] = "active"
    /\ http' = [http EXCEPT ![r] = "answered"]
    /\ UNCHANGED <<configVars, nodeNet, runner, members, runErr, conn, serve, late,
                   signalVars>>

\* A panic, or a kill.
Crash ==
    /\ Running
    /\ Exit("killed")
    /\ UNCHANGED <<cwd, args, file, cfg, processVars>>

-----------------------------------------------------------------------------

Goroutines ==
    \/ \E g \in {"runner", "profiler"} : HearRequest(g)
    \/ Arm \/ HearSignal
    \/ \E m \in Members : MemberReturns(m)
    \/ RunReturns
    \/ \E l \in Listeners : ShuttingDown /\ ServeReturns(l)

Surroundings ==
    \/ Vanish \/ StartProcess \/ SignalArrives \/ Crash
    \/ ProfilerFails \/ InvoicesFail
    \/ \E l \in Listeners : ~ShuttingDown /\ ServeReturns(l)
    \/ \E r \in HttpReqs : Accept(r) \/ Answer(r)

Next == Main \/ Goroutines \/ Surroundings

Spec == Init /\ [][Next]_vars

\* Goroutines that can go on do, calls to the node end, the context of a call
\* being canceled if nothing else, and the five seconds pass.  Nobody need send
\* a signal, and a client may never finish its request.
FairSpec ==
    /\ Spec
    /\ WF_vars(Main)
    /\ WF_vars(Arm) /\ WF_vars(HearSignal)
    /\ \A g \in {"runner", "profiler"} : WF_vars(HearRequest(g))
    /\ \A m \in Members : WF_vars(MemberReturns(m))
    /\ WF_vars(RunReturns)
    /\ \A l \in Listeners : WF_vars(ShuttingDown /\ ServeReturns(l))

-----------------------------------------------------------------------------
(* Correctness.                                                            *)

\* The type invariant; the goroutines that ask are the ones in requestShutdown.
LifecycleTypeOK ==
    /\ stage \in {"down", "exited", "preparse", "read", "validate", "boot", "new",
                  "listen", "serving", "draining", "waiting"}
    /\ status \in {"none", "ok", "error", "killed"}
    /\ (status = "none") = (stage /= "exited")
    /\ nodeNet \in Networks
    /\ signals \in {"none", "starting", "armed"}
    /\ interrupt \in BOOLEAN /\ ctx \in BOOLEAN /\ late \in BOOLEAN
    /\ runner \in {"none", "running", "asking", "done"}
    /\ profiler \in {"off", "running", "asking"}
    /\ asking = {g \in {"runner", "profiler"} :
                     \/ g = "runner" /\ runner = "asking"
                     \/ g = "profiler" /\ profiler = "asking"}
    /\ members \in [Members -> {"none", "running", "returned"}]
    /\ runErr \in {"none", "canceled", "fatal"}
    /\ conn \in {"none", "open", "closed"}
    /\ serve \in [Listeners -> {"none", "accepting", "done"}]
    /\ http \in [HttpReqs -> {"none", "active", "answered"}]

\* The network the operator chose, the node's network and the network whose
\* directory holds the records are one, however file and command line mix
\* (loadConfig, serverConfig, New).
NetworksAgree ==
    runner /= "none" => /\ nodeNet = ActiveNet
                        /\ RootDir[Len(RootDir)] = nodeNet

\* Nothing of the server stops by itself: until the process was told to end or
\* Run has failed, the invoices are listened to, the table is cleaned, channels
\* are managed and the node is connected (Run).
NoServiceDiesAlone ==
    (stage \in {"listen", "serving"} /\ ~GroupCanceled) =>
        conn = "open" /\ \A m \in Members : members[m] = "running"

\* A process that served and ended as it should has ended Run, with the node's
\* connection closed and every goroutine _main waits for gone ("Wait for all
\* goroutines to finish").
CleanExit ==
    (status = "ok" /\ signals /= "none") =>
        /\ ctx /\ runner = "done" /\ AllReturned /\ conn = "closed"
        /\ \A l \in Listeners : serve[l] = "done"

\* A graceful end cuts off a request only after the five seconds
\* ("Wait up to 5 seconds until all connections are gracefully closed").
CutOnlyLate == (status = "ok" /\ \E r \in HttpReqs : http[r] = "active") => late

\* A signal that was held, a request for shutdown or a canceled context ends the
\* process, whoever else asks meanwhile and whatever the clients do
\* (shutdownListener, _main).
ShutdownEnds == (Running /\ (interrupt \/ asking /= {} \/ ctx)) ~> ~Running

\* A fatal error of Run ends the process instead of leaving it to sell channels
\* nobody will open (_main).
FatalErrorEnds == (Running /\ runErr = "fatal") ~> ~Running
=============================================================================
