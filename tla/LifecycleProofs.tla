--------------------------- MODULE LifecycleProofs ---------------------------
(* The process is well typed, and what it promises of its goroutines and of *)
(* its end holds for any options, listeners and requests.                   *)
EXTENDS Lifecycle, FiniteSetTheorems, TLAPS

\* What is not there yet before the process serves.
StartUpInv ==
    /\ stage \in {"down", "preparse", "read", "validate", "boot"} =>
           signals = "none" /\ profiler = "off"
    /\ stage \in {"down", "preparse", "read", "validate", "boot", "new"} =>
           runner = "none"
    /\ stage \in {"down", "preparse", "read", "validate", "boot", "new", "listen"} =>
           /\ \A l \in Listeners : serve[l] = "none"
           /\ \A r \in HttpReqs : http[r] = "none"

\* Run has returned after its group, whose closer has closed the connection.
RunInv ==
    /\ runner \in {"asking", "done"} => AllReturned
    /\ members["closer"] = "returned" => conn = "closed"
    /\ runner /= "none" => nodeNet = ActiveNet

\* How far the shutdown has come.
ShutdownInv ==
    /\ ShuttingDown => ctx
    /\ stage = "waiting" => late \/ \A r \in HttpReqs : http[r] /= "active"

LifecycleInv ==
    /\ LifecycleTypeOK /\ NoServiceDiesAlone /\ CleanExit /\ CutOnlyLate
    /\ StartUpInv /\ RunInv /\ ShutdownInv

USE DEF Members, Exit, Goto, Running, ShuttingDown, GroupCanceled, AllReturned,
        Networks

\* Nothing runs yet.
LEMMA LifecycleInit == Init => LifecycleInv
BY DEF Init, ConfigInit, LifecycleInv, LifecycleTypeOK, NoServiceDiesAlone,
       CleanExit, CutOnlyLate, StartUpInv, RunInv, ShutdownInv

\* Every step keeps the invariant; an exit freezes what it is judged by.
LEMMA LifecycleStep == LifecycleInv /\ [Next]_vars => LifecycleInv'
<1> SUFFICES ASSUME LifecycleInv, [Next]_vars
             PROVE  LifecycleInv'
  OBVIOUS
<1> USE DEF LifecycleInv, LifecycleTypeOK, NoServiceDiesAlone, CleanExit,
            CutOnlyLate, StartUpInv, RunInv, ShutdownInv, ActiveNet,
            configVars, mainVars, signalVars, processVars
<1>1. CASE Vanish
  BY <1>1 DEF Vanish, Gone
<1>2. CASE StartProcess
  BY <1>2 DEF StartProcess, Start
<1>3. CASE Configure
  BY <1>3 DEF Configure, LoadConfig, PreParse, ReadFileAndArgs, Validate
<1>4. CASE ListenForShutdown
  BY <1>4 DEF ListenForShutdown
<1>5. CASE NewServer
  BY <1>5 DEF NewServer
<1>6. CASE Listen
  BY <1>6 DEF Listen
<1>7. CASE BeginShutdown
  BY <1>7 DEF BeginShutdown
<1>8. CASE Drained
  BY <1>8 DEF Drained
<1>9. CASE GraceExpires
  BY <1>9 DEF GraceExpires
<1>10. CASE WaitForAll
  BY <1>10 DEF WaitForAll
<1>11. CASE Arm
  BY <1>11 DEF Arm
<1>12. CASE Crash
  BY <1>12 DEF Crash
<1>13. CASE SignalArrives
  <2>1. CASE signals = "armed"
    BY <1>13, <2>1 DEF SignalArrives
  <2>2. CASE signals /= "armed"
    <3>1. Crash
      BY <1>13, <2>2 DEF SignalArrives, Crash
    <3> QED
      BY <1>12, <3>1
  <2> QED
    BY <2>1, <2>2
<1>14. CASE HearSignal
  <2>1. interrupt' \in BOOLEAN /\ ctx' \in BOOLEAN
    BY <1>14 DEF HearSignal
  <2>2. UNCHANGED <<configVars, mainVars, signals, asking, profiler>>
    BY <1>14 DEF HearSignal
  <2>3. LifecycleTypeOK'
    BY <2>1, <2>2
  <2>4. NoServiceDiesAlone' /\ CleanExit' /\ CutOnlyLate'
    BY <1>14 DEF HearSignal
  <2>5. StartUpInv' /\ RunInv' /\ ShutdownInv'
    BY <1>14 DEF HearSignal
  <2> QED
    BY <2>3, <2>4, <2>5
<1>15. ASSUME NEW g \in {"runner", "profiler"}, HearRequest(g)
       PROVE  LifecycleInv'
  BY <1>15 DEF HearRequest
<1>16. CASE ProfilerFails
  BY <1>16 DEF ProfilerFails
<1>17. ASSUME NEW m \in Members, MemberReturns(m)
       PROVE  LifecycleInv'
  BY <1>17 DEF MemberReturns, MemberRuns, FirstError
<1>18. CASE InvoicesFail
  BY <1>18 DEF InvoicesFail, MemberRuns, FirstError
<1>19. CASE RunReturns
  BY <1>19 DEF RunReturns
<1>20. ASSUME NEW l \in Listeners, ServeReturns(l)
       PROVE  LifecycleInv'
  BY <1>20 DEF ServeReturns
<1>21. ASSUME NEW r \in HttpReqs, Accept(r) \/ Answer(r)
       PROVE  LifecycleInv'
  BY <1>21 DEF Accept, Answer
<1>22. CASE UNCHANGED vars
  BY <1>22 DEF vars
<1> QED
  BY <1>1, <1>2, <1>3, <1>4, <1>5, <1>6, <1>7, <1>8, <1>9, <1>10, <1>11, <1>12,
     <1>13, <1>14, <1>15, <1>16, <1>17, <1>18, <1>19, <1>20, <1>21, <1>22
     DEF Next, Main, Goroutines, Surroundings

\* The process, its goroutines and what they hold are well typed.
THEOREM LifecycleTypeCorrect == Spec => []LifecycleTypeOK
BY LifecycleInit, LifecycleStep, PTL DEF Spec, LifecycleInv

\* None of Run's services and not the node's connection ends before Run fails or
\* the process is told to end (Run).
THEOREM NoServiceDiesAloneHolds == Spec => []NoServiceDiesAlone
BY LifecycleInit, LifecycleStep, PTL DEF Spec, LifecycleInv

\* A clean exit has waited for Run and for the Serve goroutines (_main).
THEOREM CleanExitHolds == Spec => []CleanExit
BY LifecycleInit, LifecycleStep, PTL DEF Spec, LifecycleInv

\* A clean exit cuts off a request only when the grace period is over (_main).
THEOREM CutOnlyLateHolds == Spec => []CutOnlyLate
BY LifecycleInit, LifecycleStep, PTL DEF Spec, LifecycleInv

-----------------------------------------------------------------------------
(* The configuration.                                                        *)

\* The names of the options that are numbers.
Numbers == {"minchansize", "maxchansize", "maxnbchans", "invoicefeerate",
            "invoiceexpiration", "checkinterval", "minchanlifetime",
            "minwalletbalance"}

\* Options that may not all be given.
TypedOptions(o) ==
    /\ o.nets \subseteq Networks
    /\ "appdata" \in DOMAIN o.opts => o.opts.appdata \in Seq(STRING)
    /\ \A n \in DOMAIN o.opts \cap Numbers : o.opts[n] \in Int
    /\ \A n \in DOMAIN o.opts \cap {"minchansize", "maxchansize"} : o.opts[n] < Word

ConfigInv ==
    /\ cwd \in Seq(STRING)
    /\ TypedOptions(args) /\ TypedOptions(file) /\ TypedOptions(cfg)
    /\ Numbers \cup {"appdata"} \subseteq DOMAIN cfg.opts
    /\ stage \in {"validate", "boot"} => cfg = Merged
    /\ Loaded => ValidOptions

\* What is given over typed options leaves them typed.
LEMMA OverTyped ==
    ASSUME NEW o, NEW p, TypedOptions(o), TypedOptions(p), NEW N \in SUBSET Networks
    PROVE  TypedOptions([opts |-> Over(o.opts, p.opts), nets |-> N])
BY DEF TypedOptions, Over

\* The defaults give every number and the directory.
LEMMA DefaultsTyped ==
    ASSUME NEW N \in SUBSET Networks
    PROVE  /\ TypedOptions([opts |-> Defaults, nets |-> N])
           /\ Numbers \cup {"appdata"} \subseteq DOMAIN Defaults
<1>1. /\ Defaults.appdata \in Seq(STRING)
      /\ \A n \in Numbers : Defaults[n] \in Int
      /\ Defaults.minchansize < Word /\ Defaults.maxchansize < Word
  BY ConfigAssumption, SMT DEF Defaults, Numbers
<1>2. Numbers \cup {"appdata"} \subseteq DOMAIN Defaults
  BY SMT DEF Defaults, Numbers
<1> QED
  BY <1>1, <1>2 DEF TypedOptions

\* So do the options in force, whatever was given.
LEMMA MergedTyped ==
    ASSUME TypedOptions(args), TypedOptions(file)
    PROVE  TypedOptions(Merged) /\ Numbers \cup {"appdata"} \subseteq DOMAIN Merged.opts
<1> DEFINE N == args.nets \cup file.nets
           macaroon == [opts |-> [lnmacaroonpath |-> NetworkOf(args.nets)], nets |-> N]
           defaults == [opts |-> CmdLineDefaults, nets |-> N]
           withFile == [opts |-> Over(file.opts, defaults.opts), nets |-> N]
<1>1. N \in SUBSET Networks
  BY DEF TypedOptions
<1>2. TypedOptions(defaults)
  <2>1. TypedOptions(macaroon)
    BY <1>1 DEF TypedOptions, Numbers
  <2>2. defaults = [opts |-> Over(macaroon.opts, [opts |-> Defaults, nets |-> N].opts),
                    nets |-> N]
    BY DEF CmdLineDefaults
  <2> QED
    BY <1>1, <2>1, <2>2, DefaultsTyped, OverTyped
<1>3. TypedOptions(withFile)
  BY <1>1, <1>2, OverTyped
<1>4. Merged = [opts |-> Over(args.opts, withFile.opts), nets |-> N]
  BY DEF Merged
<1>5. TypedOptions(Merged)
  BY <1>1, <1>3, <1>4, OverTyped
<1>6. Numbers \cup {"appdata"} \subseteq DOMAIN Merged.opts
  BY <1>1, DefaultsTyped DEF Merged, Over, CmdLineDefaults
<1> QED
  BY <1>5, <1>6

\* No option given is typed too.
LEMMA NothingTyped == TypedOptions(NoOptions)
BY DEF NoOptions, TypedOptions

\* The process that was not started has the defaults.
LEMMA ConfigInvInit == Init => ConfigInv
<1> SUFFICES ASSUME Init
             PROVE  ConfigInv
  OBVIOUS
<1>1. TypedOptions(args) /\ TypedOptions(file)
  BY NothingTyped DEF Init, ConfigInit
<1>2. TypedOptions(cfg) /\ Numbers \cup {"appdata"} \subseteq DOMAIN cfg.opts
  BY DefaultsTyped DEF Init, ConfigInit
<1> QED
  BY <1>1, <1>2 DEF Init, ConfigInit, ConfigInv, Loaded

\* Wherever an option is given it is one that was assumed.
LEMMA GivenTyped == \A o \in CmdLines \cup Files : TypedOptions(o)
BY ConfigAssumption DEF TypedOptions, Numbers

\* The options in force change in loadConfig and with the process, nowhere else.
LEMMA ConfigStep == ConfigInv /\ [Next]_vars => ConfigInv'
<1> SUFFICES ASSUME ConfigInv, [Next]_vars
             PROVE  ConfigInv'
  OBVIOUS
<1> USE DEF ConfigInv, Loaded
<1>1. CASE Vanish
  <2>1. TypedOptions(args)' /\ TypedOptions(file)'
    BY <1>1, NothingTyped DEF Vanish, Gone, TypedOptions
  <2>2. TypedOptions(cfg)' /\ (Numbers \cup {"appdata"} \subseteq DOMAIN cfg.opts)'
    BY <1>1, DefaultsTyped DEF Vanish, Gone, TypedOptions
  <2> QED
    BY <1>1, <2>1, <2>2 DEF Vanish, Gone
<1>2. CASE StartProcess
  BY <1>2, GivenTyped, ConfigAssumption DEF StartProcess, Start, TypedOptions
<1>3. CASE Configure /\ PreParse
  BY <1>3 DEF PreParse, TypedOptions
<1>4. CASE Configure /\ ReadFileAndArgs
  BY <1>4, MergedTyped DEF ReadFileAndArgs, TypedOptions, Merged, CmdLineDefaults
<1>5. CASE Configure /\ Validate
  BY <1>5 DEF Validate, TypedOptions, Merged, CmdLineDefaults, ValidOptions,
              ActiveNet
<1>6. CASE NewServer
  BY <1>6, NothingTyped DEF NewServer, TypedOptions, ValidOptions, ActiveNet
<1>7. CASE /\ UNCHANGED <<cwd, args, file, cfg>>
           /\ \/ stage' = stage \/ stage' = "exited"
              \/ Loaded /\ stage' \in {"new", "listen", "serving", "draining", "waiting"}
  BY <1>7 DEF TypedOptions, Merged, CmdLineDefaults, ValidOptions, ActiveNet
<1>8. CASE \/ ListenForShutdown \/ Listen \/ BeginShutdown \/ Drained
           \/ GraceExpires \/ WaitForAll \/ Crash
  BY <1>7, <1>8 DEF ListenForShutdown, Listen, BeginShutdown, Drained, GraceExpires,
                    WaitForAll, Crash
<1>9. CASE \/ Arm \/ SignalArrives \/ HearSignal \/ ProfilerFails
           \/ \E g \in {"runner", "profiler"} : HearRequest(g)
  BY <1>7, <1>9 DEF Arm, SignalArrives, HearSignal, ProfilerFails, HearRequest,
                    configVars
<1>10. CASE \/ InvoicesFail \/ RunReturns
            \/ \E m \in Members : MemberReturns(m)
            \/ \E l \in Listeners : ServeReturns(l)
            \/ \E r \in HttpReqs : Accept(r) \/ Answer(r)
  BY <1>7, <1>10 DEF InvoicesFail, RunReturns, MemberReturns, ServeReturns, Accept,
                     Answer, configVars
<1>11. CASE UNCHANGED vars
  BY <1>7, <1>11 DEF vars, configVars
<1> QED
  BY <1>1, <1>2, <1>3, <1>4, <1>5, <1>6, <1>8, <1>9, <1>10, <1>11
     DEF Next, Main, Goroutines, Surroundings, Configure, LoadConfig

\* The options in force are typed, are what was given, and passed the checks.
LEMMA ConfigInvCorrect == Spec => []ConfigInv
BY ConfigInvInit, ConfigStep, PTL DEF Spec

\* A duration that is a unit or more has whole units, no longer than itself.
LEMMA SecondsOf ==
    ASSUME NEW d \in Int, NEW u \in Nat \ {0}, d >= u
    PROVE  d \div u > 0 /\ (d \div u) * u <= d
OBVIOUS

\* An amount that is not negative keeps its value.
LEMMA AmountAsUint64 ==
    ASSUME NEW a \in Int, 0 <= a, a < Word
    PROVE  ToUint64(a) = a
BY ConfigAssumption DEF ToUint64

\* The process runs on values the rest of the server is built on (loadConfig,
\* serverConfig), whatever is given.
THEOREM RunsOnValidConfigHolds == Spec => []RunsOnValidConfig
<1>1. ConfigInv => RunsOnValidConfig
  <2> SUFFICES ASSUME ConfigInv, Loaded
               PROVE  RunsOnValidConfig
    BY DEF RunsOnValidConfig
  <2>1. ValidOptions
    BY DEF ConfigInv
  <2>2. /\ \A n \in Numbers : cfg.opts[n] \in Int
        /\ cfg.opts.minchansize < Word /\ cfg.opts.maxchansize < Word
    BY DEF ConfigInv, TypedOptions, Numbers
  <2>3. BlockTime[ActiveNet] \in Nat \ {0}
    <3>1. ActiveNet \in Networks
      BY DEF ActiveNet, NetworkOf, ConfigInv, TypedOptions
    <3> QED
      BY <3>1, ConfigAssumption DEF BlockTime
  <2>4. ToUint64(cfg.opts.minchansize) >= MinSize
    BY <2>1, <2>2, AmountAsUint64, ConfigAssumption DEF ValidOptions, Numbers
  <2>5. cfg.opts.maxchansize >= 0 => ToUint64(cfg.opts.maxchansize) <= MaxSize
    BY <2>1, <2>2, AmountAsUint64, ConfigAssumption DEF ValidOptions, Numbers
  <2>6. InvoiceSeconds > 0 /\ InvoiceSeconds * Second <= cfg.opts.invoiceexpiration
    BY <2>1, <2>2, SecondsOf, ConfigAssumption
       DEF ValidOptions, Numbers, InvoiceSeconds
  <2>7. cfg.opts.minchanlifetime \div BlockTime[ActiveNet] > 0
    BY <2>1, <2>2, <2>3, SecondsOf DEF ValidOptions, Numbers
  <2>8. cfg.opts.checkinterval > 0
    BY <2>1, <2>2, ConfigAssumption DEF ValidOptions, Numbers
  <2> QED
    BY <2>1, <2>4, <2>5, <2>6, <2>7, <2>8 DEF ValidOptions, RunsOnValidConfig
<1> QED
  BY <1>1, ConfigInvCorrect, PTL

\* Networks that do not conflict are one at most.
LEMMA OneNetwork ==
    ASSUME NEW N \in SUBSET Networks, Cardinality(N) <= 1, NEW m \in N, NEW n \in N
    PROVE  m = n
<1>1. IsFiniteSet(Networks)
  <2>1. IsFiniteSet({"mainnet"})
    BY FS_Singleton
  <2>2. IsFiniteSet({"mainnet"} \cup {"testnet"})
    BY <2>1, FS_AddElement
  <2>3. IsFiniteSet(({"mainnet"} \cup {"testnet"}) \cup {"simnet"})
    BY <2>2, FS_AddElement
  <2>4. Networks = ({"mainnet"} \cup {"testnet"}) \cup {"simnet"}
    OBVIOUS
  <2> QED
    BY <2>3, <2>4
<1>2. IsFiniteSet(N)
  BY <1>1, FS_Subset
<1>3. Cardinality({m, n}) <= Cardinality(N)
  BY <1>2, FS_Subset
<1>4. m /= n => Cardinality({m, n}) = 2
  <2> SUFFICES ASSUME m /= n
               PROVE  Cardinality({m, n}) = 2
    OBVIOUS
  <2>1. Cardinality({m}) = 1 /\ IsFiniteSet({m})
    BY FS_Singleton
  <2>2. {m, n} = {m} \cup {n}
    OBVIOUS
  <2> QED
    BY <2>1, <2>2, FS_AddElement
<1> QED
  BY <1>2, <1>3, <1>4, FS_CardinalityType

\* No file overrides the command line, nor its network (loadConfig).
THEOREM CommandLineWinsHolds == Spec => []CommandLineWins
<1>1. ConfigInv => CommandLineWins
  <2> SUFFICES ASSUME ConfigInv, stage = "boot"
               PROVE  CommandLineWins
    BY DEF CommandLineWins
  <2>1. cfg = Merged /\ ValidOptions
    BY DEF ConfigInv, Loaded
  <2>2. \A o \in DOMAIN args.opts : cfg.opts[o] = args.opts[o]
    BY <2>1 DEF Merged, Over
  <2>3. ASSUME args.nets /= {}
        PROVE  ActiveNet \in args.nets
    <3>1. cfg.nets \in SUBSET Networks /\ args.nets \subseteq cfg.nets
      BY <2>1 DEF ConfigInv, TypedOptions, Merged
    <3>2. ActiveNet \in cfg.nets
      BY <2>3, <3>1 DEF ActiveNet, NetworkOf
    <3>3. PICK n \in args.nets : TRUE
      BY <2>3
    <3> QED
      BY <2>1, <3>1, <3>2, <3>3, OneNetwork DEF ValidOptions
  <2> QED
    BY <2>2, <2>3 DEF CommandLineWins
<1> QED
  BY <1>1, ConfigInvCorrect, PTL

\* The records of a network are kept with a node of that network (New,
\* serverConfig).
THEOREM NetworksAgreeHolds == Spec => []NetworksAgree
<1>1. LifecycleInv /\ ConfigInv => NetworksAgree
  <2> SUFFICES ASSUME LifecycleInv, ConfigInv, runner /= "none"
               PROVE  NetworksAgree
    BY DEF NetworksAgree
  <2>1. nodeNet = ActiveNet
    BY DEF LifecycleInv, RunInv
  <2>2. RootDir[Len(RootDir)] = ActiveNet
    <3> DEFINE Name == STRING \cup {ActiveNet}
               path == Append(cfg.opts.appdata, ActiveNet)
    <3>1. cwd \in Seq(Name) /\ cfg.opts.appdata \in Seq(Name)
      <4>1. cwd \in Seq(STRING) /\ cfg.opts.appdata \in Seq(STRING)
        BY DEF ConfigInv, TypedOptions
      <4> QED
        BY <4>1
    <3>2. /\ path \in Seq(Name) /\ path[Len(path)] = ActiveNet
          /\ Len(path) = Len(cfg.opts.appdata) + 1
      BY <3>1
    <3> HIDE DEF Name
    <3>3. /\ Len(cwd \o path) = Len(cwd) + Len(path)
          /\ (cwd \o path)[Len(cwd) + Len(path)] = path[Len(path)]
      BY <3>1, <3>2
    <3> QED
      BY <3>2, <3>3 DEF RootDir, Absolute
  <2> QED
    BY <2>1, <2>2 DEF NetworksAgree
<1> QED
  BY <1>1, LifecycleInit, LifecycleStep, ConfigInvCorrect, PTL DEF Spec
=============================================================================
