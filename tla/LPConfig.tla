------------------------------ MODULE LPConfig ------------------------------
(***************************************************************************)
(* The start of the process up to a configuration: loadConfig with its two *)
(* passes over the command line, the configuration file between them, the  *)
(* checks, and the directory and network serverConfig derives.  A set of   *)
(* options is a function on the names given; networks are flags, so a file *)
(* and a command line add up.  A path is the sequence of its components,   *)
(* "/" or "~" in front; a macaroon's path stands for its node's network.   *)
(***************************************************************************)
EXTENDS Integers, Sequences, FiniteSets

CONSTANTS CmdLines,       \* command lines the process may be started with
          Files,          \* what the configuration file may hold
          Cwds,           \* directories the process may be started in
          HomeDir,        \* the user's home directory
          Second,         \* a time.Second, in ticks
          MinSize,        \* 0.0004 dcr
          MaxSize,        \* what dcrlnd takes, (1 << 30) - 1 atoms
          Word            \* 2^64, at a scale with the sizes

Networks == {"mainnet", "testnet", "simnet"}

\* A directory is a path, an amount and a duration are integers, and an amount is
\* an int64.
ASSUME ConfigAssumption ==
    /\ Second \in Nat \ {0} /\ MinSize \in Nat /\ MaxSize \in Nat
    /\ Word \in Nat /\ MinSize < MaxSize /\ MaxSize < Word
    /\ Cwds \subseteq Seq(STRING)
    /\ \A c \in CmdLines : c.kind \in {"ok", "done", "bad"}
    /\ \A f \in Files : f.kind \in {"ok", "missing", "broken"}
    /\ \A c \in CmdLines \cup Files :
           /\ c.nets \subseteq Networks
           /\ "appdata" \in DOMAIN c.opts => c.opts.appdata \in Seq(STRING)
           /\ \A o \in DOMAIN c.opts \ {"appdata", "configfile", "lnmacaroonpath"} :
                  c.opts[o] \in Int
           /\ \A o \in DOMAIN c.opts \cap {"minchansize", "maxchansize"} :
                  c.opts[o] < Word

VARIABLES stage,          \* where _main is
          status,         \* how the process ended
          cwd, args, file,
          cfg             \* the options and networks in force

configVars == <<stage, status, cwd, args, file, cfg>>

NoOptions == [kind |-> "ok", nets |-> {}, opts |-> <<>>]

\* AppData has no default of its own.
Defaults == [appdata |-> <<>>, minchansize |-> MinSize, maxchansize |-> MaxSize,
             maxnbchans |-> 2, invoicefeerate |-> 1,
             invoiceexpiration |-> 3600 * Second, checkinterval |-> 3600 * Second,
             minchanlifetime |-> 604800 * Second, minwalletbalance |-> 1,
             lnmacaroonpath |-> "mainnet"]

Given(options, o) == o \in DOMAIN options.opts

\* A parser sets the options it is given and leaves the others as they were.
Over(given, opts) ==
    [o \in DOMAIN given \cup DOMAIN opts |->
        IF o \in DOMAIN given THEN given[o] ELSE opts[o]]

\* configuredNetwork, for flags that do not conflict.
NetworkOf(nets) == IF nets = {} THEN "mainnet" ELSE CHOOSE n \in nets : TRUE
ActiveNet == NetworkOf(cfg.nets)

BlockTime == [mainnet |-> 300 * Second, testnet |-> 120 * Second, simnet |-> Second]

\* cleanAndExpandPath, filepath.Abs.
Expand(path) == IF path /= <<>> /\ Head(path) = "~" THEN HomeDir \o Tail(path)
                                                    ELSE path
Absolute(path) == IF path /= <<>> /\ Head(path) = "/" THEN path ELSE cwd \o path

\* The home directory loadConfig keeps its data and log directories in.
DataHome ==
    IF Given(args, "appdata") THEN Absolute(Expand(args.opts.appdata))
    ELSE IF Given(file, "appdata") THEN Absolute(Expand(file.opts.appdata))
    ELSE Append(HomeDir, ".dcrlnlpd")

\* RootDir as the system resolves it: AppData is the option as it was given.
RootDir == Absolute(Append(cfg.opts.appdata, ActiveNet))

\* uint64(amount), of an amount that may be negative.
ToUint64(amount) == amount % Word

\* int64(InvoiceExpiration.Seconds())
InvoiceSeconds == cfg.opts.invoiceexpiration \div Second

ConfigInit ==
    /\ stage = "down"
    /\ status = "none"
    /\ cwd = <<>>
    /\ args = NoOptions
    /\ file = NoOptions
    /\ cfg = [opts |-> Defaults, nets |-> {}]

-----------------------------------------------------------------------------

Exit(how) == stage' = "exited" /\ status' = how

Goto(next) == stage' = next /\ UNCHANGED status

\* The operator starts the process, with whatever the file holds by now.
Start ==
    /\ stage = "down"
    /\ Goto("preparse")
    /\ cwd' \in Cwds
    /\ args' \in CmdLines
    /\ file' \in Files
    /\ UNCHANGED cfg

\* The process is gone, and its memory with it.
Gone ==
    /\ stage = "exited"
    /\ stage' = "down" /\ status' = "none"
    /\ cwd' = <<>>
    /\ args' = NoOptions /\ file' = NoOptions
    /\ cfg' = [opts |-> Defaults, nets |-> {}]

\* The first pass: help and version end here, and errors other than a conflict
\* of networks wait for the second.  A default file that is missing is made, all
\* of it comments, which may fail.
PreParse ==
    /\ stage = "preparse"
    /\ IF args.kind = "done" THEN Exit("ok")
       ELSE \/ Cardinality(args.nets) <= 1 /\ Goto("read")
            \/ Cardinality(args.nets) > 1 /\ Exit("error")
            \/ ~Given(args, "configfile") /\ Exit("error")
    /\ UNCHANGED <<cwd, args, file, cfg>>

\* The macaroon of the command line's network becomes the default.
CmdLineDefaults == Over([lnmacaroonpath |-> NetworkOf(args.nets)], Defaults)

\* A slip: the file is read last.
FileOverCmdLine ==
    [opts |-> Over(file.opts, Over(args.opts, CmdLineDefaults)),
     nets |-> args.nets \cup file.nets]

\* The file over the defaults, and the command line once more over both.
Merged ==
    [opts |-> Over(args.opts, Over(file.opts, CmdLineDefaults)),
     nets |-> args.nets \cup file.nets]

\* A file that cannot be opened is only warned of.  The data directory may
\* fail to be made.
ReadFileAndArgs ==
    /\ stage = "read"
    /\ \/ /\ file.kind /= "broken" /\ args.kind /= "bad"
          /\ cfg' = Merged
          /\ Goto("validate")
       \/ Exit("error") /\ UNCHANGED cfg
    /\ UNCHANGED <<cwd, args, file>>

\* A slip: the lifetime is checked as the other durations are.
ValidDurations ==
    LET o == cfg.opts
    IN  /\ Cardinality(cfg.nets) <= 1
        /\ o.minchansize >= MinSize /\ o.maxchansize <= MaxSize
        /\ o.maxnbchans > 0 /\ o.invoicefeerate > 0
        /\ o.invoiceexpiration >= Second /\ o.checkinterval >= Second
        /\ o.minchanlifetime >= Second
        /\ o.minwalletbalance >= 0

ValidOptions ==
    LET o == cfg.opts
    IN  /\ Cardinality(cfg.nets) <= 1
        /\ o.minchansize >= MinSize /\ o.maxchansize <= MaxSize
        /\ o.maxnbchans > 0 /\ o.invoicefeerate > 0
        /\ o.invoiceexpiration >= Second /\ o.checkinterval >= Second
        /\ o.minchanlifetime >= BlockTime[ActiveNet]
        /\ o.minwalletbalance >= 0

\* The TLS files, the log and the profiler's address may be refused too.
Validate ==
    /\ stage = "validate"
    /\ \/ ValidOptions /\ Goto("boot")
       \/ Exit("error")
    /\ UNCHANGED <<cwd, args, file, cfg>>

LoadConfig == PreParse \/ ReadFileAndArgs \/ Validate

-----------------------------------------------------------------------------

Loaded == stage \notin {"down", "exited", "preparse", "read", "validate"}

\* Whatever mixture of file and command line the process runs with, its values
\* are those the rest of the server is built on: an invoice lives for some
\* seconds and no longer than its node's entry in the table, a channel has a
\* block's lifetime on the network in use before it may be closed, and sizes
\* are sizes (loadConfig, serverConfig).  An upper size given as a negative
\* number is not among them: it passes, and becomes no limit at all.
RunsOnValidConfig ==
    Loaded =>
        /\ ToUint64(cfg.opts.minchansize) >= MinSize
        /\ cfg.opts.maxchansize >= 0 => ToUint64(cfg.opts.maxchansize) <= MaxSize
        /\ cfg.opts.maxnbchans > 0 /\ cfg.opts.invoicefeerate > 0
        /\ InvoiceSeconds > 0
        /\ InvoiceSeconds * Second <= cfg.opts.invoiceexpiration
        /\ cfg.opts.minchanlifetime \div BlockTime[ActiveNet] > 0
        /\ cfg.opts.checkinterval > 0 /\ cfg.opts.minwalletbalance >= 0

\* "Parse command line options again to ensure they take precedence": a file
\* never overrides one, and never moves the process to another network than the
\* command line's (loadConfig).
CommandLineWins ==
    stage = "boot" =>
        /\ \A o \in DOMAIN args.opts \cap DOMAIN cfg.opts : cfg.opts[o] = args.opts[o]
        /\ args.nets /= {} => ActiveNet \in args.nets

\* "Location where files are stored" (dcrlnpd.conf:15): the records are kept in
\* the directory the data and the logs are kept in, network by network.
RecordsAreInAppData == stage = "boot" => RootDir = Append(DataHome, ActiveNet)
=============================================================================
