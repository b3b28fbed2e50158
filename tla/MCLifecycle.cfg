\* Seven command lines with seven files, two listeners and one HTTP request; the
\* process may be started again for ever.  Two ticks make a second.
CONSTANTS
    CmdLines <- MCCmdLines
    Files <- MCFiles
    Cwds <- MCCwds
    HomeDir <- MCHomeDir
    Second = 2
    MinSize = 4
    MaxSize = 10
    Word = 64
    Listeners = {l1, l2}
    HttpReqs = {r1}
SPECIFICATION FairSpec
INVARIANT LifecycleTypeOK
INVARIANT RunsOnValidConfig
INVARIANT CommandLineWins
INVARIANT NetworksAgree
INVARIANT NoServiceDiesAlone
INVARIANT CleanExit
INVARIANT CutOnlyLate
PROPERTY ShutdownEnds
PROPERTY FatalErrorEnds
