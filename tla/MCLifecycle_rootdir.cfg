\* The same choices; the process need only be configured.
CONSTANTS
    CmdLines <- MCCmdLines
    Files <- MCFiles
    Cwds <- MCCwds
    HomeDir <- MCHomeDir
    Second = 2
    MinSize = 4
    MaxSize = 10
    Word = 64
    Listeners = {l1}
    HttpReqs = {r1}
SPECIFICATION Spec
INVARIANT RecordsAreInAppData
