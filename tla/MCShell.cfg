SPECIFICATION ShellSpec
CONSTANTS
    Jobs <- MCJobs
    Meanings <- MCMeanings
    OtherLines <- MCOtherLines
    Files = {"f", "g", "locked"}
    ReadOnly = {"locked"}
    Dirs = {"home", "usr"}
    Home = "home"
    Units = 3
    PipeSize = 2
    MaxStages = 4
    MaxFd = 7
    MaxNoise = 2
    MaxLines = 2
INVARIANTS
    WriteEndsReleased
    NothingLost
    PromptClean
    TwoDescriptorsLeft
    RedirectionsObeyed
    RunsWhatIsMeant
PROPERTIES
    PipelineEnds
CHECK_DEADLOCK FALSE
