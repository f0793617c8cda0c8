SPECIFICATION FairExecSpec
CONSTANTS
    Ids <- MCIds
    Specs <- MCSpecs
    Texts <- MCTexts
    NewExec <- MCExec
    WorkflowID <- MCWorkflowID
    Now = 5
INVARIANTS
    VerdictCorrect
    GrayIsCallChain
    UnlockExact
    SkipWalkExact
    RecordsReadBack
PROPERTIES
    AcceptedSettles
CHECK_DEADLOCK FALSE
