SPECIFICATION PageSpec
CONSTANTS
    MaxEdits = 2
    MaxRevisions = 1
    MaxOpened = 2
    MaxStarts = 2
    MaxDeployments = 2
    MaxWriteFaults = 1
    MaxWaiting = 1
INVARIANTS EditsAreKept RevisionsAreKept FilesFollow ConfirmedIsServed
CHECK_DEADLOCK FALSE
