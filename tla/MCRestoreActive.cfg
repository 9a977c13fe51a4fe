\* One restore, walked by one process at a time.
INIT WorkspacesInit
NEXT WorkspacesNext
CONSTANTS
    Walkers = {v1}
    MaxWalks = 2
INVARIANT ActiveOnlyWhenImported
CHECK_DEADLOCK FALSE
