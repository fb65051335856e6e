\* Two accounts that are set up, changed, reloaded and unloaded at the same time.
SPECIFICATION FairSpec
CONSTANTS
    e1 = e1
    e2 = e2
    Entry <- MCEntry
    Platform <- MCPlatform
    MaxChanges = 2
INVARIANTS ServicesWhileLoaded NoServiceLeftBehind LoadedIsCurrent
PROPERTY ChangesTakeEffect
