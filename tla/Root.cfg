SPECIFICATION Spec
CONSTANTS
    Listed <- MCListed
    Resolves <- MCResolves
    Registered = {"s1"}
    Folders = {"d", "a", "b"}
    Above <- MCAbove
    Default = "d"
    SavedDests <- MCSavedDests
    Inputs = {"", "i"}
    Expands <- MCExpands
    Margin = 1
    Space = 2
    None = None
    Nothing = Nothing
    MaxFetches = 2
    MaxAdds = 2
    MaxDisk = 1
    MaxChecks = 2
    MaxOpened = 2
    MaxJobs = 4
    Plans = {"add", "disk", "prefs", "configure", "browse", "settings"}
INVARIANTS
    KeysGoToShown
    NothingHangs
PROPERTIES
    CancelledChangesNothing
    CreatesWhatItAsked
    AnswersComeHome
CHECK_DEADLOCK FALSE
