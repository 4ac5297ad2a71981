SPECIFICATION Spec
CONSTANTS
    Threads = {c1, c2}
    Types = {TEMPERATURE, HUMIDITY}
    Values = {35, 50}
    None = None
    Uncached = Uncached
    MaxUpdates = 2
    MaxFaults = 1
    MaxCrashes = 1
SYMMETRY Symmetry
INVARIANTS
    AnswersSinceStart
    AskedOnce
PROPERTIES
    SettledForGood
