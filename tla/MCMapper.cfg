SPECIFICATION Spec
CONSTANTS
    Words <- MCWords
    IntOf <- MCIntOf
    WellFormed <- MCWellFormed
    MaxEdits = 3
INVARIANTS
    ReadsItsLanguage
