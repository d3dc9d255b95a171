SPECIFICATION FairSpec
CONSTANTS
    Codes = {7, 8}
    MaxOutput = 3
    MaxWrite = 2
INVARIANT NothingLeft
PROPERTIES IsCall CallReturns
