\* The limits of the program, and 130 s that Linux takes to give up a dial on which
\* nothing is heard; seven sessions do not come up.
SPECIFICATION FairSpec
CONSTANTS
    DialLimit = 100
    SystemLimit = 1300
    AckLimit = 100
    HelloLimit = 150
    Minute = 600
    MinBackoff = 30
    MaxBackoff = 600
    Attempts = 3
    MaxFailures = 7
INVARIANTS
    TypeOK
    SlowsDown
    UpMeansServed
PROPERTIES
    ComesBack
