SPECIFICATION Spec
CONSTANTS
    Mains = {m1, m2}
    MaxStarts = 2
    MaxRewrites = 1
    MaxCalls = 1
    MaxLosses = 1
PROPERTIES UncertainRetiresNothing LiveComesBack
