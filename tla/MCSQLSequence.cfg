SPECIFICATION Spec
CONSTANTS
    Sessions = {t1, t2}
    Definitions <- MCDefinitions
    Increments = {2}
    Maxima = {8}
    Starts = {0, 1}
    Nothing = Nothing
    MaxNumber = 11
INVARIANT TypeOK
INVARIANT NoRepeat
