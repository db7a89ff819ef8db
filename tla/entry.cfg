SPECIFICATION Spec
CONSTANTS
    Tabs = {t1, t2}
    Rungs = 2
    MaxTries = 3
    MaxVersions = 2
    MaxLost = 1
INVARIANTS TypeOK ConsentIsWhatWasShown OneCountForOneTry ToldIsTrue
PROPERTIES LinkKeptWhileGood
SYMMETRY Symmetry
CHECK_DEADLOCK FALSE
