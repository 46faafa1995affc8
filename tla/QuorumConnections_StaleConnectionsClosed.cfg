\* connections to quorums outside the window, against section 4.3
CONSTANTS
    DkgInterval = 3
    MineDelay = 2
    KeepOld = 2
    MaxRounds = 4
    CanFail = FALSE
SPECIFICATION Spec
PROPERTIES StaleConnectionsClosed
