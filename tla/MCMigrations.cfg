\* Two runners of any commands, killed anywhere.
CONSTANTS
    Runners = {r1, r2}
    Commands = {"upgrade", "downgrade", "bootstrap"}
    MayCrash = TRUE
SYMMETRY RunnerSymmetry
SPECIFICATION Spec
INVARIANTS
    HeadIsComplete
    RowsBelongTogether
    LoneRunWorks
