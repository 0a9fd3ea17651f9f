\* One runner that is never killed.
CONSTANTS
    Runners = {r1}
    Commands = {"upgrade", "downgrade", "bootstrap"}
    MayCrash = FALSE
SPECIFICATION Spec
PROPERTIES
    UpgradeAppliesAll
