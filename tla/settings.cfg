SPECIFICATION Spec
CONSTANTS
    h1 = h1  h2 = h2
    Handlers = {h1, h2}
    EnvFiles <- FirstFiles
    AllTexts = {"", "plain", "two words", "#1", "antigravity", "high", "HIGH", "off", "port"}
    Texts = {"", "plain", "two words", "#1"}
    Levels = {"", "high", "HIGH", "loud"}
    Mappings <- Maps
    Faults = {"write", "kill"}
    MaxFaults = 1
    MaxSaves = 2
SYMMETRY Alike
INVARIANTS TypeOK SavedLasts
CHECK_DEADLOCK FALSE
