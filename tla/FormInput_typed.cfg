SPECIFICATION ScriptedSpec
CONSTANTS
    Texts <- MCTexts
    Boxes <- MCBoxes
    Touched = {"query"}
    TextCap = 2
    MaxActs = 5
INVARIANT SubmitsTyped
CHECK_DEADLOCK FALSE
