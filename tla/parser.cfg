SPECIFICATION Spec
CONSTANTS
    Texts <- PageTexts
    Layouts <- TwoLayouts
    MaxElements = 3
CHECK_DEADLOCK FALSE
INVARIANTS UniqueInSourceOrder DateIsReal
