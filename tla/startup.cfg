SPECIFICATION Spec
CONSTANTS
    NoFile = noFile
    Unset = unset
    Given = noFile
INVARIANTS TypeOK CheckedConfigStarts DryRunStarts ToggledConfigStarts
