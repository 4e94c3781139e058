SPECIFICATION Spec
CONSTANTS
    plain = plain
    fixed = fixed
    squashed = squashed
    both = both
    Export = {plain, fixed, squashed, both}
    ReadOnly = {fixed, both}
    RootSquash = {squashed, both}
    Inner <- Nested
    Outside = Outside
    NoFh = NoFh
    RootFh = RootFh
    StaleFh = StaleFh
INVARIANTS
    HandlesInsideRoot
    OneHandleKeepsReadOnly
    SquashedRootChangesNothing
