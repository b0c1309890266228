CONSTANT Apps = {1, 2}
SPECIFICATION Spec
INVARIANT ConnectsOnlyWhenAccepted
