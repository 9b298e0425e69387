SPECIFICATION Spec
CONSTANT Size = 4
INVARIANTS Inv Deduplicated
