SPECIFICATION Spec
INVARIANTS
    WrittenOnErased
