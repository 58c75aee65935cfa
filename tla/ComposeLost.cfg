\* A creation may take effect although its answer is lost.
CONSTANT Settings <- MCSettings
SPECIFICATION Spec
INVARIANT NothingLeft
