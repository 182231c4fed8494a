\* Two children are enough to lose a signal.
SPECIFICATION Spec
CONSTANT
    MaxForks = 2
INVARIANT
    CountsActive
