SPECIFICATION Spec
CONSTANT MaxInstances = 4
INVARIANT TypeOK
INVARIANT StateWhileUsed
INVARIANT FreedKeepsNothing
PROPERTY FreedUnlessPinned
\* A module that is never freed, or has been, does nothing more.
CHECK_DEADLOCK FALSE
