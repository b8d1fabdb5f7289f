SPECIFICATION Spec
INVARIANT BoundSocketIsOpen
CHECK_DEADLOCK FALSE
