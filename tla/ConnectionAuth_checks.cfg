SPECIFICATION Spec
CONSTANT MaxPrompts = 3
INVARIANTS GivenIsAuthorized RelayLeavesNothing
PROPERTIES NothingAfterTheEnd AuthenticationEnds
CHECK_DEADLOCK FALSE
