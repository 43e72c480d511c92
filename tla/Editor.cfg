SPECIFICATION Spec
CONSTANT MaxOthers = 1
PROPERTY OthersEditsKept
CHECK_DEADLOCK FALSE
