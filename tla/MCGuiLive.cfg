SPECIFICATION Spec
CONSTANT Nil = Nil
PROPERTIES LinkSettles Reconnects
CHECK_DEADLOCK FALSE
