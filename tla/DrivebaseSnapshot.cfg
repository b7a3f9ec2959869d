\* One daemon that publishes its status once or twice.
CONSTANT MaxPublish = 2
SPECIFICATION Spec
PROPERTY StatusOfOnePiece
CHECK_DEADLOCK FALSE
