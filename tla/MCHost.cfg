SPECIFICATION MCSpec
INVARIANTS ToolsSound RoutesSound
PROPERTIES StepsSound HostEnds
CHECK_DEADLOCK FALSE
