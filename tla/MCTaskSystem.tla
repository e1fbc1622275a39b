---------------------------- MODULE MCTaskSystem ---------------------------
EXTENDS HevTaskSystem

MCTasks == 1 .. 3
MCFirst == {1, 2}
MCPriority == <<1, 2, 1>>
MCSleeps == {1}
============================================================================
