-------------------------- MODULE MCActivityTasks --------------------------
EXTENDS ActivityTasks
=============================================================================
