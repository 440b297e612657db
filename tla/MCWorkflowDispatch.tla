------------------------- MODULE MCWorkflowDispatch -------------------------
EXTENDS WorkflowDispatch

OneSignal == <<"signal">>
OneSleep == <<"sleep">>
SignalFirst == <<"signal", "activity", "sleep", "activity">>
ActivityFirst == <<"activity", "signal", "activity", "sleep">>
=============================================================================
