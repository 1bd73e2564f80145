---------------------------- MODULE MCAnalysisTab ---------------------------
EXTENDS AnalysisTab

TwoJobs == {"job1", "job2"}
TwoSlots == {1, 2}
OneType == {"sensitivity"}
=============================================================================
