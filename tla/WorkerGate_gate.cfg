SPECIFICATION FairSpec
INVARIANTS TypeOK MarkedWhileAlive UpdateQuiet NoMixedCode
PROPERTIES OneJobsProcesses StopEnds
