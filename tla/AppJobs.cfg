CONSTANT MaxJobs = 2
SPECIFICATION Spec
INVARIANTS WindowTells NeverStuck OneWriter
PROPERTY JobPageEnds
\* MaxJobs jobs have been started and are over.
CHECK_DEADLOCK FALSE
