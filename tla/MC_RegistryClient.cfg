\* web_ui, simple and comprehensive, two runs, one fault per run: a run the
\* registry served as spec.md says passes, and a passing run had its writes made.
CONSTANTS
    Scripts <- MCPassScripts
    MaxRuns = 3
    MaxFaults = 1
    DefaultLimit = 5
SPECIFICATION Spec
INVARIANTS TypeOK CleanRunPasses WritesConfirmed
CHECK_DEADLOCK FALSE
