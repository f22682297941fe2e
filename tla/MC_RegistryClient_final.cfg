\* test_web_ui_per_user_limits_final.py run twice: a failure after step 4
\* leaves testuser123's override, and the next run fails at step 3.
CONSTANTS
    Scripts = {"final"}
    MaxRuns = 2
    MaxFaults = 1
    DefaultLimit = 5
SPECIFICATION Spec
INVARIANT CleanRunPasses
CHECK_DEADLOCK FALSE
