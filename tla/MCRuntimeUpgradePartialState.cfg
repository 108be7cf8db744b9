\* Two runs: a download that fails, then a rerun on the same directory.
CONSTANTS
    EnvValues = {"unset", "", "true", "false", "1"}
    MaxRuns = 2
SPECIFICATION Spec
INVARIANTS ForkOffUsesCompleteState
