----------------------------- MODULE MCUpdated -----------------------------
EXTENDS Updated

Three   == {"v1", "v2", "v3"}
ThreeOS == {"os1", "os2", "os3"}
Needs   == [v1 |-> "os1", v2 |-> "os2", v3 |-> "os3", mine |-> "os1"]

Budget(k, l, f, e, p, s) ==
    {[kills |-> k, losses |-> l, fails |-> f, edits |-> e, pushes |-> p, skips |-> s]}
Flashes == Budget(0, 1, 1, 0, 2, 1)
Faults  == Budget(1, 1, 1, 1, 1, 0) \cup Flashes
=============================================================================
