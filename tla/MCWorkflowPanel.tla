-------------------------- MODULE MCWorkflowPanel --------------------------
EXTENDS WorkflowPanel, TLC
CONSTANTS a, t0, t1, t2, b, p, q
MCInput == {a}
MCTask == {t0, t1, t2}
MCOutput == {b}
MCFileLists == {{a, t1, t2}, {a, t1, b}, {a, t0}}
MCPort == {p, q}
MCinPorts == t0 :> {} @@ t1 :> {p} @@ t2 :> {p, q}
MCoutPorts == t0 :> {} @@ t1 :> {p, q} @@ t2 :> {p}
=============================================================================
