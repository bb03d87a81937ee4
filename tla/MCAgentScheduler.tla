--------------------------- MODULE MCAgentScheduler ---------------------------
(***************************************************************************)
(* Instances of AgentScheduler for TLC.                                    *)
(***************************************************************************)
EXTENDS AgentScheduler, TLC

NoEvents == [e \in Events |-> 0]

\* One loop, one of everything but a forced check.
LoopLimit == [edit |-> 1, manual |-> 1, dryRun |-> 1, force |-> 0, crash |-> 1]

\* Two loops that are not punctual: a forced check, and an edit, between them.
OverlapLimit == [NoEvents EXCEPT !["edit"] = 1, !["force"] = 1]
=============================================================================
