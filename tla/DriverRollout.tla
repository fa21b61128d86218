---------------------------- MODULE DriverRollout ----------------------------
(***************************************************************************)
(* What the VDOConfig controller promises of the rollout of one driver,    *)
(* whatever it does step by step: which version runs, when it may be       *)
(* installed and removed, and what the phase in the status may say.        *)
(*                                                                         *)
(*   - a driver is installed only next to its credentials, only in the     *)
(*     version that was chosen, and never over another one;                *)
(*   - a driver is removed only when another choice is made;               *)
(*   - the driver is looked at through a copy that may be behind, but      *)
(*     shows nothing that never was;                                       *)
(*   - the phase says Deployed or Configured only of a driver that is      *)
(*     there, or that the copy showed to the last look; Deployed ends a    *)
(*     failure, and Configured never follows a failure directly.           *)
(***************************************************************************)
CONSTANTS Versions, None

VARIABLES
    driver,    \* version of the driver that is installed
    provided,  \* its credentials are there
    chosen,    \* version that was chosen since the process started
    phase,     \* the phase in the status
    seen,      \* the copy shows a driver
    misled     \* the last look was at a copy of a driver that had been removed

vars == <<driver, provided, chosen, phase, seen, misled>>

Init ==
    /\ driver = None /\ provided = FALSE /\ chosen = None /\ phase = ""
    /\ seen = FALSE /\ misled = FALSE

\* The copy stays as it is, or is brought up to date.
Copied == seen' \in {seen, driver' # None}

Provide ==
    /\ ~provided /\ provided' = TRUE
    /\ UNCHANGED <<driver, chosen, phase, seen, misled>>

Choose ==
    /\ chosen = None
    /\ chosen' \in Versions
    /\ UNCHANGED <<driver, provided, phase, seen, misled>>

\* Another version, or none, is called for: the driver may go.
Replace ==
    /\ chosen # None
    /\ chosen' \in Versions
    /\ driver' \in {driver, None}
    /\ Copied
    /\ UNCHANGED <<provided, phase, misled>>

Install ==
    /\ driver = None /\ provided /\ chosen # None
    /\ driver' = chosen
    /\ Copied
    /\ UNCHANGED <<provided, chosen, phase, misled>>

CatchUp ==
    /\ seen' = (driver # None)
    /\ UNCHANGED <<driver, provided, chosen, phase, misled>>

Look ==
    /\ misled' = (seen /\ driver = None)
    /\ UNCHANGED <<driver, provided, chosen, phase, seen>>

Restart ==
    /\ chosen' = None
    /\ seen' = (driver # None)
    /\ UNCHANGED <<driver, provided, phase, misled>>

ReportProgress ==
    /\ phase' \in {"Configuring", "Failed"}
    /\ UNCHANGED <<driver, provided, chosen, seen, misled>>

ReportDeployed ==
    /\ driver # None \/ misled
    /\ phase = "Failed"
    /\ phase' = "Deployed"
    /\ UNCHANGED <<driver, provided, chosen, seen, misled>>

ReportConfigured ==
    /\ driver # None \/ misled
    /\ phase \in {"Configuring", "Deployed"}
    /\ phase' = "Configured"
    /\ UNCHANGED <<driver, provided, chosen, seen, misled>>

Next ==
    \/ Provide \/ Choose \/ Replace \/ Install \/ CatchUp \/ Look \/ Restart
    \/ ReportProgress \/ ReportDeployed \/ ReportConfigured

Spec == Init /\ [][Next]_vars
=============================================================================
