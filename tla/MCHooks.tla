-------------------------------- MODULE MCHooks --------------------------------
(***************************************************************************)
(* Admission of observations, and the hooks that submit some of them, as   *)
(* two instances side by side: a behaviour is about one topic.  A hook     *)
(* waits for its observation to be admitted and applied, which HookIngest  *)
(* shows as one step and ObservationAdmission in full.                     *)
(***************************************************************************)
EXTENDS MCObservationAdmission, HookIngest

VARIABLE topic

Claude(event, session, agent, text) ==
    [runtime |-> "claude", event |-> event, session |-> session, agent |-> agent, text |-> text]
Codex(event, session, agent) ==
    [runtime |-> "codex", event |-> event, session |-> session, agent |-> agent, text |-> "none"]

\* Two mains, one agent below the second; StopFailure is not a Codex event.
SomePayloads ==
    {Claude("SessionStart", "m", "none", "none"), Claude("SessionEnd", "m", "none", "other"),
     Claude("Notification", "m", "none", "permission_prompt"), Claude("Stop", "w", "none", "none"),
     Claude("SubagentStart", "w", "a", "none"), Claude("SubagentStop", "w", "a", "none"),
     Codex("StopFailure", "m", "none")}

AllVars == <<vars, hookVars, topic>>

AllInit == Init /\ HookInit /\ topic \in {"admission", "hooks"}

AllNext ==
    \/ topic = "admission" /\ Next /\ UNCHANGED <<hookVars, topic>>
    \/ topic = "hooks" /\ HookNext /\ UNCHANGED <<vars, topic>>

AllSpec == AllInit /\ [][AllNext]_AllVars

=============================================================================
