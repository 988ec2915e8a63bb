----------------------------- MODULE ApiProcess -----------------------------
(***************************************************************************)
(* Three parts of the HTTP process that share no tables: the tokens of a   *)
(* connected company, what users keep, and the start beside the worker.  A *)
(* behaviour is about one of them, its scene.                              *)
(***************************************************************************)
EXTENDS SourceTokens, Workspace, Startup

CONSTANT Scenes   \* a subset of {"tokens", "workspace", "startup"}

VARIABLE scene

vars == <<scene, tokenVars, workspaceVars, startVars>>

Init ==
  /\ scene \in Scenes
  /\ TokensInit /\ WorkspaceInit /\ StartupInit
  /\ scene # "startup" => column = "none"

Tokens == scene = "tokens" /\ TokensNext
            /\ UNCHANGED <<scene, workspaceVars, startVars>>
Work == scene = "workspace" /\ WorkspaceNext
            /\ UNCHANGED <<scene, tokenVars, startVars>>
Start == scene = "startup" /\ StartupNext
            /\ UNCHANGED <<scene, tokenVars, workspaceVars>>

Next == Tokens \/ Work \/ Start

Spec == Init /\ [][Next]_vars
=============================================================================
