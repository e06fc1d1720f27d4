-------------------------- MODULE MCDesktopDevices --------------------------
(* Values for the constants of DesktopDevices.                             *)
EXTENDS DesktopDevices, TLC

CONSTANTS key, place

\* No environment, one for Gemini, one for Vertex that completes the profile left
\* by a run with Gemini, and one with a blank that hides what the profile has.
MCEnvs ==
  { NoEnv,
    ("GEMINI_API_KEY" :> key) @@ NoEnv,
    ("LIVE_BACKEND" :> "vertex") @@ ("VERTEX_AUTH" :> "adc") @@ ("VERTEX_LOCATION" :> place) @@ NoEnv,
    ("GEMINI_API_KEY" :> Blank) @@ NoEnv }
=============================================================================
