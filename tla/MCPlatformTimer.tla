-------------------------- MODULE MCPlatformTimer --------------------------
(* Small instances of PlatformTimer for TLC.                               *)
EXTENDS PlatformTimer

CONSTANTS a, b, c

=============================================================================
