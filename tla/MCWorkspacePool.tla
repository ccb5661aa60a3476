----------------------------- MODULE MCWorkspacePool -----------------------------
(* Small instances of WorkspacePool, with and without the client that goes   *)
(* away: fewer databases may be open than profiles exist, so that opening    *)
(* one evicts another, and more handles than fit, so that a profile is       *)
(* opened again after it closed.                                             *)
EXTENDS WorkspacePool

CONSTANTS p1, p2, p3, h1, h2, h3, r1, r2, none
================================================================================
