------------------------------- MODULE MCTasks -------------------------------
(* A creator, two executors of different departments and a minister.        *)
EXTENDS TaskLifecycle

CONSTANTS creator, colleague, outsider, minister

\* The creator and his colleague belong to one department, the outsider to another.
DeptKinds ==
  [pair \in Staff \X Staff |->
     IF (pair[1] = outsider) = (pair[2] = outsider) THEN "internal" ELSE "department"]

Signers ==
  [office \in SignRoles |->
     IF office = "source_minister" THEN {minister, colleague} ELSE {minister, creator}]
=============================================================================
