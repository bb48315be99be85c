------------------------------ MODULE MCRelease ------------------------------
(* Release on two or three dispatches and two of the version-site groups.   *)
EXTENDS Release

MCFirstVersion == <<0, 1, 0>>
==============================================================================
