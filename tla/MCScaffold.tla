----------------------------- MODULE MCScaffold -----------------------------
(* Scaffold with a template of two files, .env.example first as in WalkDir. *)
EXTENDS Scaffold

CONSTANT Main

ShortTemplate == <<EnvExample, Main>>
=============================================================================
