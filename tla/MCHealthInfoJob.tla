-------------------------- MODULE MCHealthInfoJob --------------------------
(* One startHealthInfo job on a small instance: the fetch of MCHealthFetch *)
(* with 2 tries and streams of up to 2 objects.                            *)
EXTENDS HealthInfoJob

MCMaxTries == 2
MCMaxObjects == 2
MCDocVersions == {"v1"}
MCProtoVersions == {"3"}
=============================================================================
