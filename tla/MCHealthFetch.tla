--------------------------- MODULE MCHealthFetch ---------------------------
(* serverHealthInfo on a small instance: 3 tries instead of 10, streams of *)
(* up to 2 objects, one document version, one protocol version and two    *)
(* payloads, enough for a field to survive from an earlier object.         *)
EXTENDS HealthFetch

MCMaxTries == 3
MCMaxObjects == 2
MCDocVersions == {"v1"}
MCProtoVersions == {"3"}
=============================================================================
