----------------------------- MODULE MCOneShot ------------------------------
(* A one-shot whose transactions carry the names of its actors.            *)
EXTENDS OneShot

CONSTANT o1

MCSignature == Actor \cup {NoSignature}
=============================================================================
