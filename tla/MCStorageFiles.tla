--------------------------- MODULE MCStorageFiles ---------------------------
(***************************************************************************)
(* StorageFiles with a few files and requests for TLC.                     *)
(***************************************************************************)
EXTENDS StorageFiles, TLC

FileSymmetry == Permutations(Attachments) \cup Permutations(Requests)

=============================================================================
