--------------------------- MODULE MCFileService ---------------------------
(* Small instances of FileService.                                           *)
EXTENDS FileService

Alike == Permutations(Base) \cup Permutations(Tag)
=============================================================================
