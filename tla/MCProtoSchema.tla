---------------------------- MODULE MCProtoSchema ----------------------------
(***************************************************************************)
(* An instance of ProtoSchema for TLC.                                     *)
(***************************************************************************)
EXTENDS ProtoSchema, TLC

Interchangeable == Permutations(FileNames) \cup Permutations(SchemaProjects)
                   \cup Permutations(Uploaders) \cup Permutations(Readers)
=============================================================================
