------------------------- MODULE MC_RegistryClient -------------------------
(***************************************************************************)
(* An instance of RegistryClient for TLC: two goroutines share a Client    *)
(* and make two calls each over a network that may lose requests and      *)
(* replies; one subject with two texts, so that it holds up to two         *)
(* versions; one text both sides parse and one the registry accepts but    *)
(* avro.Parse in this process rejects.                                     *)
(***************************************************************************)
EXTENDS RegistryClient

MC_Ids == {1, 2}

=============================================================================
