-------------------------- MODULE MCIngestPipeline --------------------------
(* Instances of IngestPipeline for TLC. *)
EXTENDS IngestPipeline, TLC

\* Workers are interchangeable, and so are clients.
Symmetry == Permutations(Workers) \cup Permutations(Clients)
=============================================================================
