---------------------------- MODULE MCEnrichment ----------------------------
(* Small instances of Enrichment for TLC. *)
EXTENDS Enrichment

\* Leads are alike as long as none of them is singled out by NoDomain.
LeadSymmetry == Permutations(Leads) \cup Permutations(Verdicts)

\* Requests are alike.
RequestSymmetry == Permutations(Requests)
=============================================================================
