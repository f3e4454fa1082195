------------------------ MODULE MCProviderSettings ------------------------
(* Finite instances of ProviderSettings for TLC.  Commands, providers,      *)
(* endpoints and keys are interchangeable: nothing orders them, and the     *)
(* properties are invariants and properties of single steps.                *)
EXTENDS ProviderSettings, TLC

Interchangeable ==
    Permutations(Workers) \cup Permutations(Providers)
      \cup Permutations(Endpoints) \cup Permutations(Keys)
=============================================================================
