--------------------------- MODULE MCSourceModels ---------------------------
(* Samples of every model, in which the fields vary independently. *)
EXTENDS SourceModels
CONSTANT Variants
MCSends == [n \in Names |-> {Models[n].sample[k] : k \in 0 .. Variants - 1}]
=============================================================================
