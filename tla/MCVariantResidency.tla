------------------------- MODULE MCVariantResidency -------------------------
EXTENDS VariantResidency

(* Images, videos and chains of one or two shots, from the given names.     *)
Plain(kind, names) == {[kind |-> kind, model |-> m, shots |-> <<>>] : m \in names}
Chains(names) ==
    {[kind |-> "chain", model |-> m, shots |-> s] :
        m \in names, s \in [1..1 -> Names] \cup [1..2 -> Names]}

CONSTANT Tops   (* what the requests' "model" fields may be                 *)

MCRequests == Plain("image", Tops) \cup Plain("video", Tops) \cup Chains(Tops)
=============================================================================
