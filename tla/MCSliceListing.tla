--------------------------- MODULE MCSliceListing ---------------------------
(* What the callers of the instance of SliceListing ask for. *)
EXTENDS SliceListing

Asked == {[name |-> "mine", states |-> {"StableOK"}], [name |-> "", states |-> {}]}

=============================================================================
