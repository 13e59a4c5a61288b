----------------------------- MODULE MCAioCopy -----------------------------
(* A few buffers and a file of more blocks than buffers. *)
EXTENDS AioCopy

=============================================================================
