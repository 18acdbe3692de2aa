------------------------------ MODULE MCAttention ------------------------------
(* Model values for the inbox. *)
EXTENDS Attention, TLC

CONSTANTS approve, admission, c1, c2, f

\* The valve item is composed in two ways, the escalated one as another repo's.
ItemContents == approve :> {c1, c2} @@ admission :> {f}
===============================================================================
