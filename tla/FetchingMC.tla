----------------------------- MODULE FetchingMC -----------------------------
(* Two URLs, three comments or none at first on pages of two: the fetch     *)
(* asks for the first URL, and comments are answered until that changes.    *)
EXTENDS Fetching

CONSTANT First

OneStart ==
  FetchInit /\ start = First /\ pages = "page" /\ posted \in {0, MaxComments}
MCSpec == OneStart /\ [][FetchNext]_fetchVars /\ WF_fetchVars(Fetches)
=============================================================================
