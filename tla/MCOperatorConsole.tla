------------------------- MODULE MCOperatorConsole -------------------------
(* An instance of OperatorConsole for TLC.                                  *)
EXTENDS OperatorConsole

(* Two settings of one search, and a website without a search; the search  *)
(* may have been made before there were fingerprints.                      *)
SearchOf == [small |-> "bottles", large |-> "bottles", website |-> NoSearch]
OnePast == <<"small">>
=============================================================================
