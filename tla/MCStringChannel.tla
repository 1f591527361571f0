---------------------------- MODULE MCStringChannel ----------------------------
(* Lines for TLC: an empty one, one that fits into the buffer with its size *)
(* and its end, and one that does not.                                      *)
EXTENDS StringChannel

Lines == {<<>>,
          <<<<"upper", 0>>>>,
          <<<<"space", 0>>, <<"lower", 0>>, <<"upper", 0>>>>}
=============================================================================
