--------------------------------- MODULE MCCalc ---------------------------------
(* Five bits, the least width in which every digit fits: 16 wraps to the    *)
(* least integer and 31 to minus one.                                       *)
EXTENDS Calc
=============================================================================
