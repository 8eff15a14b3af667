---------------------------------- MODULE MCVfs ----------------------------------
(* Two short names, one of them also given without its slash, the root,    *)
(* and a name of more than 63 characters whose first 63 are "p".           *)
EXTENDS Vfs, TLC

SomePaths == {[parts |-> <<"a">>, creates |-> TRUE],
              [parts |-> <<"p", "q">>, creates |-> TRUE],
              [parts |-> <<>>, creates |-> FALSE],
              [parts |-> <<"a">>, creates |-> FALSE],
              [parts |-> <<"b">>, creates |-> TRUE]}
SomeChunks == {<<1>>, <<2, 1>>}
TaskSymmetry == Permutations(Tasks)
=============================================================================
