--------------------------- MODULE MCProjectStore ---------------------------
(***************************************************************************)
(* ProjectStore for TLC: four requests about one project with two files.   *)
(* Whole writes of either file, a patch that leaves one as the caller's    *)
(* revision has it, and a patch that removes both, so that every branch of *)
(* writeProject is taken.                                                  *)
(***************************************************************************)
EXTENDS ProjectStore, TLC

CONSTANTS p, q, v, w, n, taken

Text(x) == [r \in Regions |-> x]
Sole(x) == [NoFiles EXCEPT ![p] = Text(x)]
Whole(name, files) == [base |-> NoToken, name |-> name, whole |-> TRUE,
                       files |-> files, removed |-> {}]
Patch(files, removed) == [base |-> NoToken, name |-> n, whole |-> FALSE,
                          files |-> files, removed |-> removed]

MCBodies == {Whole(n, Sole(v)),
             Whole(n, [NoFiles EXCEPT ![q] = Text(w)]),
             Whole(taken, Sole(w)),
             Patch(Sole(w), {}),
             Patch(NoFiles, {p, q})}

TxSymmetry == Permutations(Txs)
=============================================================================
