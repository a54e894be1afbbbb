---------------------------- MODULE MCFileStore ----------------------------
(***************************************************************************)
(* Small instances of FileStore for TLC: a file under the name a.txt, its  *)
(* next name "a (1).txt", and what else may be under them.                 *)
(***************************************************************************)
EXTENDS FileStore, TLC

CONSTANTS w1, w2, w3, c, d, pa, pa1, a, a1, a2, b, u1, u2, u3, blank, gone

\* Two transfers of one a.txt, and one of another a.txt.
TwoOfOne == (w1 :> c) @@ (w2 :> c) @@ (w3 :> d)
TwoAndOne == (c :> 2) @@ (d :> 1)
OneTemp == (w1 :> pa) @@ (w2 :> pa) @@ (w3 :> pa)
OneName == (w1 :> <<a, a1>>) @@ (w2 :> <<a, a1>>) @@ (w3 :> <<a, a1>>)
ThreeUuids == (w1 :> u1) @@ (w2 :> u2) @@ (w3 :> u3)

\* Different files of one name arrive one after the other; transfers of one file
\* may overlap.
OthersInTurn ==
  \A w, v \in Writers :
    pc[w] \in Busy /\ pc[v] \in Busy /\ Share(w, v) => Content[w] = Content[v]

\* a.txt and "a (1).txt" from two transfers.
OtherContent == (w1 :> c) @@ (w2 :> d)
OtherTemp == (w1 :> pa) @@ (w2 :> pa1)
OtherTries == (w1 :> <<a, a1, a2>>) @@ (w2 :> <<a1, b>>)

\* Two different files of the name a.txt.
SameTemp == (w1 :> pa) @@ (w2 :> pa)
SameTries == (w1 :> <<a, a1>>) @@ (w2 :> <<a, a1>>)
TwoUuids == (w1 :> u1) @@ (w2 :> u2)
===========================================================================
