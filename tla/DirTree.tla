------------------------------ MODULE DirTree -------------------------------
(***************************************************************************)
(* What the file system promises about names: a set of entries, each in a  *)
(* directory that is itself in the tree, changed by one entry at a time,   *)
(* and a saved tree that a crash returns to.                               *)
(***************************************************************************)
EXTENDS Naturals, FiniteSets

CONSTANTS ROOT, Inums, MaxLinks

VARIABLES tree, saved

Dirs(t) == {ROOT} \cup {e.inum : e \in {e \in t : e.isdir}}
To(t, i) == {e \in t : e.inum = i}
In(t, i) == {e \in t : e.dir = i}

\* A new name in a directory of the tree: of a new directory or file, or one more of a file.
Link ==
  \E e \in tree' \ tree :
    /\ tree' = tree \cup {e}
    /\ e.dir \in Dirs(tree) /\ e.inum \in Inums \ Dirs(tree)
    /\ \A x \in In(tree, e.dir) : x.name # e.name
    /\ e.isdir => To(tree, e.inum) = {}
    /\ Cardinality(To(tree', e.inum)) <= MaxLinks
    /\ saved' = saved

\* A name goes; a directory's, when nothing is in it.
Unlink ==
  \E e \in tree :
    /\ tree' = tree \ {e}
    /\ e.isdir => In(tree, e.inum) = {}
    /\ saved' = saved

Save == saved' = tree /\ tree' = tree

Lose == tree' = saved /\ saved' = saved

Init == saved = tree /\ \A e \in tree : e.dir = ROOT /\ ~e.isdir

Spec == Init /\ [][Link \/ Unlink \/ Save \/ Lose]_<<tree, saved>>
=============================================================================
