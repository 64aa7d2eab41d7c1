----------------------------- MODULE MCLinkedList -----------------------------
EXTENDS LinkedList, TLC

Symmetry == Permutations(Element)
=============================================================================
