------------------------------ MODULE MCLinkedList ------------------------------
(* A small instance of the linked list for TLC.                            *)
EXTENDS LinkedList

Args == -6..6
=============================================================================
