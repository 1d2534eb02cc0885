------------------------------ MODULE MCStatus ------------------------------
(* Bytes of four bits, three of them a number's; the last group is cut by the
   width of the word, as the fifth group of seven is cut by 32. *)
EXTENDS StatusProperties

SomeBytes == {0, 1, 3, Group - 1, Group, 2 * Group - 1}
=============================================================================
