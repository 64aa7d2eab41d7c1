------------------------------ MODULE MCFinddupl ------------------------------
EXTENDS Finddupl

(* Six different entries, one of them at two addresses. The word codes and *)
(* Word make the hashes wrap around, and the houses spread them unevenly:  *)
(* most entries stay together when the table is resized.                   *)
MCCode == [w \in {"johnson", "Salem", "97620"} |->
             CASE w = "johnson" -> 21 [] w = "Salem" -> 44 [] w = "97620" -> 9]

Addr(house, street) ==
  [surname |-> "johnson", house |-> house, street |-> street,
   city |-> "Salem", zip |-> "97620"]

MCAddress == {Addr(h, "Fir Ln") : h \in {34, 36, 38, 40, 42, 43}}
             \cup {Addr(34, "Orange St")}
=============================================================================
