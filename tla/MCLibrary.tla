----------------------------- MODULE MCLibrary -----------------------------
(* A small instance of Library. *)
EXTENDS Library, TLC

MCTrim == [raw \in RawCategories |-> IF raw = "padded" THEN "fiction" ELSE raw]

(* "w2" occurs in every title and in the category, where it counts once per *)
(* book; "w1" comes and goes with the category.                             *)
MCInfoGrams == [info \in Infos |-> {"w2"}]
MCCategoryGrams == [raw \in RawCategories |-> IF raw = "fiction" THEN {"w1", "w2"} ELSE {}]

(* Accounts differ in nothing but their identity. *)
UserSymmetry == Permutations(Users)
=============================================================================
