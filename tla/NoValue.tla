------------------------------ MODULE NoValue -------------------------------
(* The value that stands for null, undefined and "nothing here" in the       *)
(* modules that are checked side by side.                                    *)

CONSTANT None

=============================================================================
