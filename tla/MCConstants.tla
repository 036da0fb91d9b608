----------------------------- MODULE MCConstants -----------------------------
(* Instances of GlobalConstants for TLC. *)
EXTENDS GlobalConstants

Build_ == EnumElement(<<"Build">>, i8_type)
MCLeaves == {Digits("INTEGER_8", 1), Digits("INTEGER_8", 251), Digits("U_INTEGER_8", 251),
             Bool(TRUE), Bool(FALSE),
             EnumAccess(Build_, 0), EnumAccess(Build_, 1)}
MCEnums == [name \in {<<"Build">>} |-> 2]
=============================================================================
