------------------------------- MODULE MCApp --------------------------------
(***************************************************************************)
(* A small instance of App: two accounts' addresses, one password, photos  *)
(* with the id "1" as the map makes them.                                  *)
(***************************************************************************)
EXTENDS App, TLC

CONSTANTS one, auto1

MCTexts == {"", "a@b", "c@d", "secret", "Password", "Confirm password"}
MCcount == "" :> 0 @@ "a@b" :> 3 @@ "c@d" :> 3 @@ "secret" :> 6
             @@ "Password" :> 8 @@ "Confirm password" :> 16
MCEmailInputs == {"a@b", "c@d"}
MCOneEmail == {"a@b"}
MCPasswordInputs == {"secret"}
MCintForString == [k \in Keys |-> IF k = one THEN 1 ELSE -1]
=============================================================================
