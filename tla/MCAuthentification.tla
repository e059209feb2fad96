------------------------- MODULE MCAuthentification -------------------------
(***************************************************************************)
(* A small instance of Authentification: one or two addresses, a password  *)
(* that is too short and one of exactly the minimal length, the storyboard's*)
(* texts, and two requests.                                                *)
(***************************************************************************)
EXTENDS Authentification, TLC

MCTexts == {"", "a@b", "c@d", "short", "secret", "Password", "Confirm password"}
MCcount == "" :> 0 @@ "a@b" :> 3 @@ "c@d" :> 3 @@ "short" :> 5 @@ "secret" :> 6
             @@ "Password" :> 8 @@ "Confirm password" :> 16
MCEmailInputs == {"", "a@b", "c@d"}
MCOneEmail == {"", "a@b"}
MCPasswordInputs == {"", "short", "secret"}
=============================================================================
