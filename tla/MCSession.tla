------------------------------ MODULE MCSession ------------------------------
(* The users main adds, one wrong password, and three commands: one that     *)
(* prints nothing, one that prints a little and one that prints more than    *)
(* fits into a packet.                                                       *)
EXTENDS Session, TLC

MCPasswords  == "admin" :> "admin" @@ "user" :> "password"
MCPublicKeys == [u \in {} |-> {}]
MCOutput     == "true" :> 0 @@ "ls" :> 100 @@ "cat" :> 40000
MCLogins     == {<<"user", "password">>, <<"user", "admin">>}
=============================================================================
