---------------------------- MODULE MCLoginService ---------------------------
(***************************************************************************)
(* LoginService for TLC.  Every process runs either a login program that   *)
(* the policy names or a program that it does not name.                    *)
(***************************************************************************)
EXTENDS LoginService

LoginProgram == [regular |-> TRUE, owner |-> Root, writable |-> FALSE,
                 executable |-> TRUE, fingerprint |-> "login", uid |-> Root]

MCPrograms == {LoginProgram, [LoginProgram EXCEPT !.fingerprint = "other"]}

MCRules ==
  << [service |-> "faceauth-test", purpose |-> "Login",
      caller |-> "RootOrTargetUser", executables |-> <<"other">>],
     [service |-> "faceauth-test", purpose |-> "Test",
      caller |-> "RootOnly", executables |-> <<"login", "su">>] >>

===============================================================================
