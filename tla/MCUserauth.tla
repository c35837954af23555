------------------------------ MODULE MCUserauth ------------------------------

(* Instances of Userauth for TLC.                                           *)
EXTENDS Userauth

\* A server that knows passwords and keys, and one that knows questions only.
MCAllowances == {{"password", "publickey"}, {"interactive"}}
=============================================================================
