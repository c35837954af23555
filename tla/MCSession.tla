------------------------------ MODULE MCSession ------------------------------

(* Instances of Session for TLC.                                            *)
EXTENDS Session

\* A hacker asks for one kind of service; two of its kind can meet.
MCWishSets == {{"pty", "shell", "env"}, {"exec"}, {"direct"}, {"forward"}}
=============================================================================
