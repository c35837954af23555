------------------------------ MODULE MCChannel ------------------------------

(* Instances of Channel for TLC.                                            *)
EXTENDS Channel

\* Twelve bytes, one more than the window, and as much as one byte of another code.
OneWay == [e \in Ends |-> IF e = "near" THEN 12 ELSE 0]
SomeJunk == [e \in Ends |-> IF e = "near" THEN 1 ELSE 0]
=============================================================================
