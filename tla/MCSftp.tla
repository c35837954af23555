------------------------------- MODULE MCSftp -------------------------------

(* Instances of Sftp for TLC.                                               *)
EXTENDS Sftp

\* One request stands for those that are forwarded alike.
MCOps == HandleOps \cup {"open", "opendir", "setstat", "symlink", "other", "stat"}
=============================================================================
