------------------------------- MODULE MCProxy -------------------------------
(* Two workers; one client makes every call, the other opens files. *)
EXTENDS Proxy

CONSTANTS c1, c2

MCOpened == {<<c1, c1>>, <<Nobody, Nobody>>}

MCMakes ==
    [c \in {c1, c2} |->
       IF c = c1 THEN {"OPEN", "CREAT", "CLOSE", "READ", "WRITE", "RM", "RENAME", "GETATTR", "MKDIR",
                       "RMDIR", "OPENDIR", "READDIR", "CLOSEDIR"}
       ELSE {"OPEN"}]
=============================================================================
