---------------------------- MODULE MCEvidenceFetch ----------------------------
(* A database whose rows refer to each other, a repository with directories below its *)
(* directories and two names of the author, with commits in common.                   *)
EXTENDS EvidenceFetch

MCPage == {"top", "a", "b", "c", "d", "e", "g"}
MCLinksAt ==
    [p \in Place |-> CASE p = "top" -> <<"a", "rows", "view">>
                       [] p = "a" -> <<"b">>
                       [] p = "b" -> <<"c", "top">>
                       [] p = "rows" -> <<"b", "d", "g">>
                       [] p = "view" -> <<"c">>
                       [] p = "c" -> <<"e">>
                       [] OTHER -> <<>>]

MCDir == {"x", "y", "x/z", "x/w", "y/z", "y/w", "x/z/z"}
MCDirsIn ==
    [d \in MCDir \cup {Root} |-> CASE d = Root -> <<"x", "y">>
                                   [] d = "x" -> <<"x/z", "x/w", "y">>
                                   [] d = "y" -> <<"y/z", "y/w">>
                                   [] d = "x/z" -> <<"x/z/z">>
                                   [] OTHER -> <<>>]
MCLevel == [d \in MCDir |-> CASE d \in {"x", "y"} -> 0 [] d = "x/z/z" -> 2 [] OTHER -> 1]
MCFilesIn == [d \in MCDir \cup {Root} |-> CASE d = Root -> {"f"} [] d = "x" -> {"g"} [] d = "y/w" -> {"h"} [] OTHER -> {}]
MCRanked == <<"f", "g", "h">>

MCAuthors == <<"mail", "login">>
MCCommitsOf == [a \in {"mail", "login"} |-> IF a = "mail" THEN <<4, 3, 1>> ELSE <<4, 3, 2, 1, 0>>]
MCFilesOf == [c \in 0..4 |-> CASE c = 3 -> {"g"} [] c = 0 -> {"h"} [] OTHER -> {}]

MCRequests == {<<"top">>, <<"e", "other", "repo">>}
=============================================================================
