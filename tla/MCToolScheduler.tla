-------------------------- MODULE MCToolScheduler ---------------------------
(* An instance of ToolScheduler: the file src/A, spelled three ways, and    *)
(* the tree src, read and written, next to a shell command and a call that  *)
(* declares nothing.                                                        *)
EXTENDS ToolScheduler

MCSegment == {"", "src", "a", "A"}
MCEmpty == ""
MCFold == [s \in MCSegment |-> IF s = "A" THEN "a" ELSE s]
MCNode == {<<>>, <<"src">>, <<"src", "a">>, <<"a">>, <<"src", "src">>}

MCDeclared ==
    { {},
      {All},
      {File("read", <<"src", "A">>, FALSE)},
      {File("write", <<"src", "", "a", "">>, FALSE)},
      {File("search", <<"src", "">>, TRUE)},
      {File("readwrite", <<"src">>, TRUE)},
      {File("read", <<"a">>, FALSE), File("write", <<"A">>, FALSE)} }
=============================================================================
