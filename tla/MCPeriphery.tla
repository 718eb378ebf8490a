----------------------------- MODULE MCPeriphery -----------------------------
(* Texts with and without special characters, and every place to cut; two  *)
(* deployments of a project with two files of one name, and a library with *)
(* a third; a class that has the name of a level.                          *)
EXTENDS Periphery

MCContents == {<<>>, <<"x", "<", "&">>}
MCCaps == 14..90
MCNested ==
  LET Words == Body!Say IN
  {Body!Tagged("html", "b", Words \o Body!Tagged("html", "i", Words)) \o Words,
   Body!Tagged("html", "pre",
     Body!Tagged("html", "code", Body!Esc("html", <<"<", "x">>)) \o Words)}

MCRoots == {<<"srv">>, <<"home", "me">>}
MCPaths == {<<"srv", "app.py">>, <<"srv", "sub", "app.py">>,
            <<"home", "me", "app.py">>, <<"lib", "app.py">>}
MCTypes == {"ValueError", "ERROR"}
MCLevels == {"ERROR", "CRITICAL"}
MCFuncs == {"f", "g"}
MCLines == {1, 2}
=============================================================================
