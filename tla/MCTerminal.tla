------------------------------ MODULE MCTerminal -------------------------------
(* Two users, one of whom administers, and a working directory they share. *)
EXTENDS Terminal

\* Names that definitions of the code spell out are strings here too.
MCName == {"User", "System", "AppData", "Trash", "admin", "al", "app", "f", "g", "..",
           "cp", "mv", "rm", "cat", "cd", "chdir", "echo", "touch", "unknown", "|", ">", ">>"}
MCUser == {"admin", "al"}
MCGrant == {<<"app", "al">>, <<"file-manager", "al">>}
MCPaths == {<<"User", "al", "f">>, <<"System", "f">>,
            <<"User", "admin", "System", "f">>, <<"AppData", "app", "f">>}
MCPiece == {"newline", "error", "path", "a"}
MCUpload == {<<"a">>}

Symmetry == Permutations(Proc)

Root(v) == [from |-> "root", tail |-> v]
HomeOf(v) == [from |-> "home", tail |-> v]
Here(v) == [from |-> "cwd", tail |-> v]

Token(op, cmd, path) == [op |-> op, cmd |-> cmd, path |-> path]
Cmd(c) == Token("word", c, Here(<<c>>))
Arg(path) == Token("word", "unknown", path)
Op(o) == Token(o, o, Here(<<o>>))
Bar == Op("|")
To == Op(">")
Onto == Op(">>")

AlF == Arg(Root(<<"User", "al", "f">>))
AppF == Arg(Root(<<"AppData", "app", "f">>))
MCLine == {
  <<Cmd("cp"), AlF, Arg(Here(<<"g">>))>>,
  <<Cmd("touch"), AlF>>,
  <<Cmd("cat"), AlF, Onto, Arg(HomeOf(<<"AppData", "app", "f">>)), Bar, Cmd("rm"), AlF>>,
  <<Cmd("echo"), Onto, Arg(Root(<<"System", "f">>)), Bar, To, AlF, Bar, Cmd("echo"), To, AlF>>,
  <<Cmd("cd"), Bar, Bar, Cmd("mv"), Arg(Here(<<"f">>)), Arg(Here(<<"g">>))>>,
  <<Cmd("chdir"), Arg(Here(<<"..", "al">>)), Bar, Cmd("rm"), AppF, To>>,
  <<Cmd("mv"), Arg(Root(<<"Trash", "User", "al", "f">>)), AlF, Bar, Cmd("touch"), AppF>>,
  <<Bar, Cmd("echo"), To, Onto, Onto, AppF, Bar, Cmd("unknown"), Bar, Cmd("rm"), AppF>>,
  <<>> }
=============================================================================
