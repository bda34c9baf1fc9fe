----------------------------- MODULE MCContainers ------------------------------
(* Pulls, listings and creations on one image. *)
EXTENDS Containers

CONSTANTS i1, p1, p2, c1, c2, n

\* Names that definitions of the code spell out are strings here too.
MCStoragePath == <<"nas">>

Volume(host, isPath, allowed) == [host |-> host, isPath |-> isPath, allowed |-> allowed]
Own == Volume(<<".", "data">>, TRUE, TRUE)
App == Volume(<<"AppData", "..", "app">>, TRUE, TRUE)
Upwards == Volume(<<"..", "..", "..", "data">>, TRUE, TRUE)
Typo == Volume(<<>>, FALSE, FALSE)

User(absolute, names) == [absolute |-> absolute, names |-> names]

Request(name, user, volumes, autoStart) ==
  [name |-> name, image |-> i1, user |-> user, volumes |-> volumes,
   autoStart |-> autoStart, exceeds |-> {}]

\* Users with no name, with names that start at the root, below the storage path
\* and elsewhere, with one that goes up, and with a plain one.
MCTemplate ==
  { Request(n, NoName, <<App, Upwards>>, "unsaid"),
    Request(n, User(TRUE, <<"nas", "x">>), <<Upwards, Typo>>, "yes"),
    Request(NoName, User(FALSE, <<"..", "x">>), <<Own, Upwards>>, "no"),
    Request(NoName, User(TRUE, <<"etc">>), <<App, Own, Upwards>>, "yes"),
    [Request(NoName, User(FALSE, <<"al">>), <<Own>>, "yes") EXCEPT !.exceeds = {"memory"}] }
=============================================================================
