----------------------------- MODULE MCWebPages -----------------------------
(* Addresses of each kind: the pages with and without a slash, a malformed  *)
(* one, data of a page and of none, route requests, the app's directory.   *)
EXTENDS WebPages

At(segs, slash) == [segs |-> segs, slash |-> slash]
SomePaths ==
  {Home, At(<<"listen">>, FALSE), At(<<"p", "x">>, FALSE), At(<<"p", "x">>, TRUE),
   At(<<"p", "%E0">>, FALSE),
   At(<<"__data.json">>, FALSE), At(<<"a", "__data.json">>, FALSE), At(<<"p", "x", "__data.json">>, FALSE),
   At(<<"a", "x.html__data.json">>, FALSE),
   At(<<"x.html", "__data.json">>, FALSE),
   At(<<"listen", "__route.js">>, FALSE), At(<<"p", "%E0", "__route.js">>, FALSE), At(<<"_app", "env.js">>, FALSE), At(<<"_app", "old.js">>, FALSE),
   At(<<"_app", "remote", "f">>, FALSE)}
=============================================================================
