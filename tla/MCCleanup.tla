------------------------------- MODULE MCCleanup -------------------------------
(* A cache and a file in the root, and a cache in a package.  A cache is genuine or its
   marker cannot be read. *)
EXTENDS CleanupSession, TLC

CONSTANTS root, cache, pkg, nested, file

MCPaths == {root, cache, pkg, nested, file}
MCAbove == [p \in MCPaths |-> CASE p = root -> {} [] p = nested -> {root, pkg} [] OTHER -> {root}]
MCPosition == root :> 1 @@ cache :> 2 @@ pkg :> 3 @@ nested :> 4 @@ file :> 5

MCOutside == [parts |-> [tag |-> {"valid"}, readme |-> {}, v |-> {"directory"}], bytes |-> 1]
MCContents == {MCOutside, [MCOutside EXCEPT !.parts.tag = {"unreadable"}, !.bytes = 2]}
MCDefault == [nodes |-> 100, files |-> 100]

\* The whole tree takes 11 observations of nodes and 3 of files: enough, or one too few.
MCLimits == {[nodes |-> 11, files |-> 3], [nodes |-> 10, files |-> 3], [nodes |-> 11, files |-> 2]}
===============================================================================
