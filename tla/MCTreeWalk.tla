---------------------------- MODULE MCTreeWalk ----------------------------
(* A file in the root, a directory with a file, and three ranks. *)
EXTENDS TreeWalk

Flat == [dirs |-> {Root}, files |-> {<<"f">>, <<"g">>}]
Nested == [dirs |-> {Root, <<"d">>}, files |-> {<<"f">>, <<"d", "f">>}]
Job(tool, tree, hosts, old, new) ==
    [tool |-> tool, dirs |-> tree.dirs, files |-> tree.files,
     hosts |-> hosts, old |-> old, new |-> new]

\* The name "n1" is part of the name "n10".
MCLineNames(line, host) == line = host \/ (line = "n10" /\ host = "n1")
MCHash(path) == CASE path = Root -> 0 [] path = <<"f">> -> 1 [] path = <<"d">> -> 2
                  [] path = <<"g">> -> 3 [] OTHER -> 5

Three == <<"n10", "n1", "n2">>
MCJobs ==
    {Job(tool, tree, Three, Three, Three) : tool \in {"preload", "flush", "shrink"}, tree \in {Flat, Nested}}
    \cup {Job("expand", tree, Three, <<"n10", "n1">>, Three) : tree \in {Flat, Nested}}
    \cup {Job("rebuild", tree, Three, <<"n10", "n1">>, <<"n1", "n2">>) : tree \in {Flat, Nested}}
    \cup {Job(tool, Nested, <<"n1", "n1", "n2">>, <<"n1">>, <<"n2", "n1">>) :
             tool \in {"active_reader", "active_writer"}}

=============================================================================
