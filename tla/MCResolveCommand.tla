-------------------------- MODULE MCResolveCommand --------------------------
(***************************************************************************)
(* ResolveCommand with three files, two of which share a stem, so that any *)
(* two arguments may be one path and two paths may be one source.          *)
(***************************************************************************)
EXTENDS ResolveCommand

MCPaths == {[dir |-> "a", stem |-> "shops"], [dir |-> "b", stem |-> "shops"],
            [dir |-> "a", stem |-> "merged"]}

MCInputs == {<<>>, <<"row">>, <<"row", "row">>, <<"blank", "row">>,
             <<"row", "not JSON">>, <<"no name">>}
============================================================================
