------------------------------ MODULE MCProbes ------------------------------
(* The operator's machine and two servers, one of which the mesh knows by   *)
(* another name than the command line; one port, one domain, one container. *)
EXTENDS ProbeSession

MCHostNames == [laptop |-> "laptop", srv1 |-> "srv1", srv2 |-> "box"]
MCTargetLists == {<< >>, <<"srv1">>, <<"srv2", "srv1">>}
MCPlugin(name, kind) == <<[name |-> name, kind |-> kind]>>
MCPluginLists ==
    {<< >>, MCPlugin("port", "works"), MCPlugin("custom", "bare"),
     MCPlugin("custom", "broken"), MCPlugin("custom", "raises")}
MCSelections == {<< >>, <<"port">>, <<"tailscale", "port", "tailscale">>, <<"custom">>}
MCLocalTools == {{}, {"port", "tailscale"}}

=============================================================================
