------------------------------ MODULE MCCalls ------------------------------
(* Two servers, the second mounted at the first under "sub" and behind a     *)
(* forwarding transport under "far".                                         *)
EXTENDS Calls

MCMethods ==
    [get |-> [kind |-> "sync", params |-> "array"],
     job |-> [kind |-> "async", params |-> "none"],
     log |-> [kind |-> "notify", params |-> "none"]]

MCRegistered == [s \in Servers |-> IF s = "main" THEN {"get", "log"} ELSE {"get", "job", "log"}]

MCMounts == [s \in Servers |->
                IF s = "main" THEN [sub |-> "side", far |-> "proxy", self |-> "main"]
                ELSE [x \in {} |-> "side"]]

MCEHandlers == [s \in Servers |-> IF s = "main" THEN <<"log">> ELSE <<"rpc", "plain">>]
MCRouteEHandlers == [s \in Servers |-> IF s = "main" THEN <<"plain", "log">> ELSE << >>]

MCPrefixes == {<< >>, <<"sub">>}

Ask(name, notify, params) == [name |-> name, notify |-> notify, params |-> params]
MCProfiles ==
    {Ask(<<"get">>, FALSE, "array"),
     Ask(<<"/", "sub", "/", "/", "get", "/">>, FALSE, "object"),
     Ask(<<"sub", "/", "job">>, FALSE, "array"),
     Ask(<<"far", "/", "job">>, FALSE, "array"),
     Ask(<<"self", "/", "sub", "/", "log">>, TRUE, "array"),
     Ask(<<"far", "/", "log">>, TRUE, "array"),
     Ask(<<"log">>, TRUE, "array"),
     Ask(<<"rpc.list">>, FALSE, "array"),
     Ask(<<"rpc.other">>, FALSE, "array"),
     Ask(<<"what">>, FALSE, "array"),
     Ask(<<"what">>, TRUE, "array")}
MCPeerProfiles ==
    {Ask(<<"get">>, FALSE, "array"),
     Ask(<<"sub", "/", "job">>, FALSE, "array"),
     Ask(<<"/", "far", "/", "log">>, TRUE, "array")}
=============================================================================
