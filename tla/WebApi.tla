--------------------------------- MODULE WebApi ---------------------------------
(***************************************************************************)
(* The modules that live on the owner goroutine and share no state with each *)
(* other: message ports, abort signals, the module loader, the fs module and  *)
(* URLs.  A behaviour is one of one part, chosen at the start: steps of two    *)
(* parts commute, so interleaving them would reach nothing that a property of   *)
(* one part could tell.  The instances are at the end.                          *)
(***************************************************************************)
EXTENDS MessagePorts, AbortSignals, Loader, FsAccess, UrlParams, TLC

VARIABLE part
vars == <<part, portVars, signalVars, loaderVars, fsVars, urlVars>>

Parts == {"ports", "signals", "loader", "fs", "url"}

Init ==
    /\ part \in Parts
    /\ PortsInit /\ SignalsInit /\ LoaderInit /\ FsInit /\ UrlInit
    /\ part # "loader" => content = [f \in Files |-> CHOOSE c \in Contents[f] : TRUE]
    /\ part # "fs" => mode = "broken" /\ ~linkPolicy

Next ==
    /\ UNCHANGED part
    /\ \/ part = "ports" /\ PortsNext /\ UNCHANGED <<signalVars, loaderVars, fsVars, urlVars>>
       \/ part = "signals" /\ SignalsNext /\ UNCHANGED <<portVars, loaderVars, fsVars, urlVars>>
       \/ part = "loader" /\ LoaderNext /\ UNCHANGED <<portVars, signalVars, fsVars, urlVars>>
       \/ part = "fs" /\ FsNext /\ UNCHANGED <<portVars, signalVars, loaderVars, urlVars>>
       \/ part = "url" /\ UrlNext /\ UNCHANGED <<portVars, signalVars, loaderVars, fsVars>>

Spec == Init /\ [][Next]_vars

WebTypeOK == PortsTypeOK /\ SignalsTypeOK /\ LoaderTypeOK /\ FsTypeOK /\ UrlTypeOK

-------------------------------------------------------------------------------
\* The instance of the loader: /app/a.js, a package m that is a file in the nearest
\* node_modules or a directory in the one above, whose main is a directory, lib.js, and a
\* module named m.
MCContents ==
    File(<<"app", "a">>, "js") :> {"source"}
    @@ File(<<"app", "node_modules", "m">>, "js") :> {"absent", "unreadable"}
    @@ File(<<"node_modules", "m", "package">>, "json") :> {"source", "broken"}
    @@ File(<<"node_modules", "m", "lib.js", "index">>, "json") :> {"source"}
MCMain == <<"node_modules", "m">> :> File(<<"node_modules", "m", "lib">>, "js")
MCBaseDir == <<"app">>
MCGlobalFolders == << <<"global">> >>
MCSpecifiers == {[path |-> TRUE, at |-> <<"a">>, ext |-> ""],
                 [path |-> FALSE, at |-> <<"m">>, ext |-> ""]}
MCDefinitions == {[name |-> Name("m"), aliases |-> {Name("node:m")}],
                  [name |-> Name("node:m"), aliases |-> {}]}
MCNatives == {[name |-> Name("m"), aliases |-> {Name("m"), Name("node:m")}]}
MCBare == Name("m") :> Name("m") @@ Name("node:m") :> Name("m")

\* Of the file system: a root with a directory, a file and a link out of it.
MCNode(k) == [kind |-> k, to |-> <<>>]
MCTree == <<>> :> MCNode("dir") @@ <<"root">> :> MCNode("dir")
    @@ <<"root", "d">> :> MCNode("dir") @@ <<"root", "f">> :> MCNode("file")
    @@ <<"root", "l">> :> [kind |-> "link", to |-> <<"out">>]
    @@ <<"out">> :> MCNode("dir")
    @@ <<"out", "f">> :> [kind |-> "link", to |-> <<"out", "x">>]    \* to what is not there
MCRoot == <<"root">>
MCFsPaths == {<<"d">>, <<"l">>, <<"d", "f">>, <<"l", "f">>}

\* Of the URLs: two names whose order by UTF-16 units is not that by code points.
MCParamNames == {<<65535>>, <<65536>>}
================================================================================
