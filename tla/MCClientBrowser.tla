-------------------------- MODULE MCClientBrowser --------------------------
(***************************************************************************)
(* Two servers: "a" listens within the first range of two ports, "b" is    *)
(* found only through a second range.  "a" replies with the host name the  *)
(* user may type or configure, so that its reply is filtered; "b" replies  *)
(* with a name of its own.                                                 *)
(***************************************************************************)
EXTENDS ClientBrowser

MCServer == {"a", "b"}
MCHostName == [s \in MCServer |-> CASE s = "a" -> "host_a" [] s = "b" -> "host_b"]
MCIp == [s \in MCServer |-> CASE s = "a" -> "ip_a" [] s = "b" -> "ip_b"]
MCServerName == [s \in MCServer |-> CASE s = "a" -> "host_a" [] s = "b" -> "Lab"]
MCTcpPort == [s \in MCServer |-> 9]
MCUdpPort == [s \in MCServer |-> CASE s = "a" -> 1 [] s = "b" -> 2]
MCConfigServers == {<<"", 9>>, <<"host_a", 9>>}
MCTexts == {[form |-> "ok", addr |-> "host_a", port |-> 9],
            [form |-> "bad_port", addr |-> "", port |-> 0]}
=============================================================================
