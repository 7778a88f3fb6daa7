--------------------------- MODULE MCTopologyTree ---------------------------
(* Small instances of TopologyTree. *)
EXTENDS TopologyTree, TLC

CONSTANTS n1, n2, s1, s2

\* Two servers with a stream each; two streams of one server.
Apart == (s1 :> n1) @@ (s2 :> n2)
Same == (s1 :> n1) @@ (s2 :> n1)

\* Two servers at the same time.
TwoServers == [nodeOf |-> Apart, vids |-> {1}, readOnly |-> {FALSE}, beats |-> 1,
               overlap |-> FALSE, together |-> 2]

\* A server that reconnects after its stream has ended.
Reconnect == [nodeOf |-> Same, vids |-> {1, 2}, readOnly |-> BOOLEAN, beats |-> 2,
              overlap |-> FALSE, together |-> 1]

\* A server that reconnects before its stream has ended.
ReconnectEarly == [nodeOf |-> Same, vids |-> {1}, readOnly |-> {FALSE}, beats |-> 3,
                   overlap |-> TRUE, together |-> 1]

AllSettings == {TwoServers, Reconnect, ReconnectEarly}
=============================================================================
