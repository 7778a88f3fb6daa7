---------------------------- MODULE MCHeartbeat ----------------------------
(* Two masters, a volume server and a client, for TLC. *)
EXTENDS Heartbeat
CONSTANTS m1, m2

\* The server alone with two masters that change their minds, ...
Failover == [seeds |-> <<m1, m2>>, vids |-> {1}, views |-> 2, breaks |-> 0, inFlight |-> 1, client |-> FALSE]

\* ... and with messages sent before an answer is read.
Late == [seeds |-> <<m1, m2>>, vids |-> {1}, views |-> 1, breaks |-> 0, inFlight |-> 2, client |-> FALSE]

\* A client of one master that loses and regains the lead.
Regain == [seeds |-> <<m1>>, vids |-> {1}, views |-> 2, breaks |-> 0, inFlight |-> 1, client |-> TRUE]

\* Connections that fail.
Failing == [seeds |-> <<m1>>, vids |-> {1}, views |-> 0, breaks |-> 1, inFlight |-> 2, client |-> TRUE]

\* Two volumes that come and go.
Volumes == [seeds |-> <<m1>>, vids |-> {1, 2}, views |-> 0, breaks |-> 0, inFlight |-> 1, client |-> TRUE]

\* A client that follows the lead from one master to the other.
Follow == [seeds |-> <<m1, m2>>, vids |-> {1}, views |-> 1, breaks |-> 0, inFlight |-> 1, client |-> TRUE]

AllSettings == {Failover, Late, Regain, Failing, Volumes, Follow}
=============================================================================
