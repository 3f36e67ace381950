---------------------------- MODULE MCListenPool ----------------------------
(***************************************************************************)
(* Instances of ListenPool for TLC, and what the example says of a server. *)
(***************************************************************************)
EXTENDS ListenPool

\* While a listening socket accepts connections one socket of its list listens,
\* or is connected and about to be replaced.
SomeoneListens ==
    Running => \A v \in Slots : Service(v) /\ slot[v].backlog > 0 =>
      \E c \in slot[v].clients : slot[c].sr = "LISTEN" \/ "CON" \in slot[c].ir
=============================================================================
