----------------------------- MODULE MCSendPath -----------------------------
(***************************************************************************)
(* Instances of SendPath for TLC, and what the comment of SOCK_BUSY says.  *)
(***************************************************************************)
EXTENDS SendPath

\* SOCK_BUSY: "Socket is busy on processing the operation."  When send() returns
\* it on an open connection, a send of the socket is in fact under way.
BusyIsTrue ==
    [][\A s \in Tcp :
         At(s, "reading") /\ th'[s].res = "busy" => flight[s] \/ sr[s] # "ESTABLISHED"]_vars
=============================================================================
