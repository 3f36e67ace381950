----------------------------- MODULE MCNetTask -----------------------------
(***************************************************************************)
(* NetTask with either the setters or the sockets at work, and in either   *)
(* mode at start; together they have too many states for one run.          *)
(***************************************************************************)
EXTENDS NetTask

VARIABLE who    \* "setters" or "sockets"

mcvars == <<vars, who>>

MCInit == Init /\ who \in {"setters", "sockets"}

MCNext == /\ UNCHANGED who
          /\ \/ Task \/ PhyLink \/ Elapse
             \/ who = "setters" /\ User
             \/ who = "sockets" /\ SocketInterrupt

MCSpec == /\ MCInit /\ [][MCNext]_mcvars
          /\ WF_mcvars(Task /\ UNCHANGED who) /\ SF_mcvars(Due /\ UNCHANGED who)
          /\ WF_mcvars(User /\ ~Call /\ UNCHANGED who)
=============================================================================
