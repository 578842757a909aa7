-------------------------- MODULE MCSessionBaseline --------------------------
(* Instances of SessionBaseline for TLC.                                   *)
EXTENDS SessionBaseline

\* Both servers, in different modes: every change shows in the server, in the
\* player and in the mode of what is written.
MCConfigs ==
    {[server |-> "bancho", mode |-> "osu"],
     [server |-> "titanic", mode |-> "taiko"]}

MCDefault == [server |-> "bancho", mode |-> "osu"]
==============================================================================
