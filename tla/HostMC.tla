------------------------------- MODULE HostMC -------------------------------
(***************************************************************************)
(* An instance for TLC of the programs of one host: daemons over the same  *)
(* socket paths (Daemon) and agent-session supervisors under one runtime   *)
(* root (AgentSession).  They share no file, so one run explores them side *)
(* by side: `program', fixed in Init, says which one moves.                *)
(***************************************************************************)
EXTENDS Daemon, Integers

CONSTANTS Sessions, StaleGrace, None

\* staleGrace is a positive duration; None is nobody's session.
ASSUME HostAssumption ==
    /\ StaleGrace \in Nat \ {0}
    /\ None \notin Sessions

VARIABLES program, dir, proc, relay, child, sweeping

avars == <<dir, proc, relay, child, sweeping>>

Agent == INSTANCE AgentSession

MCInit ==
    /\ program \in {"daemon", "session"}
    /\ Init /\ (program # "daemon" => \A n \in Sockets : path[n] = NoFile)
    /\ Agent!Init

MCNext ==
    \/ program = "daemon" /\ Next /\ UNCHANGED <<program, avars>>
    \/ program = "session" /\ Agent!Next /\ UNCHANGED <<program, vars>>

\* In Init nothing that is fair is enabled, so the program that does not move
\* is not asked to.
MCSpec ==
    /\ MCInit /\ [][MCNext]_<<program, vars, avars>>
    /\ Fairness /\ Agent!Fairness

\* Bounds: two daemons contend for one name at a time; supervisors begin in
\* order, and signals are sent to one that is alone.
Narrow ==
    /\ Cardinality({d \in Daemons : process[d] # "new"}) > 1 =>
          Cardinality({n \in Sockets : \E d \in Daemons : server[<<d, n>>] # "off"}) = 1
    /\ \A s, e \in Sessions : s < e /\ proc[e].step # "new" => proc[s].step # "new"
    /\ \A s, e \in Sessions :
          s # e /\ proc[s].hups + proc[s].terms > 0 => proc[e].step = "new"

-----------------------------------------------------------------------------
(* The properties of the supervisors.                                      *)

\* No sweep removes the directory of a session in use (AgentSession).
LiveSessionKept == Agent!LiveSessionKept

\* A sweep leaves nothing of the sessions that were dead and old (AgentSession).
SweepComplete == Agent!SweepComplete

\* When Run has returned, child, relay and credential are gone (AgentSession).
CapabilityEnds == Agent!CapabilityEnds

\* A failed relay and a second SIGTERM end a session (AgentSession).
SupervisionEnds == Agent!SupervisionEnds
=============================================================================
