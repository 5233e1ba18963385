------------------------------- MODULE MCXsk -------------------------------
(***************************************************************************)
(* The rings of an AF_XDP path, the sockets, and the perf ring buffer.     *)
(* They share no state: `mode` says which of them moves.                   *)
(***************************************************************************)
EXTENDS XskRing, XskSocket, PerfRing

VARIABLE mode

mvars == <<xvars, kvars, rvars, mode>>

\* The choices of the components that do not move are fixed.
MCInit ==
    /\ mode \in {"rings", "sockets", "perf"}
    /\ XInit /\ SInit /\ RInit
    /\ mode # "rings" => prod.ring[0] = CHOOSE f \in Frames : TRUE
    /\ mode # "sockets" => link = None

MCNext ==
    /\ UNCHANGED mode
    /\ \/ mode = "rings" /\ XNext /\ UNCHANGED <<kvars, rvars>>
       \/ mode = "sockets" /\ SNext /\ UNCHANGED <<xvars, rvars>>
       \/ mode = "perf" /\ RNext /\ UNCHANGED <<xvars, kvars>>

\* In the other modes no action of XFairness is enabled.
MCSpec ==
    /\ MCInit /\ [][MCNext]_mvars
    /\ XFairness
    /\ WF_mvars(mode = "perf" /\ ReaderStep /\ UNCHANGED <<xvars, kvars, mode>>)

=============================================================================
