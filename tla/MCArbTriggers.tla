---------------------------- MODULE MCArbTriggers ----------------------------
(* Two small instances of ArbTriggers for TLC, of which a behaviour follows     *)
(* one: the pools and those who read them, with every fault of the endpoints    *)
(* while no gas figure comes, so that whoever looks asks for a seed; and the    *)
(* batch with the jobs, where all that can be waited for happens.               *)
EXTENDS ArbTriggers

VARIABLE part

Pools == INSTANCE ArbTriggers WITH MaxMoves <- 0, Faults <- Faults \cap {"drop", "rpc"}

Jobs == INSTANCE ArbTriggers WITH Tasks <- {}, Ticks <- {0}, MaxMints <- 0

MCInit == part \in {"pools", "jobs"} /\ Init

MCNext ==
  \/ part = "pools" /\ Pools!Next /\ UNCHANGED <<part, gas, boot>>
  \/ part = "jobs" /\ Jobs!Next /\ UNCHANGED part

InJobs(A) == part = "jobs" /\ A

(* The loop runs what is ready and the scheduler its jobs; the gas endpoints    *)
(* and the store answer again and again. Said of the behaviours of the jobs,    *)
(* the only ones that are asked for progress.                                   *)
MCSpec ==
  /\ MCInit /\ [][MCNext]_<<part, vars>>
  /\ \A c \in Chains : WF_vars(InJobs(Jobs!Listen(c)))
  /\ WF_vars(InJobs(Jobs!Calculate))
  /\ \A s \in Seeders : WF_vars(InJobs(Jobs!Seed(s)))
  /\ WF_vars(InJobs(Jobs!RetryAllowed)) /\ WF_vars(InJobs(Jobs!GasJob))
  /\ WF_vars(InJobs(Jobs!BootGas)) /\ SF_vars(InJobs(Jobs!BootGas /\ gas'))
  /\ WF_vars(InJobs(Jobs!BootEvaluate))
  /\ SF_vars(InJobs(Jobs!BootEvaluate /\ ~boot'.pending))

-----------------------------------------------------------------------------
(* Every swap, refresh and transfer is looked at, whatever comes when.          *)
NewsIsLookedAt == part = "jobs" => NewsIsHandled

(* The bootstrap runs once, however often it fails before.                      *)
BootstrapEnds == part = "jobs" => BootstrapCompletes

=============================================================================
