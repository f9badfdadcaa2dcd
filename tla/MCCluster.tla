----------------------------- MODULE MCCluster -----------------------------
(***************************************************************************)
(* The Kubernetes experiments, checked in one run: the live-time budget of  *)
(* a job (LiveDeadline), what its driver creates and removes (K3Driver),    *)
(* one measured episode (PilotRun), and the jobs of the whole campaign with *)
(* their intake and ledger (Campaign).  They share no state; a behaviour is *)
(* one of the component part, and the variables of the others keep one      *)
(* initial value.                                                           *)
(***************************************************************************)
EXTENDS LiveDeadline

VARIABLES
  part,
  host, d, step, manifest, runs, kills,
  pc, window, load, future, active, seen, restarts, files, dirty,
  jobs, repo, crashes, frozen

deadlineVars == vars
hostVars == <<host, d, step, manifest, runs, kills>>
episodeVars == <<pc, window, load, future, active, seen, restarts, files, dirty>>
campaignVars == <<jobs, repo, crashes, frozen>>
allVars == <<part, deadlineVars, hostVars, episodeVars, campaignVars>>

Host == INSTANCE K3Driver WITH
  Scenarios <- {"smoke", "pilot", "package-check", "cleanup"}, MaxRuns <- 2, MaxKills <- 1,
  pc <- step

Episode == INSTANCE PilotRun WITH MaxRestarts <- 1

\* The campaign of one base that may be carried over, and the campaign of two bases
\* of which one depends on the other.  Two jobs make up either, so a third may
\* stand beside a freeze: refused, interrupted, or never taken in.
Carried == INSTANCE Campaign WITH
  Bases <- {"1b"}, Repeats <- 1, Names <- {[base |-> "1b", carry |-> c] : c \in {0, 1}},
  CEILING <- 2, Limit <- 5, Replays <- 2, MaxJobs <- 3, MaxCrashes <- 1

Dependent == INSTANCE Campaign WITH
  Bases <- {"2", "3"}, Repeats <- 1, Names <- {[base |-> b, carry |-> 0] : b \in {"2", "3"}},
  CEILING <- 2, Limit <- 5, Replays <- 2, MaxJobs <- 3, MaxCrashes <- 1

AllInit ==
  /\ part \in {"deadline", "host", "episode", "carried", "dependent"}
  /\ Init /\ Host!Init /\ Episode!Init /\ Carried!Init
  /\ part # "deadline" => driver = "pilot"
  /\ part # "host" => host.network = "none"

AllNext ==
  /\ UNCHANGED part
  /\ \/ part = "deadline" /\ Next /\ UNCHANGED <<hostVars, episodeVars, campaignVars>>
     \/ part = "host" /\ Host!Next /\ UNCHANGED <<deadlineVars, episodeVars, campaignVars>>
     \/ part = "episode" /\ Episode!Next /\ UNCHANGED <<deadlineVars, hostVars, campaignVars>>
     \/ part = "carried" /\ Carried!Next /\ UNCHANGED <<deadlineVars, hostVars, episodeVars>>
     \/ part = "dependent" /\ Dependent!Next /\ UNCHANGED <<deadlineVars, hostVars, episodeVars>>

AllSpec == AllInit /\ [][AllNext]_allVars
-----------------------------------------------------------------------------
\* No episode meets anything of another one, and a passing run leaves nothing
\* behind (reset_episode, cleanup).
EpisodesAreIsolated == Host!EpisodesAreIsolated

\* A sealed cell passed, its episode is gone, its workflows were all seen to
\* end, and its workers never changed (pilot).
SealedIsMeasured == Episode!SealedIsMeasured

\* What follows is about either campaign: the properties look at the jobs, the
\* evidence, the reservation and the limit, and not at the bases.

\* The live time of all jobs stays within the ledger's limit (campaign_gate).
UsedWithinLimit == Carried!UsedWithinLimit

\* No cell is measured by two jobs (dependency_plan).
CellMeasuredOnce == Carried!CellMeasuredOnce

\* An accepted freeze leaves out no measurement that was made (freeze).
FrozenLeavesNothingOut == Carried!FrozenLeavesNothingOut
=============================================================================
