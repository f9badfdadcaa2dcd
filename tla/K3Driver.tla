------------------------------- MODULE K3Driver -------------------------------
(***************************************************************************)
(* scripts/dur053_k3.py: one run of the Kubernetes driver.  It starts a    *)
(* registry, a kind cluster, PostgreSQL and Kafka containers on a host,    *)
(* runs its episodes in fresh namespaces, and cleans up after itself or,   *)
(* in the cleanup scenario, after a killed run.  Every docker, kind,       *)
(* kubectl or psql command may succeed, fail, or time out with its effect  *)
(* done or not.                                                            *)
(***************************************************************************)
EXTENDS Naturals, Sequences

CONSTANTS
  Scenarios,       \* the scenarios runs are started with
  MaxRuns,         \* runs on one host
  MaxKills         \* runs whose process is killed

\* The consumer groups of an episode, and those reset_episode deletes.
Groups == {"runtime-workers-v1", "runtime-schedulers-v1"}
ResetGroups_WorkersOnly == {"runtime-workers-v1"}
ResetGroups == {"runtime-workers-v1", "runtime-schedulers-v1"}

\* run: the arms of a smoke; a pilot repeats the treatment arm.
Episodes(scenario) ==
  CASE scenario = "smoke" -> <<"kind", "baseline">>
    [] scenario = "pilot" -> <<"kind", "kind">>
    [] OTHER -> <<>>

VARIABLES
  host,        \* what exists on the runner
  d,           \* the Driver object of the current run
  pc,          \* where the current run is
  manifest,    \* status in the manifest.json of the current run, on disk
  runs, kills

vars == <<host, d, pc, manifest, runs, kills>>

Ended == {"idle", "done", "killed"}

EmptyHost(network) ==
  [containers |-> {}, up |-> FALSE, attached |-> {}, cluster |-> FALSE, network |-> network,
   dbs |-> {}, namespaces |-> {}, migrated |-> {}, deployed |-> {}, terminal |-> FALSE,
   topics |-> "absent", groups |-> {}]

NewDriver(scenario) ==
  [scenario |-> scenario, created |-> {}, databases |-> {}, netCreated |-> FALSE,
   tools |-> FALSE, kubeconfig |-> FALSE, live |-> FALSE, episode |-> 1, errors |-> FALSE,
   status |-> "FAIL", misread |-> FALSE]

Init ==
  /\ host \in {EmptyHost(n) : n \in {"none", "foreign"}}
  /\ pc = "idle" /\ manifest = "none" /\ runs = 0 /\ kills = 0
  /\ d = NewDriver("none")

\* run: a fresh output directory gets a FAIL manifest before anything is tried.
StartRun ==
  /\ pc \in Ended /\ runs < MaxRuns /\ runs' = runs + 1
  /\ \E s \in Scenarios : d' = NewDriver(s)
  /\ pc' = "install" /\ manifest' = "FAIL" /\ UNCHANGED <<host, kills>>

Kill ==
  /\ pc \notin Ended /\ kills < MaxKills /\ kills' = kills + 1 /\ pc' = "killed"
  /\ UNCHANGED <<host, d, manifest, runs>>

-----------------------------------------------------------------------------
\* command: must exit 0; a nonzero exit or a timeout raises.
Cmd(next, after) ==
  \/ host' = after /\ pc' \in {next, "failed"}
  \/ host' = host /\ pc' = "failed"

Same == UNCHANGED <<manifest, runs, kills>>

\* install: the tools (kind first) land in scratch; a later check may fail.
Install ==
  /\ pc = "install" /\ UNCHANGED host /\ Same
  /\ \/ /\ pc' = CASE d.scenario = "cleanup" -> "adopt" [] OTHER -> "registry"
        /\ d' = [d EXCEPT !.tools = TRUE, !.live = d.scenario = "pilot"]
     \/ pc' = "failed" /\ \E t \in BOOLEAN : d' = [d EXCEPT !.tools = t]

\* docker run --name: refused while a container of an earlier run has the name.
Start(name, next, after) ==
  \/ name \notin host.containers /\ Cmd(next, [after EXCEPT !.containers = @ \cup {name}])
  \/ name \in host.containers /\ pc' = "failed" /\ UNCHANGED host

\* build: the container is owned before docker is asked for it.
Registry ==
  /\ pc = "registry" /\ d' = [d EXCEPT !.created = @ \cup {"registry"}] /\ Same
  /\ Start("registry", "images", host)

\* Images are built, pushed and rendered, addons fetched and pinned.
Images ==
  /\ pc = "images" /\ UNCHANGED <<host, d>> /\ Same
  /\ \/ pc' = CASE d.scenario = "package-check" -> "passed" [] OTHER -> "network"
     \/ pc' = "failed"

\* docker network inspect kind: any nonzero exit is taken for an absent network,
\* that of a command which failed for another reason as well (misread).
Inspect(network, absent) == network = "none" => absent

\* cluster: whether this run will create the kind network is decided before
\* kind is asked for the cluster.
Network ==
  /\ pc = "network" /\ UNCHANGED host /\ Same
  /\ \/ \E absent \in BOOLEAN :
          /\ Inspect(host.network, absent) /\ pc' = "cluster"
          /\ d' = [d EXCEPT !.live = TRUE, !.netCreated = absent,
                            !.misread = absent /\ host.network # "none"]
     \/ d' = [d EXCEPT !.live = TRUE] /\ pc' = "failed"

KindNetwork(h) == IF h.network = "none" THEN [h EXCEPT !.network = "own"] ELSE h

CreateCluster ==
  /\ pc = "cluster" /\ Same
  /\ \/ ~host.cluster /\ pc' = "connect"
        /\ host' = [KindNetwork(host) EXCEPT !.cluster = TRUE]
        /\ d' = [d EXCEPT !.kubeconfig = TRUE]
     \/ pc' = "failed"
        /\ host' \in {host, KindNetwork(host), [KindNetwork(host) EXCEPT !.cluster = TRUE]}
        /\ \E k \in BOOLEAN : d' = [d EXCEPT !.kubeconfig = k /\ host'.cluster]

\* The registry joins the network; images, Calico and KEDA are brought up.
Connect ==
  /\ pc = "connect" /\ UNCHANGED d /\ Same
  /\ Cmd("postgres", [host EXCEPT !.attached = @ \cup {"registry"}])

\* dependencies: both containers are owned before the first is started.
Postgres ==
  /\ pc = "postgres" /\ d' = [d EXCEPT !.created = @ \cup {"postgres", "kafka"}] /\ Same
  /\ Start("postgres", "kafka", [host EXCEPT !.up = TRUE, !.attached = @ \cup {"postgres"}])

Kafka ==
  /\ pc = "kafka" /\ UNCHANGED d /\ Same
  /\ Start("kafka", "topics", [host EXCEPT !.attached = @ \cup {"kafka"}])

NextEpisode ==
  IF d.episode <= Len(Episodes(d.scenario)) THEN "database" ELSE "passed"

Arm == Episodes(d.scenario)[d.episode]

CreateTopics ==
  /\ pc = "topics" /\ UNCHANGED d /\ Same
  /\ \/ host.topics = "absent" /\ Cmd(NextEpisode, [host EXCEPT !.topics = "empty"])
     \/ host.topics # "absent" /\ pc' = "failed" /\ UNCHANGED host

-----------------------------------------------------------------------------
\* setup_episode: database, namespace and infrastructure, both Jobs, and only
\* then everything else.
CreateDatabase ==
  /\ pc = "database" /\ d' = [d EXCEPT !.databases = @ \cup {Arm}] /\ Same
  /\ \/ Arm \notin host.dbs /\ Cmd("namespace", [host EXCEPT !.dbs = @ \cup {Arm}])
     \/ Arm \in host.dbs /\ pc' = "failed" /\ UNCHANGED host

CreateNamespace ==
  /\ pc = "namespace" /\ UNCHANGED d /\ Same
  /\ Cmd("jobs", [host EXCEPT !.namespaces = @ \cup {Arm}])

RunJobs ==
  /\ pc = "jobs" /\ UNCHANGED d /\ Same
  /\ Cmd("deploy", [host EXCEPT !.migrated = @ \cup {Arm}])

Deploy ==
  /\ pc = "deploy" /\ UNCHANGED d /\ Same
  /\ Cmd("load", [host EXCEPT !.deployed = @ \cup {Arm}, !.groups = Groups])

\* batch: the load, the wait for terminal work and a quiet witness, the
\* exports and both checker runs.
Load ==
  /\ pc = "load" /\ UNCHANGED d /\ Same
  /\ Cmd("quiet", [host EXCEPT !.topics = "used", !.terminal = FALSE])

Quiet ==
  /\ pc = "quiet" /\ host.terminal /\ pc' = "check" /\ UNCHANGED <<host, d>> /\ Same

QuietTimeout ==
  /\ pc = "quiet" /\ pc' = "failed" /\ UNCHANGED <<host, d>> /\ Same

Check ==
  /\ pc = "check" /\ UNCHANGED <<host, d>> /\ Same
  /\ \/ pc' = IF d.scenario = "smoke" /\ Arm = "kind" THEN "probe" ELSE "delete_ns"
     \/ pc' = "failed"

\* probes: PostgreSQL is stopped, readiness observed, and started again.
Probe ==
  /\ pc = "probe" /\ UNCHANGED d /\ Same
  /\ Cmd("restart", [host EXCEPT !.up = FALSE])

Restart ==
  /\ pc = "restart" /\ UNCHANGED d /\ Same
  /\ Cmd("delete_ns", [host EXCEPT !.up = TRUE])

-----------------------------------------------------------------------------
\* reset_episode
NamespaceGone(h, ns) ==
  [h EXCEPT !.namespaces = @ \ {ns}, !.migrated = @ \ {ns}, !.deployed = @ \ {ns}]

DeleteNamespace ==
  /\ pc = "delete_ns" /\ UNCHANGED d /\ Same /\ Cmd("drop", NamespaceGone(host, Arm))

Drop ==
  /\ pc = "drop" /\ Same
  /\ Cmd("topics_delete", [host EXCEPT !.dbs = @ \ {Arm}])
  /\ d' = IF pc' = "failed" THEN d ELSE [d EXCEPT !.databases = @ \ {Arm}]

DeleteTopics ==
  /\ pc = "topics_delete" /\ UNCHANGED d /\ Same
  /\ Cmd("topics_absent", [host EXCEPT !.topics = "deleting"])

TopicsAbsent ==
  /\ pc = "topics_absent" /\ UNCHANGED <<host, d>> /\ Same
  /\ \/ host.topics = "absent" /\ pc' = "groups"
     \/ pc' = "failed"

\* A refused deletion is benign only if a listing then shows no such group.
DeleteGroups ==
  /\ pc = "groups" /\ UNCHANGED d /\ Same
  /\ \E refused \in SUBSET ResetGroups :
       /\ host' = [host EXCEPT !.groups = @ \ (ResetGroups \ refused)]
       /\ \/ refused \cap host.groups = {} /\ pc' = "groups_absent"
          \/ pc' = "failed"

GroupsAbsent ==
  /\ pc = "groups_absent" /\ UNCHANGED host /\ Same
  /\ \/ host.groups \cap ResetGroups = {} /\ pc' = "topics"
        /\ d' = [d EXCEPT !.episode = @ + 1]
     \/ pc' = "failed" /\ UNCHANGED d

\* What the host does by itself: work ends, Kafka completes a topic deletion
\* and forgets a group that has no members left.
WorkEnds ==
  /\ pc = "quiet" /\ ~host.terminal /\ host' = [host EXCEPT !.terminal = TRUE]
  /\ UNCHANGED <<d, pc>> /\ Same

TopicsGone ==
  /\ host.topics = "deleting" /\ host' = [host EXCEPT !.topics = "absent"]
  /\ UNCHANGED <<d, pc>> /\ Same

GroupExpires ==
  /\ host.deployed = {} /\ pc \in {"topics_absent", "groups", "groups_absent"}
  /\ \E g \in host.groups : host' = [host EXCEPT !.groups = @ \ {g}]
  /\ UNCHANGED <<d, pc>> /\ Same

\* run, scenario cleanup: adopt what an earlier run left on the host.
Adopt ==
  /\ pc = "adopt" /\ Same
  /\ LET started == [host EXCEPT !.up = "postgres" \in host.containers] IN
     \/ host' = started /\ pc' = "passed"
        /\ d' = [d EXCEPT !.kubeconfig = host.cluster, !.created = host.containers,
                          !.databases = host.dbs]
     \/ host' \in {host, started} /\ pc' = "failed"
        /\ \E k \in BOOLEAN, c \in {{}, host.containers} :
             d' = [d EXCEPT !.kubeconfig = k /\ host.cluster, !.created = c]

Passed ==
  /\ pc = "passed" /\ pc' = "clean" /\ d' = [d EXCEPT !.status = "PASS"]
  /\ UNCHANGED host /\ Same

\* The except branch of run: diagnostics and exports only read the host.
Failed == pc = "failed" /\ pc' = "clean" /\ UNCHANGED <<host, d>> /\ Same

-----------------------------------------------------------------------------
\* cleanup: a command that may exit nonzero; a timeout aborts the cleanup.
Allowed(next, after) == host' \in {host, after} /\ pc' \in {next, "aborted"}

Clean ==
  /\ pc = "clean" /\ UNCHANGED host /\ Same
  /\ \/ /\ ~d.tools /\ d.created = {} /\ d.databases = {} /\ ~d.live
        /\ pc' = "report" /\ UNCHANGED d
     \/ /\ d.tools \/ d.created # {} \/ d.databases # {} \/ d.live
        /\ pc' = IF d.kubeconfig THEN "clean_ns" ELSE "clean_db"
        /\ d' = [d EXCEPT !.live = FALSE]

CleanNamespaces ==
  /\ pc = "clean_ns" /\ Same
  /\ LET gone == NamespaceGone(NamespaceGone(host, "kind"), "baseline") IN
     /\ host' \in {host, NamespaceGone(host, "kind"), NamespaceGone(host, "baseline"), gone}
     /\ pc' \in {"clean_db", "aborted"}
     /\ \E nonzero \in BOOLEAN :
          /\ nonzero \/ host' = gone
          /\ d' = [d EXCEPT !.errors = @ \/ (nonzero /\ d.databases # {})]

\* PostgreSQL may be down (the outage probe): it is started, and a database
\* that cannot be dropped is an error, not an exception.
CleanDatabases ==
  /\ pc = "clean_db" /\ Same
  /\ \/ d.databases = {} /\ pc' = "discover" /\ UNCHANGED <<host, d>>
     \/ d.databases # {} /\ pc' = "aborted" /\ UNCHANGED <<host, d>>
     \/ d.databases # {} /\ pc' = "discover"
        /\ \E dropped, verified \in SUBSET d.databases :
             /\ verified \subseteq dropped
             /\ host' = [host EXCEPT !.up = "postgres" \in host.containers, !.dbs = @ \ dropped]
             /\ d' = [d EXCEPT !.databases = @ \ verified,
                               !.errors = @ \/ verified # d.databases]

Discover ==
  /\ pc = "discover" /\ UNCHANGED host /\ Same
  /\ \E found \in {{}, host.containers} : d' = [d EXCEPT !.created = @ \cup found]
  /\ pc' \in {"kind_delete", "aborted"}

DeleteCluster ==
  /\ pc = "kind_delete" /\ UNCHANGED d /\ Same
  /\ Allowed("remove", [host EXCEPT !.cluster = FALSE, !.namespaces = {}, !.migrated = {},
                                    !.deployed = {}])

Removed(names) ==
  LET left == host.containers \ names IN
  [host EXCEPT !.containers = left, !.attached = @ \cap left,
               !.up = @ /\ "postgres" \in left,
               !.dbs = IF "postgres" \in left THEN @ ELSE {},
               !.topics = IF "kafka" \in left THEN @ ELSE "absent",
               !.groups = IF "kafka" \in left THEN @ ELSE {}]

RemoveContainers ==
  /\ pc = "remove" /\ UNCHANGED d /\ Same
  /\ \E names \in SUBSET d.created : host' = Removed(names)
  /\ pc' \in {"network_rm", "aborted"}

\* Only a network this run takes for its own is removed, which docker refuses
\* while something is attached to it; then it must be seen to be absent.
RemoveNetwork ==
  /\ pc = "network_rm" /\ Same
  /\ \/ ~d.netCreated /\ UNCHANGED <<host, d>> /\ pc' = "verify"
     \/ /\ d.netCreated
        /\ \/ UNCHANGED host
           \/ ~host.cluster /\ host.attached = {} /\ host' = [host EXCEPT !.network = "none"]
        /\ \E absent \in BOOLEAN :
             /\ Inspect(host'.network, absent)
             /\ pc' \in IF absent THEN {"verify", "aborted"} ELSE {"aborted"}
             /\ d' = [d EXCEPT !.misread = @ \/ (absent /\ host'.network # "none")]

Verify ==
  /\ pc = "verify" /\ UNCHANGED <<host, d>> /\ Same
  /\ \/ /\ ~host.cluster /\ host.containers = {} /\ d.databases = {} /\ ~d.errors
        /\ pc' = "report"
     \/ pc' = "aborted"

Aborted ==
  /\ pc = "aborted" /\ pc' = "report" /\ d' = [d EXCEPT !.status = "FAIL"]
  /\ UNCHANGED host /\ Same

\* The finally block: the scratch directory goes, the manifest is saved last.
Report ==
  /\ pc = "report" /\ pc' = "done" /\ manifest' = d.status
  /\ UNCHANGED <<host, d, runs, kills>>

-----------------------------------------------------------------------------
Setup ==
  \/ Install \/ Registry \/ Images \/ Network \/ CreateCluster \/ Connect \/ Postgres
  \/ Kafka \/ CreateTopics \/ Adopt

Episode ==
  \/ CreateDatabase \/ CreateNamespace \/ RunJobs \/ Deploy \/ Load \/ Quiet
  \/ QuietTimeout \/ Check \/ Probe \/ Restart \/ DeleteNamespace \/ Drop
  \/ DeleteTopics \/ TopicsAbsent \/ DeleteGroups \/ GroupsAbsent

Cleanup ==
  \/ Clean \/ CleanNamespaces \/ CleanDatabases \/ Discover \/ DeleteCluster
  \/ RemoveContainers \/ RemoveNetwork \/ Verify \/ Aborted \/ Report

Driver == Setup \/ Episode \/ Passed \/ Failed \/ Cleanup

Next == StartRun \/ Kill \/ Driver \/ WorkEnds \/ TopicsGone \/ GroupExpires

Spec == Init /\ [][Next]_vars

-----------------------------------------------------------------------------
\* No episode meets anything of another one.  When it is about to deploy its
\* workers the topics are empty, no consumer group remembers offsets, and its
\* database and namespace are the only ones (reset_episode); and a run that
\* reports PASS leaves no labelled container, cluster, database or namespace,
\* whichever run created it, and, unless docker failed to answer an inspect, no
\* network it created (cleanup, run).
EpisodesAreIsolated ==
  /\ pc = "deploy" =>
       /\ host.topics = "empty" /\ host.groups = {}
       /\ host.dbs = {Arm} /\ host.namespaces = {Arm}
  /\ manifest = "PASS" /\ pc = "done" =>
       /\ host.containers = {} /\ ~host.cluster /\ host.dbs = {} /\ host.namespaces = {}
       /\ d.netCreated /\ ~d.misread => host.network = "none"
=============================================================================
