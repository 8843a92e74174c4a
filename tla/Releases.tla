------------------------------- MODULE Releases -------------------------------
(***************************************************************************)
(* Deploying a release to the three services at Render and rolling it back *)
(* (infra/scripts/deploy/render-release.mjs, render.yaml).                 *)
(*                                                                         *)
(* Render deploys every commit that is pushed to all services by itself,   *)
(* each at its own pace.  It builds the deploys of a service in the order  *)
(* of their requests; it may answer a request at once, answer that it is   *)
(* queued, or have its answer lost.  The deploy job deploys one service    *)
(* after another, each after the one before is seen live, and writes down  *)
(* in a manifest what it started and what ran before; a rollback, run by   *)
(* hand from the manifest of any job that ended, takes its services back   *)
(* in the opposite order.  Either may give up waiting or be killed; what   *)
(* Render builds goes on.                                                  *)
(***************************************************************************)
EXTENDS Naturals, Sequences

CONSTANTS
    MaxCommit,   \* bound: commits 1 .. MaxCommit are pushed, 0 ran before
    MaxScripts,  \* bound: runs of each of the two scripts
    MaxMishaps   \* bound: lost answers, failed builds, timeouts, kills

ASSUME CommitAssumption == MaxCommit \in Nat

VARIABLES
    head,        \* the last commit pushed to main
    render,      \* deploys of each service at Render, in the order requested
    script,      \* script[k]: the script that runs, one deploy job at most
    manifest,    \* manifest[k]: what the last run of script k wrote down
    artifacts,   \* the manifests of the deploy jobs that ended
    scripts, mishaps  \* counted for the bounds

releasesVars == <<head, render, script, manifest, artifacts, scripts, mishaps>>

RenderServices == {"api", "worker", "web"}
Scripts == {"deploy", "rollback"}
ReleaseOrder == <<"api", "worker", "web">>
NoRecord == [deploy |-> 0, previous |-> 0]
NoScript == [at |-> "none", left |-> <<>>, previous |-> 0, deploy |-> 0]
(* aim: the commit each service of the run is to be at.                    *)
NewManifest(aim) == [status |-> "running", aim |-> aim, services |-> [s \in RenderServices |-> NoRecord]]

LastDeploy(s, P(_)) == LET ds == {d \in DOMAIN render[s] : P(render[s][d])}
                   IN IF ds = {} THEN 0 ELSE CHOOSE d \in ds : \A e \in ds : e <= d
LiveDeploy(s) == LastDeploy(s, LAMBDA d : d.status = "live")
RunsCommit(s) == render[s][LiveDeploy(s)].commit

Service(k) == Head(script[k].left)
Aim(k) == manifest[k].aim[Service(k)]
RecordedIn(m) == {s \in RenderServices : m.services[s] # NoRecord}
Mishap == mishaps < MaxMishaps /\ mishaps' = mishaps + 1

-----------------------------------------------------------------------------
(* Render.                                                                 *)

Queued(s, commit) == Append(render[s], [commit |-> commit, status |-> "queued"])

QueueDeploy(s, commit) == render' = [render EXCEPT ![s] = Queued(s, commit)]

(* autoDeployTrigger: commit, for each of the services.                    *)
PushCommit ==
    /\ head < MaxCommit
    /\ head' = head + 1
    /\ render' = [s \in RenderServices |-> Queued(s, head + 1)]
    /\ UNCHANGED <<script, manifest, artifacts, scripts, mishaps>>

FirstQueued(s) ==
    {d \in DOMAIN render[s] : /\ render[s][d].status = "queued"
                              /\ \A e \in 1 .. d - 1 : render[s][e].status # "queued"}

WithStatus(deploy, status) == [deploy EXCEPT !.status = status]

GoesLive(s) ==
    /\ \E new \in FirstQueued(s) :
         render' = [render EXCEPT ![s] = [d \in DOMAIN render[s] |->
                       IF d = new THEN WithStatus(render[s][d], "live")
                       ELSE IF d = LiveDeploy(s) THEN WithStatus(render[s][d], "deactivated")
                       ELSE render[s][d]]]
    /\ UNCHANGED <<head, script, manifest, artifacts, scripts, mishaps>>

(* A build fails or is cancelled. *)
BuildFails(s) ==
    /\ Mishap
    /\ \E new \in FirstQueued(s) :
         render' = [render EXCEPT ![s] = [d \in DOMAIN render[s] |->
                       IF d = new THEN WithStatus(render[s][d], "build_failed") ELSE render[s][d]]]
    /\ UNCHANGED <<head, script, manifest, artifacts, scripts>>

-----------------------------------------------------------------------------
(* The scripts.                                                            *)

Starts(k, order, aim) ==
    /\ script[k] = NoScript
    /\ scripts[k] < MaxScripts /\ scripts' = [scripts EXCEPT ![k] = @ + 1]
    /\ script' = [script EXCEPT ![k] = [NoScript EXCEPT !.left = order,
                                            !.at = IF k = "deploy" THEN "previous" ELSE "trigger"]]
    /\ manifest' = [manifest EXCEPT ![k] = NewManifest(aim)]
    /\ UNCHANGED <<head, render, artifacts, mishaps>>

(* The job of a push; it may be run again when other commits have come.    *)
deployRelease == \E commit \in 1 .. head : Starts("deploy", ReleaseOrder, [s \in RenderServices |-> commit])

IfRecorded(m, s) == IF s \in RecordedIn(m) THEN <<s>> ELSE <<>>

(* Variant: the services are taken back in the order of the release. *)
SameOrder(m) == IfRecorded(m, "api") \o IfRecorded(m, "worker") \o IfRecorded(m, "web")
RollbackOrder(m) == IfRecorded(m, "web") \o IfRecorded(m, "worker") \o IfRecorded(m, "api")

rollbackRelease ==
    \E m \in artifacts :
      /\ RecordedIn(m) # {}
      /\ Starts("rollback", RollbackOrder(m),
                [s \in RecordedIn(m) |-> render[s][m.services[s].previous].commit])

findPreviousLiveDeploy(k) ==
    /\ script[k].at = "previous"
    /\ script' = [script EXCEPT ![k].at = "trigger", ![k].previous = LiveDeploy(Service(k))]
    /\ UNCHANGED <<head, render, manifest, artifacts, scripts, mishaps>>

FoundDeploy(k, d) ==
    /\ script' = [script EXCEPT ![k].at = "wait", ![k].deploy = d]
    /\ manifest' = [manifest EXCEPT ![k].services[Service(k)] = [deploy |-> d, previous |-> script[k].previous]]
    /\ UNCHANGED artifacts

(* The manifest of a job that ended is kept as an artifact of its workflow. *)
Ends(k, status) ==
    LET m == [manifest[k] EXCEPT !.status = status] IN
    /\ script' = [script EXCEPT ![k] = NoScript]
    /\ manifest' = [manifest EXCEPT ![k] = m]
    /\ artifacts' = IF k = "deploy" THEN artifacts \union {m} ELSE artifacts

(* The POST: answered with the deploy, queued without one, lost on the way  *)
(* back or on the way there.                                               *)
TriggerDeploy(k) ==
    /\ script[k].at = "trigger"
    /\ \/ /\ QueueDeploy(Service(k), Aim(k))
          /\ FoundDeploy(k, Len(render[Service(k)]) + 1)
          /\ UNCHANGED mishaps
       \/ /\ QueueDeploy(Service(k), Aim(k))
          /\ script' = [script EXCEPT ![k].at = "discover"]
          /\ UNCHANGED <<manifest, artifacts, mishaps>>
       \/ Mishap /\ QueueDeploy(Service(k), Aim(k)) /\ Ends(k, "failed")
       \/ Mishap /\ UNCHANGED render /\ Ends(k, "failed")
    /\ UNCHANGED <<head, scripts>>

(* Any deploy of the commit that is listed: one that Render began by        *)
(* itself a moment ago, too.                                               *)
discoverQueuedDeploy(k) ==
    /\ script[k].at = "discover"
    /\ \/ \E d \in DOMAIN render[Service(k)] :
            render[Service(k)][d].commit = Aim(k) /\ FoundDeploy(k, d) /\ UNCHANGED mishaps
       \/ Mishap /\ Ends(k, "failed")
    /\ UNCHANGED <<head, render, scripts>>

DeployStatus(k) == render[Service(k)][script[k].deploy].status

SeenLive(k) == DeployStatus(k) = "live"

waitForLiveDeploy(k) ==
    /\ script[k].at = "wait"
    /\ \/ /\ SeenLive(k)
          /\ IF Len(script[k].left) = 1
             THEN Ends(k, "live")
             ELSE /\ script' = [script EXCEPT ![k].left = Tail(@),
                                              ![k].at = IF k = "deploy" THEN "previous" ELSE "trigger"]
                  /\ UNCHANGED <<manifest, artifacts>>
          /\ UNCHANGED mishaps
       \/ DeployStatus(k) \in {"build_failed", "deactivated"} /\ Ends(k, "failed") /\ UNCHANGED mishaps
       \/ DeployStatus(k) = "queued" /\ Mishap /\ Ends(k, "failed")
    /\ UNCHANGED <<head, render, scripts>>

(* The script is killed: its manifest stays as it was written last. *)
JobKilled(k) ==
    /\ script[k] # NoScript /\ Mishap
    /\ Ends(k, manifest[k].status)
    /\ UNCHANGED <<head, render, scripts>>

ReleasesInit ==
    /\ head = 0
    /\ render = [s \in RenderServices |-> <<[commit |-> 0, status |-> "live"]>>]
    /\ script = [k \in Scripts |-> NoScript]
    /\ manifest = [k \in Scripts |-> [NewManifest([s \in {} |-> 0]) EXCEPT !.status = "none"]]
    /\ artifacts = {} /\ scripts = [k \in Scripts |-> 0] /\ mishaps = 0

ReleasesNext ==
    \/ PushCommit \/ deployRelease \/ rollbackRelease
    \/ \E k \in Scripts : \/ findPreviousLiveDeploy(k) \/ TriggerDeploy(k) \/ discoverQueuedDeploy(k)
                          \/ waitForLiveDeploy(k) \/ JobKilled(k)
    \/ \E s \in RenderServices : GoesLive(s) \/ BuildFails(s)

ReleasesSpec == ReleasesInit /\ [][ReleasesNext]_releasesVars

-----------------------------------------------------------------------------
HasRun(s, d, commit) ==
    /\ d \in DOMAIN render[s] /\ render[s][d].commit = commit
    /\ render[s][d].status \in {"live", "deactivated"}

Precedes(s, t, order) == \E i, j \in DOMAIN order : i < j /\ order[i] = s /\ order[j] = t

(* A service of the run was started only when those before it had run what  *)
(* the run wants of them, and the run is over when all of them have.       *)
InOrder(m, order) ==
    \A s, t \in DOMAIN m.aim :
      (Precedes(s, t, order) /\ t \in RecordedIn(m)) \/ m.status = "live"
        => HasRun(s, m.services[s].deploy, m.aim[s])

(* A release goes to the API, the worker and the web in this order, each    *)
(* once the one before has run its commit, and a rollback goes back the     *)
(* other way - whatever Render deploys by itself meanwhile, and whichever   *)
(* build, answer or script fails (deployRelease, rollbackRelease).         *)
ReleasedInOrder ==
    /\ \A m \in artifacts \union {manifest["deploy"]} : InOrder(m, ReleaseOrder)
    /\ InOrder(manifest["rollback"], <<"web", "worker", "api">>)

-----------------------------------------------------------------------------
(* What a document says and the code does not keep.                        *)

(* docs/deployment-v2.md:77,107-109 - nothing is deployed but by the job,   *)
(* the API first, then the worker, the web last: no service ever runs a     *)
(* newer commit than one before it.                                        *)
ApiIsNewest ==
    RunsCommit("api") >= RunsCommit("worker") /\ RunsCommit("worker") >= RunsCommit("web")
=============================================================================
