----------------------------- MODULE Deployment -----------------------------
(***************************************************************************)
(* deployment/ragctl.py, up and down: one operator process that runs       *)
(* external commands in a fixed order.  up undoes itself by down when any  *)
(* of its steps fails; down goes on after a command that fails.  The       *)
(* containers of deployment/modal_*.py start and drain on their own.       *)
(*                                                                         *)
(* A step that fails may have had its effect or not.  Every command of the *)
(* hosting platform first verifies that the configured account is active   *)
(* (CommandRunner.run), and raises otherwise whatever check= says.         *)
(***************************************************************************)
EXTENDS Sequences, Naturals, SequencesExt

CONSTANTS DepMaxFaults      \* failed commands, profile changes and kills

VARIABLES
    depApps,        \* phase of each hosted application
    depFunnels,     \* the public funnels that are on
    depCompose,     \* Weaviate and HAProxy run
    depCert,        \* the certificate and key of HAProxy
    depTarget,      \* the configured account is the active one
    depEndpoint,    \* .rag/state.json is there
    depSecret,      \* plaintext secret files: of this command, of killed ones
    depPc, depTodo, \* the step, and the applications still to be stopped
    depCommand,     \* the command, "up" or "down"
    depResult,      \* what the last command reported
    depExcuse,      \* what this command could not do and did not report
    depFaults

depVars == <<depApps, depFunnels, depCompose, depCert, depTarget, depEndpoint,
             depSecret, depPc, depTodo, depCommand, depResult, depExcuse, depFaults>>
depWorld == <<depApps, depFunnels, depCompose, depCert, depEndpoint, depSecret>>

Apps == {"granite", "qwen", "runtime"}      \* MODAL_APPS
Funnels == {"rest", "grpc"}
AppOn(app) == depApps[app] \in {"starting", "serving"}

DepInit ==
    /\ depApps = [app \in Apps |-> "off"]
    /\ depFunnels = {} /\ depCompose = FALSE
    /\ depCert \in {"missing", "valid"}
    /\ depTarget = TRUE
    /\ depEndpoint = FALSE /\ depSecret = {}
    /\ depPc = "idle" /\ depTodo = <<>> /\ depCommand = "down"
    /\ depResult = "none" /\ depExcuse = {} /\ depFaults = 0

DepFault == depFaults < DepMaxFaults /\ depFaults' = depFaults + 1

------------------------------------------------------------------------------
(* up                                                                       *)

\* Slip: the runtime, deployed last, is left out.
FaultBeginDown ==
    /\ depPc' = "stop"
    /\ depTodo' = <<"granite", "qwen">>

\* The first step of down.
BeginDown ==
    /\ depPc' = "stop"
    /\ depTodo' = <<"granite", "qwen", "runtime">>

\* A step of up: ok leads to the next one, a failure of any kind into down.
UpStep(here, next, ok) ==
    /\ depPc = here
    /\ IF ok THEN depPc' = next /\ UNCHANGED <<depTodo, depFaults>>
       ELSE DepFault /\ BeginDown
    /\ UNCHANGED <<depTarget, depCommand, depResult, depExcuse>>

\* One that runs a command of the platform, which raises under a wrong target.
HostedStep(here, next, ok) ==
    /\ depPc = here
    /\ IF ok /\ depTarget
       THEN depPc' = next /\ UNCHANGED <<depTodo, depFaults>>
       ELSE /\ BeginDown
            /\ IF depTarget THEN DepFault ELSE UNCHANGED depFaults
    /\ UNCHANGED <<depTarget, depCommand, depResult, depExcuse>>

StartCommand(command) ==
    /\ depPc = "idle"
    /\ depCommand' = command
    /\ depExcuse' = {}
    /\ IF command = "up" THEN depPc' = "preflight" /\ UNCHANGED depTodo ELSE BeginDown
    /\ depResult' = "none"
    /\ UNCHANGED <<depWorld, depTarget, depFaults>>

Preflight(ok) == HostedStep("preflight", "certificate", ok) /\ UNCHANGED depWorld

\* ensure_certificate: both files exist and the certificate is not about to
\* expire; whether the key belongs to it is not looked at.
CheckCertificate ==
    /\ UpStep("certificate", IF depCert = "missing" THEN "renew_cert" ELSE "compose", TRUE)
    /\ UNCHANGED depWorld

\* The two files are replaced one after the other.
RenewCertificate(ok) ==
    /\ UpStep("renew_cert", "renew_key", ok)
    /\ depCert' = IF ok THEN "mismatched" ELSE depCert
    /\ UNCHANGED <<depApps, depFunnels, depCompose, depEndpoint, depSecret>>
RenewKey(ok) ==
    /\ UpStep("renew_key", "compose", ok)
    /\ depCert' = IF ok THEN "valid" ELSE depCert
    /\ UNCHANGED <<depApps, depFunnels, depCompose, depEndpoint, depSecret>>

ComposeUp(ok) ==
    /\ UpStep("compose", "rest", ok)
    /\ depCompose' \in IF ok THEN {TRUE} ELSE {depCompose, TRUE}
    /\ UNCHANGED <<depApps, depFunnels, depCert, depEndpoint, depSecret>>

\* configure_funnels: each is turned off, then on.  The command may succeed
\* without the node registering the funnel.
ConfigureFunnel(funnel, next, ok) ==
    /\ UpStep(funnel, next, ok)
    /\ depFunnels' \in {depFunnels \ {funnel}, depFunnels \cup {funnel}}
    /\ UNCHANGED <<depApps, depCompose, depCert, depEndpoint, depSecret>>
FunnelStatus ==
    /\ depPc = "funnel_status"
    /\ IF depFunnels = Funnels THEN depPc' = "verify_weaviate" /\ UNCHANGED depTodo ELSE BeginDown
    /\ UNCHANGED <<depWorld, depTarget, depCommand, depResult, depExcuse, depFaults>>
VerifyWeaviate(ok) ==
    /\ UpStep("verify_weaviate", "deploy_granite", ok /\ depCompose)
    /\ UNCHANGED depWorld

\* deploy_granite, deploy_qwen, deploy_runtime, with the discovery of the URL.
Deploy(app, ok) ==
    /\ \/ app = "granite" /\ HostedStep("deploy_granite", "validate_granite", ok)
       \/ app = "qwen" /\ HostedStep("deploy_qwen", "validate_qwen", ok)
       \/ app = "runtime" /\ HostedStep("deploy_runtime", "validate_runtime", ok)
    /\ depApps' \in IF ok /\ depTarget
                    THEN {[depApps EXCEPT ![app] = "starting"]}
                    ELSE {depApps, IF depTarget THEN [depApps EXCEPT ![app] = "starting"]
                                   ELSE depApps}
    /\ UNCHANGED <<depFunnels, depCompose, depCert, depEndpoint, depSecret>>

\* _wait_authenticated_health polls until a deadline.
Healthy(app, ok) == ok => depApps[app] = "serving"

\* Health first, then the model's identity and its answers to smoke requests.
ValidateGranite(ok) ==
    /\ Healthy("granite", ok)
    /\ UpStep("validate_granite", "deploy_qwen", ok)
    /\ UNCHANGED depWorld
ValidateQwen(ok) ==
    /\ Healthy("qwen", ok)
    /\ UpStep("validate_qwen", "secret", ok)
    /\ UNCHANGED depWorld

\* validate_runtime also lists the containers, which needs the target.
ValidateRuntime(ok) ==
    /\ Healthy("runtime", ok)
    /\ HostedStep("validate_runtime", "write_state", ok)
    /\ UNCHANGED depWorld

\* deploy_runtime_secret: a private temporary file, removed in the finally.
WriteSecret ==
    /\ UpStep("secret", "publish", TRUE)
    /\ depSecret' = depSecret \cup {"current"}
    /\ UNCHANGED <<depApps, depFunnels, depCompose, depCert, depEndpoint>>
PublishSecret(ok) ==
    /\ HostedStep("publish", "deploy_runtime", ok)
    /\ depSecret' = depSecret \ {"current"}
    /\ UNCHANGED <<depApps, depFunnels, depCompose, depCert, depEndpoint>>

WriteState ==
    /\ depPc = "write_state"
    /\ depEndpoint' = TRUE
    /\ depPc' = "idle"
    /\ depResult' = "ready"
    /\ UNCHANGED <<depApps, depFunnels, depCompose, depCert, depSecret, depTarget,
                   depTodo, depCommand, depExcuse, depFaults>>

------------------------------------------------------------------------------
(* down, by itself or as the cleanup of up.                                 *)

DownStep(here, next) ==
    /\ depPc = here
    /\ depPc' = next
    /\ UNCHANGED <<depTarget, depTodo, depCommand, depResult>>

\* up reports its own failure, whatever its cleanup met.
EndDown(result) ==
    /\ depPc' = "idle"
    /\ depTodo' = <<>>
    /\ depResult' = IF depCommand = "up" THEN "failed" ELSE result
    /\ UNCHANGED <<depTarget, depCommand>>

\* stop_modal_apps: check=False, so the next application is stopped anyway.
StopApp(ok) ==
    /\ depPc = "stop" /\ depTodo # <<>>
    /\ depTarget
    /\ depApps' = IF ok /\ AppOn(Head(depTodo))
                  THEN [depApps EXCEPT ![Head(depTodo)] = "draining"] ELSE depApps
    /\ IF ok THEN UNCHANGED <<depExcuse, depFaults>>
       ELSE DepFault /\ depExcuse' = depExcuse \cup {Head(depTodo)}
    /\ depTodo' = Tail(depTodo)
    /\ UNCHANGED <<depFunnels, depCompose, depCert, depEndpoint, depSecret, depTarget,
                   depPc, depCommand, depResult>>

\* Under a wrong target the first stop raises and down ends there.
StopRefused ==
    /\ depPc = "stop" /\ depTodo # <<>>
    /\ ~depTarget
    /\ EndDown("down_failed")
    /\ depExcuse' = depExcuse \cup {"target"}
    /\ UNCHANGED <<depWorld, depFaults>>

AppsStopped ==
    /\ depTodo = <<>>
    /\ DownStep("stop", "rest_off")
    /\ UNCHANGED <<depWorld, depExcuse, depFaults>>

\* disable_funnels: check=False, and nothing looks whether they are off.
DisableFunnel(funnel, ok) ==
    /\ IF funnel = "rest" THEN DownStep("rest_off", "grpc_off")
       ELSE DownStep("grpc_off", "compose_down")
    /\ IF ok THEN depFunnels' = depFunnels \ {funnel} /\ UNCHANGED <<depExcuse, depFaults>>
       ELSE DepFault /\ depExcuse' = depExcuse \cup {"funnel"} /\ UNCHANGED depFunnels
    /\ UNCHANGED <<depApps, depCompose, depCert, depEndpoint, depSecret>>

ComposeDown(ok) ==
    /\ DownStep("compose_down", "remove_state")
    /\ IF ok THEN depCompose' = FALSE /\ UNCHANGED depFaults
       ELSE DepFault /\ UNCHANGED depCompose
    /\ UNCHANGED <<depApps, depFunnels, depCert, depEndpoint, depSecret, depExcuse>>

RemoveState ==
    /\ DownStep("remove_state", "wait")
    /\ depEndpoint' = FALSE
    /\ UNCHANGED <<depApps, depFunnels, depCompose, depCert, depSecret, depExcuse, depFaults>>

ContainersGone ==
    /\ DownStep("wait", "volume")
    /\ depTarget /\ \A app \in Apps : depApps[app] = "off"
    /\ UNCHANGED <<depWorld, depExcuse, depFaults>>

\* A listing that raises ends the wait like an empty one.
ListingFails ==
    /\ DownStep("wait", "volume")
    /\ IF depTarget THEN DepFault ELSE UNCHANGED depFaults
    /\ depExcuse' = depExcuse \cup {"listing"}
    /\ UNCHANGED depWorld

\* 180 seconds went by.
WaitTimesOut ==
    /\ depPc = "wait"
    /\ \E app \in Apps : depApps[app] # "off"
    /\ EndDown("down_failed")
    /\ UNCHANGED <<depWorld, depExcuse, depFaults>>

\* The last word: with all stopped, down still fails where the volume is not found.
InspectVolume ==
    /\ depPc = "volume"
    /\ EndDown("off") \/ EndDown("down_failed")
    /\ UNCHANGED <<depWorld, depExcuse, depFaults>>

------------------------------------------------------------------------------
(* The platform, and interruptions.                                         *)

\* The enter hook of an application succeeds: checkpoint verified, process
\* healthy and warmed up.  One that raises is started again by the platform.
ContainerServes(app) ==
    /\ depApps[app] = "starting"
    /\ depApps' = [depApps EXCEPT ![app] = "serving"]
    /\ UNCHANGED <<depFunnels, depCompose, depCert, depTarget, depEndpoint, depSecret,
                   depPc, depTodo, depCommand, depResult, depExcuse, depFaults>>
ContainerFails(app) ==
    /\ depApps[app] = "serving"
    /\ DepFault
    /\ depApps' = [depApps EXCEPT ![app] = "starting"]
    /\ UNCHANGED <<depFunnels, depCompose, depCert, depTarget, depEndpoint, depSecret,
                   depPc, depTodo, depCommand, depResult, depExcuse>>
\* The exit hook: terminate, wait, kill.
ContainerExits(app) ==
    /\ depApps[app] = "draining"
    /\ depApps' = [depApps EXCEPT ![app] = "off"]
    /\ UNCHANGED <<depFunnels, depCompose, depCert, depTarget, depEndpoint, depSecret,
                   depPc, depTodo, depCommand, depResult, depExcuse, depFaults>>

\* Another profile of the platform is activated on the operator's machine.
TargetChanges ==
    /\ DepFault
    /\ depTarget' = ~depTarget
    /\ UNCHANGED <<depWorld, depPc, depTodo, depCommand, depResult, depExcuse>>

\* The process is killed, or interrupted again inside its cleanup.
DepKilled ==
    /\ depPc # "idle"
    /\ DepFault
    /\ depPc' = "idle" /\ depTodo' = <<>> /\ depResult' = "killed"
    /\ depSecret' = IF "current" \in depSecret THEN {"leaked"} ELSE depSecret
    /\ UNCHANGED <<depApps, depFunnels, depCompose, depCert, depEndpoint, depTarget,
                   depCommand, depExcuse>>

DepStep ==
    \/ \E ok \in BOOLEAN :
         \/ Preflight(ok) \/ RenewCertificate(ok) \/ RenewKey(ok) \/ ComposeUp(ok)
         \/ ConfigureFunnel("rest", "grpc", ok)
         \/ ConfigureFunnel("grpc", "funnel_status", ok)
         \/ VerifyWeaviate(ok) \/ ValidateRuntime(ok) \/ PublishSecret(ok)
         \/ ValidateGranite(ok) \/ ValidateQwen(ok)
         \/ \E app \in Apps : Deploy(app, ok)
         \/ StopApp(ok) \/ ComposeDown(ok)
         \/ \E funnel \in Funnels : DisableFunnel(funnel, ok)
    \/ CheckCertificate \/ FunnelStatus \/ WriteSecret \/ WriteState
    \/ StopRefused \/ AppsStopped \/ RemoveState
    \/ ContainersGone \/ ListingFails \/ WaitTimesOut \/ InspectVolume

Containers == \E app \in Apps : ContainerServes(app) \/ ContainerExits(app)

DepNext ==
    \/ \E command \in {"up", "down"} : StartCommand(command)
    \/ DepStep
    \/ Containers
    \/ \E app \in Apps : ContainerFails(app)
    \/ TargetChanges
    \/ DepKilled

DepSpec == DepInit /\ [][DepNext]_depVars

------------------------------------------------------------------------------
(* Properties.                                                              *)

\* After a failed up or any down, an application that still runs is one whose
\* own stop failed, or the tool refused to act on the active account: no other
\* failure, at whatever step, leaves a GPU application deployed
\* (ragctl.py:1110-1124 and 1160-1162).
NothingLeftRunning ==
    depResult \in {"failed", "off", "down_failed"} /\ depPc = "idle"
        /\ "target" \notin depExcuse
      => \A app \in Apps : AppOn(app) => app \in depExcuse

\* down says that RAG is off only when no container was listed, unless the
\* listing itself failed (ragctl.py:1179-1196).
OffWhenListed ==
    depResult = "off" /\ depPc = "idle" /\ "listing" \notin depExcuse =>
        /\ \A app \in Apps : depApps[app] = "off"
        /\ ~depEndpoint

\* README.md:30: ./rag down stops all three applications, disables both
\* funnels and stops the local containers.
OffMeansStopped ==
    depResult = "off" /\ depPc = "idle" =>
        /\ \A app \in Apps : depApps[app] \in {"off", "draining"}
        /\ depFunnels = {}

\* While up's report of ready stands, everything is deployed, both funnels are
\* on and the endpoint is recorded, also after earlier commands that failed or
\* were killed in between.
ReadyMeansDeployed ==
    depResult = "ready" =>
        /\ \A app \in Apps : AppOn(app)
        /\ depFunnels = Funnels /\ depCompose /\ depEndpoint

\* The plaintext secret leaves with the step that published it, successful or
\* not (the finally of deploy_runtime_secret); only a kill can leave it.
SecretRemoved == "current" \in depSecret => depPc = "publish"

\* A command is under way; every one ends (deadlines of validation and of the
\* wait of down).
DepBusy == depPc # "idle"
=============================================================================
