----------------------------- MODULE MCServices -----------------------------
(***************************************************************************)
(* The components that share no state with one another, one run for all of  *)
(* them.  A step of one can be swapped with a step of another, and no        *)
(* property speaks of two: it is enough to explore each by itself, while     *)
(* the others stay as they began, and fairness asks nothing of them.         *)
(***************************************************************************)
EXTENDS Resources, Scheduler, AppUpdate, CorePage, Sources, MCGenerator

VARIABLE focus   \* the component that is explored

servicesVars ==
  <<resourcesVars, schedulerVars, appUpdateVars, corePageVars, sourcesVars,
    generatorVars, focus>>

ServicesInit ==
  /\ ResourcesInit /\ SchedulerInit /\ AppUpdateInit /\ CorePageInit /\ SourcesInit
  /\ GeneratorInit
  /\ focus \in {"resources", "scheduler", "update", "page", "subscriptions", "rulesets",
                "generator"}
  /\ focus # "update" => ~serviceMode
  /\ focus # "generator" => profile = CHOOSE p \in WithGroups : TRUE

(* The two lists of Sources have a mutex each and share no file: what is done    *)
(* is done to one of them.                                                    *)
DoneTo(kin) ==
  /\ \A n \in DOMAIN writes' : writes'[n] = Finished \/ writes'[n].kin = kin
  /\ editor' = Closed \/ editor'.id \in kin

(* What tells items apart is their place in the order, which a form leaves      *)
(* alone: forms are opened on one of them.                                    *)
FormsOnOne == \A b \in Browsers : draft'[b] # Nothing => draft'[b].id = Head(FirstOrder)

ServicesNext ==
  /\ UNCHANGED focus
  /\ \/ /\ focus = "resources" /\ ResourcesNext /\ FormsOnOne
        /\ UNCHANGED <<schedulerVars, appUpdateVars, corePageVars, sourcesVars,
                       generatorVars>>
     \/ /\ focus = "scheduler" /\ SchedulerNext
        /\ UNCHANGED <<resourcesVars, appUpdateVars, corePageVars, sourcesVars,
                       generatorVars>>
     \/ /\ focus = "update" /\ AppUpdateNext
        /\ UNCHANGED <<resourcesVars, schedulerVars, corePageVars, sourcesVars,
                       generatorVars>>
     \/ /\ focus = "page" /\ CorePageNext
        /\ UNCHANGED <<resourcesVars, schedulerVars, appUpdateVars, sourcesVars,
                       generatorVars>>
     \/ /\ focus \in {"subscriptions", "rulesets"} /\ SourcesNext
        /\ DoneTo(IF focus = "subscriptions" THEN Subscriptions ELSE RuleSets)
        /\ UNCHANGED <<resourcesVars, schedulerVars, appUpdateVars, corePageVars,
                       generatorVars>>
     \/ /\ focus = "generator" /\ GeneratorNext
        /\ UNCHANGED <<resourcesVars, schedulerVars, appUpdateVars, corePageVars,
                       sourcesVars>>

(* What happens by itself: calls that were made are served and their replies    *)
(* read, timers fire, a server that died is started again.                    *)
ResourcesProgress ==
  \/ \E k \in DOMAIN calls : Serve(k) \/ Receive(k)
  \/ \E b \in Browsers : Refresh(b)
  \/ Boot

(* A goroutine that can run does, and servers answer or break off: every request *)
(* of a run has a time limit, but the download of a binary rule set.            *)
SchedulerProgress == \E r \in DOMAIN runs : RunStep(r)

(* Processes make progress, and a shutdown cancels the downloads.               *)
AppUpdateProgress ==
  \/ HelperSteps \/ BackendSteps \/ CoreEnds
  \/ \E d \in Downloads : ClearArchive(d) \/ DownloadFails(d)

(* Nobody is obliged to make a call or a change, and nothing to crash or fail.  *)
ServicesSpec ==
  /\ ServicesInit /\ [][ServicesNext]_servicesVars
  /\ WF_resourcesVars(focus = "resources" /\ ResourcesProgress)
  /\ WF_schedulerVars(focus = "scheduler" /\ SchedulerProgress)
  /\ WF_appUpdateVars(focus = "update" /\ AppUpdateProgress)

(* The type invariants of them all.                                           *)
ServicesTypeOK ==
  /\ ResourcesTypeOK /\ SchedulerTypeOK /\ AppUpdateTypeOK /\ CorePageTypeOK
  /\ SourcesTypeOK /\ GeneratorTypeOK
=============================================================================
