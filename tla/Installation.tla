---------------------------- MODULE Installation ----------------------------
(***************************************************************************)
(* What the page "core settings" promises of one branch of the core: the    *)
(* core that is installed stays until a newer one, that works, takes its     *)
(* place, and the one before can be had back once.  Nothing takes away the   *)
(* installed core, whatever fails on the way.                               *)
(***************************************************************************)
CONSTANTS Versions, None, Works(_)

VARIABLES installed, previous

installationVars == <<installed, previous>>

InstallationInit ==
  /\ installed \in Versions \cup {None} /\ previous \in Versions \cup {None}
  /\ installed = None => previous = None

Forget ==
  /\ previous' = None
  /\ UNCHANGED installed

(* The core before it is kept, unless it was forgotten and nothing else is.    *)
Install(v) ==
  /\ Works(v)
  /\ installed' = v /\ previous' = installed

Rollback ==
  /\ previous # None /\ Works(previous)
  /\ installed' = previous /\ previous' = None

InstallationNext == Forget \/ (\E v \in Versions : Install(v)) \/ Rollback

InstallationSpec == InstallationInit /\ [][InstallationNext]_installationVars
=============================================================================
