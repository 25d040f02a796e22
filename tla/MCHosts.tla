------------------------------ MODULE MCHosts -------------------------------
(* The worker host's side: the fleet over the SQL store, the store kept in *)
(* files, and the environments a job computes in.  The parts share no      *)
(* state; a behaviour follows one of them while the others stand still.    *)
EXTENDS MCFleet, FileJobStore, Environments

CONSTANT Parts     \* the parts explored

VARIABLE focus

Deployment(provider, caps, withPolicy) == [provider |-> provider, caps |-> caps, policy |-> withPolicy]
MCPlaces ==
  {Deployment("local", Full, TRUE), Deployment("docker", Full, TRUE),
   Deployment("fake", {}, FALSE)}

HostsInit ==
  /\ focus \in Parts
  /\ FleetInit /\ FileInit /\ EnvInit
  /\ focus # "environments" => place = Deployment("local", Full, TRUE)

HostsNext ==
  /\ UNCHANGED focus
  /\ \/ focus = "fleet" /\ FleetNext /\ UNCHANGED <<fileVars, envVars>>
     \/ focus = "files" /\ FileNext /\ UNCHANGED <<fleetVars, envVars>>
     \/ focus = "environments" /\ EnvNext /\ UNCHANGED <<fleetVars, fileVars>>

HostsSpec == HostsInit /\ [][HostsNext]_<<focus, fleetVars, fileVars, envVars>>

(* The types of the three parts.                                           *)
HostsTypeOK == FleetTypeOK /\ FileTypeOK /\ EnvTypeOK
=============================================================================
