----------------------------- MODULE K3sPreparation -----------------------------
(***************************************************************************)
(* The preparation of the K3s cluster                                      *)
(* (app/deathstarbench_distributed.py, app/k3s_runtime.py and the guest    *)
(* scripts).  Every attempt goes through all of it; what an earlier one    *)
(* has recorded of the file system and of the authority must be found      *)
(* again.                                                                  *)
(***************************************************************************)
EXTENDS Guests

\* Recorded only once, and then attested again by every attempt.
ValidK3s(j) ==
  LET all == j.prepared = Len(Hosts)
  IN CASE j.state = "none" -> j = NoK3s
       [] j.state = "preparing_hosts" -> j.joined = 0 /\ j.ca = 0 /\ j.volume = 0
       [] j.state = "hosts_prepared" -> all /\ j.joined = 0 /\ j.ca = 0 /\ j.volume = 0
       [] j.state = "database_storage_ready" -> all /\ j.joined = 0 /\ j.ca = 0 /\ j.volume # 0
       [] j.state = "server_ready" -> all /\ j.joined = 0 /\ j.ca # 0 /\ j.volume # 0
       [] j.state = "joining_agents" -> all /\ j.ca # 0 /\ j.volume # 0
       [] j.state \in {"agents_ready", "cluster_ready"} ->
            all /\ j.joined = Len(Agents) /\ j.ca # 0 /\ j.volume # 0

\* _write_journal checks what it writes.
SaveK3s(state, prepared, joined, authority, filesystem, place, index) ==
  LET j == [state |-> state, prepared |-> prepared, joined |-> joined,
            ca |-> authority, volume |-> filesystem]
  IN IF ValidK3s(j)
     THEN Save([memory EXCEPT !.k3s = j], place, index)
     ELSE UNCHANGED journals /\ Refuse

Keep == UNCHANGED journals

-------------------------------------------------------------------------------
(* The hosts, one after the other.                                         *)

Begin ==
  /\ pc = "idle"
  /\ ValidK3s(memory.k3s)
  /\ first' = (memory.k3s.state = "none")
  /\ failed' = FALSE /\ seen' = Unseen /\ snapshot' = 0
  /\ IF memory.k3s.state = "none"
     THEN LET job == [memory EXCEPT !.k3s = [NoK3s EXCEPT !.state = "preparing_hosts"]]
          IN /\ memory' = job
             /\ \/ disk' = job /\ pc' = "prepare" /\ UNCHANGED faults
                \/ disk' = disk /\ pc' = "idle" /\ Fault
     ELSE pc' = "prepare" /\ UNCHANGED <<journals, faults>>
  /\ turn' = 1
  /\ UNCHANGED <<workload, remote>>

HostPrepared(host) == [guest EXCEPT ![host] = @ \cup {"prepared"}]
ArtifactInstalled(host) == [guest EXCEPT ![host] = @ \cup {"installed"}]

\* Packages and settings; on Oracle Linux the command is tried twice.
PrepareHost ==
  /\ pc = "prepare"
  /\ LET done == HostPrepared(Hosts[turn])
     IN \/ guest' = done /\ Answered("install", turn)
        \/ guest' \in {guest, done} /\ Lost
  /\ UNCHANGED <<workload, journals, volume, token, service, ca, pinned, cluster, oneShot, tampered>>

\* The binary and the images, when they are not there or differ.
InstallArtifact ==
  /\ pc = "install"
  /\ LET done == ArtifactInstalled(Hosts[turn])
     IN \/ guest' = done /\ Answered("preflight", turn)
        \/ guest' \in {guest, done} /\ Lost
  /\ UNCHANGED <<workload, journals, volume, token, service, ca, pinned, cluster, oneShot, tampered>>

\* Only the first attempt records the hosts one by one.
PreflightHost ==
  /\ pc = "preflight"
  /\ LET next == IF turn < Len(Hosts) THEN turn + 1 ELSE 1
         place == IF turn < Len(Hosts) THEN "prepare" ELSE "hosts"
     IN \/ IF first
           THEN SaveK3s("preparing_hosts", turn, 0, 0, 0, place, next)
           ELSE Keep /\ Answered(place, next)
        \/ Keep /\ Lost
  /\ UNCHANGED <<workload, remote>>

HostsPrepared ==
  /\ pc = "hosts"
  /\ IF memory.k3s.volume = 0
     THEN SaveK3s("hosts_prepared", Len(Hosts), 0, 0, 0, "mount", 1)
     ELSE Keep /\ Answered("mount", 1)
  /\ UNCHANGED <<workload, remote>>

-------------------------------------------------------------------------------
(* The data disk and the control plane.                                    *)

\* A disk is formatted only when it is blank, and then mounted.
Formatted == [volume EXCEPT !.filesystem = IF @ = 0 THEN 1 ELSE @]

Mounted == [Formatted EXCEPT !.mounted = TRUE]

\* _same_database_volume_identity, where one is on record.
SameVolume(found) == memory.k3s.volume \in {0, found.filesystem}

MountVolume ==
  /\ pc = "mount"
  /\ LET found == Mounted
     IN \/ /\ volume' = found
           /\ IF ~SameVolume(found) THEN Keep /\ Refuse
              ELSE IF memory.k3s.ca = 0
              THEN SaveK3s("database_storage_ready", Len(Hosts), 0, 0, found.filesystem,
                           "tokens", 1)
              ELSE Keep /\ Answered("tokens", 1)
        \/ volume' \in {volume, Formatted, found} /\ Keep /\ Lost
  /\ UNCHANGED <<workload, guest, token, service, ca, pinned, cluster, oneShot, tampered>>

\* Mistake: credentials are only accepted where there were none.
GivenOnce(host, authority) ==
  token[host] = Absent /\ token' = [token EXCEPT ![host] = authority]

\* Credentials are made where there is no trace of any, marked as owned at the
\* end, and never replaced.
GivenTo(host, authority) ==
  \/ token[host] = Absent /\ token' = [token EXCEPT ![host] = authority]
  \/ token[host] = authority /\ UNCHANGED token

InitializeTokens ==
  /\ pc = "tokens"
  /\ \/ GivenTo("control", 1) /\ Answered("server", 1)
     \/ token["control"] = Partial /\ UNCHANGED token /\ Refuse
     \/ /\ \/ GivenTo("control", 1)
           \/ UNCHANGED token
           \/ token["control"] = Absent /\ token' = [token EXCEPT !["control"] = Partial]
        /\ Lost
  /\ UNCHANGED <<workload, journals, guest, volume, service, ca, pinned, cluster, oneShot, tampered>>

Started(host) == service \cup {host}

\* The first start makes the authority.
StartServer ==
  /\ pc = "server" /\ token["control"] > 0
  /\ LET made == IF ca = 0 THEN 1 ELSE ca
         started == Started("control")
     IN \/ service' = started /\ ca' = made /\ Answered("readyz", 1)
        \/ service' \in {service, started} /\ ca' = made /\ Lost
        \/ UNCHANGED <<service, ca>> /\ Lost
  /\ UNCHANGED <<workload, journals, guest, volume, token, pinned, cluster, oneShot, tampered>>

ServerReadiness ==
  /\ pc = "readyz"
  /\ \/ "control" \in service /\ Answered("pin", 1)
     \/ "control" \notin service /\ Refuse
     \/ Lost
  /\ UNCHANGED <<workload, journals, remote>>

PinSystemServices ==
  /\ pc = "pin"
  /\ \/ "control" \in service /\ pinned' = TRUE /\ Answered("secret", 1)
     \/ "control" \notin service /\ UNCHANGED pinned /\ Refuse
     \/ pinned' \in {pinned, TRUE} /\ Lost
  /\ UNCHANGED <<workload, journals, guest, volume, token, service, ca, cluster, oneShot, tampered>>

\* The token of the agents names the authority.
ReadAgentToken ==
  /\ pc = "secret"
  /\ \/ IF memory.k3s.ca \notin {0, ca} THEN Keep /\ Refuse
        ELSE SaveK3s("server_ready", Len(Hosts), 0, ca, volume.filesystem, "joining", 1)
     \/ Keep /\ Lost
  /\ UNCHANGED <<workload, remote>>

-------------------------------------------------------------------------------
(* The agents, one after the other.                                        *)

BeginJoining ==
  /\ pc = "joining"
  /\ SaveK3s("joining_agents", Len(Hosts), 0, ca, volume.filesystem, "agentToken", 1)
  /\ UNCHANGED <<workload, remote>>

InstallAgentToken ==
  /\ pc = "agentToken"
  /\ LET h == Agents[turn]
     IN \/ GivenTo(h, ca) /\ Answered("join", turn)
        \/ token[h] \notin {Absent, ca} /\ UNCHANGED token /\ Refuse
        \/ /\ \/ GivenTo(h, ca)
              \/ UNCHANGED token
              \/ token[h] = Absent /\ token' = [token EXCEPT ![h] = Partial]
           /\ Lost
  /\ UNCHANGED <<workload, journals, guest, volume, service, ca, pinned, cluster, oneShot, tampered>>

JoinAgent ==
  /\ pc = "join" /\ token[Agents[turn]] > 0
  /\ LET joined == Started(Agents[turn])
     IN \/ service' = joined /\ Answered("agentReady", turn)
        \/ service' \in {service, joined} /\ Lost
  /\ UNCHANGED <<workload, journals, guest, volume, token, ca, pinned, cluster, oneShot, tampered>>

AgentReadiness ==
  /\ pc = "agentReady"
  /\ LET next == IF turn < Len(Agents) THEN turn + 1 ELSE 1
         place == IF turn < Len(Agents) THEN "agentToken" ELSE "agents"
     IN \/ /\ Agents[turn] \in service
           /\ SaveK3s("joining_agents", Len(Hosts), turn, ca, volume.filesystem, place, next)
        \/ Agents[turn] \notin service /\ Keep /\ Refuse
        \/ Keep /\ Lost
  /\ UNCHANGED <<workload, remote>>

AgentsReady ==
  /\ pc = "agents"
  /\ SaveK3s("agents_ready", Len(Hosts), Len(Agents), ca, volume.filesystem, "nodes", 1)
  /\ UNCHANGED <<workload, remote>>

\* Exactly the expected nodes are ready.
NodesReady ==
  /\ service = HostSet
  /\ \A h \in AgentSet : token[h] = ca

\* CoreDNS is up where it was pinned.
ServicesReady == "control" \in service /\ pinned

ClusterAttested == NodesReady /\ ServicesReady

AttestCluster ==
  /\ pc = "nodes"
  /\ \/ /\ ClusterAttested
        /\ SaveK3s("cluster_ready", Len(Hosts), Len(Agents), ca, volume.filesystem, "workload", 1)
     \/ ~ClusterAttested /\ Keep /\ Refuse
     \/ Keep /\ Lost
  /\ UNCHANGED <<workload, remote>>

K3sStep ==
  \/ PrepareHost \/ InstallArtifact \/ PreflightHost \/ HostsPrepared \/ MountVolume
  \/ InitializeTokens \/ StartServer \/ ServerReadiness \/ PinSystemServices \/ ReadAgentToken
  \/ BeginJoining \/ InstallAgentToken \/ JoinAgent \/ AgentReadiness \/ AgentsReady
  \/ AttestCluster
===============================================================================
