-------------------------------- MODULE OciRun --------------------------------
(***************************************************************************)
(* A compact run on OCI (app/main.py): provision_oci and                   *)
(* destroy_oci_resources.                                                  *)
(*                                                                         *)
(* Nothing is saved before a create, so one whose answer is lost is not    *)
(* known afterwards.  Deleting what is gone succeeds, and the identities of*)
(* all but instances are never removed.                                    *)
(***************************************************************************)
EXTENDS CompactCloud

OciOrder ==
  <<"vcn", "igw", "nat", "routeTable", "securityList", "subnet", "instance",
    "volume", "attachment", "loadgen", "peerRouteTable", "peerSubnet", "peer">>

OciWanted ==
  {"vcn", "igw", "nat", "routeTable", "securityList", "subnet", "instance"}
    \cup (IF "volume" \in plan THEN {"volume", "attachment"} ELSE {})
    \cup (IF "peer" \in plan THEN {"peerRouteTable", "peerSubnet", "peer"} ELSE {})
    \cup (IF "loadgen" \in plan THEN {"loadgen"} ELSE {})

OciInstances == {"instance", "loadgen", "peer"}

\* Created with their table: its route to the internet, or to the NAT gateway.
OciRouteOf(r) ==
  CASE r = "routeTable" -> {"route"} [] r = "peerRouteTable" -> {"peerRoute"}
    [] OTHER -> {}

OciHolds ==
  ({"igw", "nat", "routeTable", "peerRouteTable", "securityList", "subnet",
    "peerSubnet"} \X {"vcn"})
    \cup ({"subnet", "peerSubnet"} \X {"securityList"})
    \cup {<<"route", "igw">>, <<"peerRoute", "nat">>,
          <<"subnet", "routeTable">>, <<"peerSubnet", "peerRouteTable">>,
          <<"instance", "subnet">>, <<"loadgen", "subnet">>, <<"peer", "peerSubnet">>,
          <<"attachment", "volume">>}

OciCarries ==
  {<<"attachment", "instance">>, <<"route", "routeTable">>,
   <<"peerRoute", "peerRouteTable">>}

-------------------------------------------------------------------------------
(* provision_oci                                                           *)

OciCreate(r) ==
  /\ Provisioning(OciOrder, r) /\ r \in OciWanted
  /\ LET parts == {r} \cup OciRouteOf(r)
     IN Accept(parts, {r}) \/ Lose({}, {{}, parts})

OciCreateNetwork ==
  \E r \in {"vcn", "igw", "nat", "routeTable", "securityList", "subnet",
            "peerRouteTable", "peerSubnet"} : OciCreate(r)

OciLaunch == \E r \in OciInstances : OciCreate(r)

OciCreateStorage == \E r \in {"volume", "attachment"} : OciCreate(r)

OciProvision ==
  OciCreateNetwork \/ OciLaunch \/ OciCreateStorage \/ Omit(OciOrder, OciWanted)

-------------------------------------------------------------------------------
(* destroy_oci_resources                                                   *)

\* Mistake: the gateways come before the routes that lead to them.
OciStepsGatewaysFirst ==
  <<"instance", "loadgen", "peer", "volume", "peerSubnet", "subnet", "nat", "igw",
    "clearPeer", "clearPublic", "securityList", "peerRouteTable", "routeTable",
    "vcn", "end">>

OciSteps ==
  <<"instance", "loadgen", "peer", "volume", "peerSubnet", "subnet",
    "clearPeer", "clearPublic", "securityList", "peerRouteTable", "routeTable",
    "nat", "igw", "vcn", "end">>

OciDelete(r) ==
  /\ Cleaning(OciSteps, r)
  /\ IF r \in ids
     THEN Delete(r, OciHolds, OciCarries, {r} \cap OciInstances) ELSE Skip

\* clear_route_table_rules: gateways cannot go while a route leads to them.
OciClearRoutes(s, table) ==
  /\ Cleaning(OciSteps, s)
  /\ IF table \in ids
     THEN \/ /\ cloud' = cloud \ OciRouteOf(table)
             /\ UNCHANGED <<record, pass>>
             /\ Calmly
             /\ Advance
          \/ /\ failed' = TRUE
             /\ cloud' \in {cloud, cloud \ OciRouteOf(table)}
             /\ UNCHANGED <<record, found>>
             /\ Fault
             /\ Advance
     ELSE Skip

OciFinish ==
  /\ Cleaning(OciSteps, "end")
  /\ Finish(~failed)

OciCleanup ==
  \/ \E r \in OciInstances
                \cup {"volume", "peerSubnet", "subnet", "securityList",
                      "peerRouteTable", "routeTable", "nat", "igw", "vcn"} : OciDelete(r)
  \/ OciClearRoutes("clearPeer", "peerRouteTable")
  \/ OciClearRoutes("clearPublic", "routeTable")
  \/ OciFinish

OciNext ==
  /\ provider = "oci" /\ UNCHANGED foreign
  /\ OciProvision \/ OciCleanup
===============================================================================
