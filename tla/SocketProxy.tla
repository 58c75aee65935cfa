---------------------------- MODULE SocketProxy ----------------------------
(***************************************************************************)
(* The two sides of the Docker socket proxy: the requests the compose      *)
(* backend sends (docker/client.go, docker/spawn.go) and the policy that   *)
(* decides which of them Docker sees (infra/socket-proxy).  They are       *)
(* deployed with settings of their own, so o is the orchestrator's and p   *)
(* the proxy's; "" is a setting that is not given.                         *)
(*                                                                         *)
(* A body is the set of fields it gives and the values the policy looks    *)
(* at.  Names are plain; networks are referred to by name, and "internal"  *)
(* is the network created for the spawn.                                   *)
(***************************************************************************)
EXTENDS Integers, Sequences

egressNetworkName(o) == IF o.net = "" THEN "runsecure-egress" ELSE o.net

-----------------------------------------------------------------------------
(* What the backend sends.                                                 *)

Request(method, path, body) == [method |-> method, path |-> path, body |-> body]
NoBody == [fields |-> {}]

Networks(o, x) == {"internal"} \cup IF x = "proxy" THEN {egressNetworkName(o)} ELSE {}

\* The egress volume, read-only.
Binds(o, x) ==
    IF x = "proxy" THEN {[source |-> o.vol, target |-> "/egress", mode |-> "ro"]} ELSE {}

Limits == {"Memory", "NanoCpus", "PidsLimit"}
\* Mutant: the client asks for an option that is not part of the schema.
HostFieldsWithInit(o, x) ==
    {"CapDrop", "SecurityOpt", "NetworkMode", "Tmpfs", "Init"}
        \cup (IF x = "proxy" THEN {"Binds", "ReadonlyRootfs"} ELSE Limits)
HostFields(o, x) ==
    {"CapDrop", "SecurityOpt", "NetworkMode", "Tmpfs"}
        \cup (IF x = "proxy" THEN {"Binds", "ReadonlyRootfs"} ELSE Limits)

\* A runner.yml may still name a seccomp profile.
HostConfig(o, x) ==
    [fields |-> HostFields(o, x), capDrop |-> {"ALL"}, networkMode |-> "internal", ipcMode |-> "",
     securityOpt |-> {"no-new-privileges"} \cup (IF x = "runner" /\ o.seccomp THEN {"seccomp"} ELSE {}),
     binds |-> Binds(o, x),
     tmpfs |-> {{"noexec", "nosuid", "nodev"} \cup (IF x = "proxy" THEN {"uid", "gid", "mode"} ELSE {"size"})}]

CreateContainerRequest(o, x) ==
    Request("POST", <<"containers", "create">>,
        [fields |-> {"Image", "User", "Env", "Labels", "HostConfig", "NetworkingConfig"}
                        \cup (IF x = "runner" THEN {"Entrypoint"} ELSE {}),
         image |-> IF x = "proxy" THEN o.proxyImage ELSE o.runnerImage,
         user |-> <<1001, 0>>, role |-> x, host |-> HostConfig(o, x), networks |-> Networks(o, x)])

CreateNetworkRequest ==
    Request("POST", <<"networks", "create">>,
        [fields |-> {"Name", "Driver", "Internal", "Attachable", "Labels"},
         driver |-> "bridge", internal |-> TRUE, attachable |-> FALSE,
         labels |-> {"runsecure.scope", "runsecure.repo", "runsecure.spawn_id"}])

CreateRequest(o, x) == IF x = "network" THEN CreateNetworkRequest ELSE CreateContainerRequest(o, x)
StartRequest(x) == Request("POST", <<"containers", x, "start">>, NoBody)
InspectRequest(x) == Request("GET", <<"containers", x, "json">>, NoBody)
DeleteRequest(x) ==
    Request("DELETE", <<IF x = "network" THEN "networks" ELSE "containers", x>>, NoBody)
ListRequests == {Request("GET", <<"containers", "json">>, NoBody), Request("GET", <<"networks">>, NoBody)}

\* Everything the orchestrator ever asks Docker for.
Requests(o) ==
    ListRequests
        \cup (UNION {{CreateRequest(o, x), DeleteRequest(x)} : x \in {"network", "proxy", "runner"}})
        \cup (UNION {{StartRequest(x), InspectRequest(x)} : x \in {"proxy", "runner"}})

-----------------------------------------------------------------------------
(* What the proxy lets through.                                            *)

\* "*" is any one segment; the version prefix is taken off before.
\* Mutant: networks cannot be deleted.
RoutesWithoutNetworkDelete ==
    {<<"GET", <<"containers", "json">>>>, <<"GET", <<"containers", "*", "json">>>>,
     <<"POST", <<"containers", "create">>>>, <<"POST", <<"containers", "*", "start">>>>,
     <<"DELETE", <<"containers", "*">>>>, <<"GET", <<"networks">>>>,
     <<"POST", <<"networks", "create">>>>}
allowedRoutes ==
    {<<"GET", <<"info">>>>, <<"GET", <<"version">>>>,
     <<"GET", <<"containers", "json">>>>, <<"GET", <<"containers", "*", "json">>>>,
     <<"POST", <<"containers", "create">>>>, <<"POST", <<"containers", "*", "start">>>>,
     <<"DELETE", <<"containers", "*">>>>,
     <<"GET", <<"networks">>>>, <<"POST", <<"networks", "create">>>>, <<"DELETE", <<"networks", "*">>>>}

RouteAllowed(r) ==
    \E a \in allowedRoutes :
        /\ a[1] = r.method /\ Len(a[2]) = Len(r.path)
        /\ \A i \in 1..Len(r.path) : a[2][i] \in {"*", r.path[i]}

\* The schema, and the fields of it that must keep their zero value.
ContainerSchema == {"Image", "User", "Env", "Cmd", "Entrypoint", "Labels", "HostConfig", "NetworkingConfig"}
Denied == {"Privileged", "CapAdd", "Devices", "PidMode", "UTSMode", "UsernsMode", "Sysctls"}
HostSchema ==
    Denied \cup {"CapDrop", "NetworkMode", "IpcMode", "SecurityOpt", "Binds", "Memory", "NanoCpus",
                 "PidsLimit", "ReadonlyRootfs", "AutoRemove", "Tmpfs"}
NetworkSchema == {"Name", "Driver", "Internal", "Attachable", "Labels"}

\* A field outside the schema is refused, whatever its value.
decodeCreate(fields, schema) == fields \subseteq schema

\* imageallow: every entry has a digest, or the proxy does not start.
Allowlist(p) == p.baked \cup p.extra
Loads(p) == \A image \in Allowlist(p) : image.digest
Allows(p, image) == image \in Allowlist(p)

nonRootIdentity(user) == user[1] > 0 /\ \A i \in 1..Len(user) : user[i] <= 2147483647

checkBinds(p, binds, role) ==
    \A b \in binds : p.vol # "" /\ b.source = p.vol /\ role = "proxy" /\ b.mode = "ro"

checkTmpfs(mounts) ==
    \A flags \in mounts :
        /\ {"noexec", "nosuid", "nodev"} \subseteq flags
        /\ flags \subseteq {"noexec", "nosuid", "nodev", "size", "uid", "gid", "mode"}

\* The egress network is the proxy's alone, when the gate is configured.
EgressGate(p, b) ==
    p.net # "" /\ b.role # "proxy" => p.net \notin b.networks \cup {b.host.networkMode}

ValidateContainerCreate(p, b) ==
    /\ decodeCreate(b.fields, ContainerSchema) /\ decodeCreate(b.host.fields, HostSchema)
    /\ Allows(p, b.image)
    /\ nonRootIdentity(b.user)
    /\ b.host.fields \cap Denied = {}
    /\ "ALL" \in b.host.capDrop
    /\ b.host.networkMode \notin {"host", "none", "container"} /\ b.host.ipcMode \in {"", "private"}
    /\ b.host.securityOpt = {"no-new-privileges"}
    /\ checkBinds(p, b.host.binds, b.role)
    /\ checkTmpfs(b.host.tmpfs)
    /\ EgressGate(p, b)

ValidateNetworkCreate(b) ==
    /\ decodeCreate(b.fields, NetworkSchema)
    /\ b.driver = "bridge" /\ b.internal /\ ~b.attachable
    /\ {"runsecure.scope", "runsecure.repo", "runsecure.spawn_id"} \subseteq b.labels

\* A proxy that did not start serves nothing.
ServeHTTP(p, r) ==
    /\ Loads(p)
    /\ RouteAllowed(r)
    /\ r.path = <<"containers", "create">> => ValidateContainerCreate(p, r.body)
    /\ r.path = <<"networks", "create">> => ValidateNetworkCreate(r.body)

-----------------------------------------------------------------------------
\* Settings that fit together, as the compose file writes them.
Alike(o, p) ==
    /\ Loads(p) /\ o.vol = p.vol /\ o.vol # "" /\ ~o.seccomp
    /\ Allows(p, o.proxyImage) /\ Allows(p, o.runnerImage)

=============================================================================
