---------------------------- MODULE ClientCalls ----------------------------
(***************************************************************************)
(* The calls of the Go client: every exported method dials the server,     *)
(* fills a request setter by setter, sends it, waits and decodes the       *)
(* answer.  The caller chooses the method and the configuration; setters   *)
(* and decoders may fail, and the connection may break at any point, after *)
(* the server has got the request included.  The server may be older than  *)
(* the client: before minor version 5 it has no createNamespaces, and      *)
(* before version 6 its schema ends before the metadata list.              *)
(*                                                                         *)
(* A configuration is the set of the fields that are not zero, the list of *)
(* log drivers or namespaces, and where the base path comes from.  A field *)
(* that is given holds its own name, so that no two fields can be mixed up *)
(* unnoticed.                                                              *)
(***************************************************************************)
EXTENDS ConmonProto

CONSTANTS
    Configs(_),     \* the configurations a caller of the method may pass
    Answers(_),     \* the response fields the server's handler may fill
    MaxCalls,       \* bound on the calls of one client
    MaxRetries      \* bound on the repetitions of failed calls beyond them

ASSUME BoundsAssumption == MaxCalls \in Nat \ {0} /\ MaxRetries \in Nat

(* The fields of the configuration types, under the names of the schema,   *)
(* but for the log drivers, the namespaces and the base path; the two ID   *)
(* mappings are one field, and a window size may be missing.               *)
VersionConfig == {"verbose"}

CreateContainerConfig ==
    {"id", "bundlePath", "terminal", "stdin", "exitPaths", "oomExitPaths", "cleanupCmd",
     "globalArgs", "commandArgs", "envVars", "cgroupManager", "additionalFds", "leakFds"}

ExecSyncConfig == {"id", "command", "timeoutSec", "terminal", "envVars", "cgroupManager"}

AttachConfig == {"id", "socketPath", "execSessionId", "stopAfterStdinEof"}

ReopenLogContainerConfig == {"id"}

SetWindowSizeContainerConfig == {"id", "size", "width", "height"}

CreateNamespacesConfig == {"uidMappings", "gidMappings", "podId"}

ConfigFields ==
    [version |-> VersionConfig, createContainer |-> CreateContainerConfig,
     execSyncContainer |-> ExecSyncConfig, attachContainer |-> AttachConfig,
     reopenLogContainer |-> ReopenLogContainerConfig,
     setWindowSizeContainer |-> SetWindowSizeContainerConfig,
     createNamespaces |-> CreateNamespacesConfig, startFdSocket |-> {}]

(* Log drivers and namespaces are members of their enumerations.           *)
ASSUME ConfigsAssumption ==
    \A m \in Method : \A cfg \in Configs(m) :
        /\ cfg.given \subseteq ConfigFields[m]
        /\ cfg.base \in {"given", "empty"}
        /\ m = "createContainer" => cfg.items \in Seq({"containerRuntimeInterface", "json"})
        /\ m = "createNamespaces" => cfg.items \in Seq({"IPC", "PID", "Net", "User", "UTS"})

(* A handler fills in fields of its response only, the version handler the *)
(* version and the createNamespaces handler the namespaces in any case.    *)
ASSUME AnswersAssumption ==
    \A m \in Method : \A answer \in Answers(m) :
        /\ answer \subseteq DOMAIN Response[m].slots
        /\ DOMAIN Response[m].slots \cap {"version", "namespaces"} \subseteq answer

VARIABLES
    client,     \* [tracing, cgroup, serverVersion]: the ConmonClient
    server,     \* the minor version of the server
    pc,         \* "idle", "dial", "fill", "await" or "decode"
    call,       \* [method, given, items, base]: the call under way
    at,         \* the setter that runs next
    req,        \* the contents of the request
    calls,      \* how many calls were begun, the serial number of the last
    wires,      \* the messages on their way to the server
    seen,       \* what the last handler of the server got
    reply,      \* [mem, answer]: the results message and the fields it was made from
    result      \* [status, values]: what the method returned

vars == << client, server, pc, call, at, req, calls, wires, seen, reply, result >>

None == [none |-> TRUE]

Tracing == {"off", "noop", "on"}    \* "noop": tracing without a span ID
PerCommand == 65535
GoNamespace == [IPC |-> 0, PID |-> 1, Net |-> 2, User |-> 3, UTS |-> 4]

-----------------------------------------------------------------------------
(* Conversions of the client.                                              *)

Given(f) == IF f \in call.given THEN << f >> ELSE Zero

stringSliceToTextList(struct, f) ==
    IF f \in call.given THEN SetField(struct, req, f, << f >>) ELSE req

remoteFDSliceToUInt64List(struct, f) ==
    IF f \in call.given THEN SetField(struct, req, f, << f >>) ELSE req

MapEntry(f) ==
    WriteAll(TextTextMapEntry, [key |-> << f, "key" >>, value |-> << f, "value" >>])

stringStringMapToMapEntryList(struct, f, map) ==
    IF map # {} THEN SetField(struct, req, f, << MapEntry(f) >>) ELSE req

(* The global setting wins unless it asks for the one of the command.      *)
setCgroupManager(struct) ==
    LET cfg == CgroupManager[IF "cgroupManager" \in call.given THEN "cgroupfs"
                                                               ELSE "systemd"]
    IN  SetField(struct, req, "cgroupManager",
                 Number(IF client.cgroup = PerCommand THEN cfg ELSE client.cgroup))

initLogDrivers ==
    SetField(CreateContainerRequest, req, "logDrivers",
             [i \in DOMAIN call.items |->
                 WriteAll(LogDriver,
                          [type |-> Number(LogDriver_Type[call.items[i]]),
                           path |-> << "path", i >>, maxSize |-> << "maxSize", i >>])])

(* The switch over the client's namespace numbers.                         *)
NamespaceToProto(ns) ==
    CASE ns = "IPC" -> Namespace["ipc"]
      [] ns = "Net" -> Namespace["net"]
      [] ns = "PID" -> Namespace["pid"]
      [] ns = "User" -> Namespace["user"]
      [] ns = "UTS" -> Namespace["uts"]

WantsUser == "User" \in Range(call.items)

MissingIDMappings == WantsUser /\ ~({"uidMappings", "gidMappings"} \subseteq call.given)

setNamespaces ==
    LET list == [i \in DOMAIN call.items |-> Number(NamespaceToProto(call.items[i]))]
        mem == SetField(CreateNamespacesRequest, req, "namespaces", list)
        mapped == SetField(CreateNamespacesRequest, mem, "uidMappings", << "uidMappings" >>)
    IN  IF WantsUser
        THEN SetField(CreateNamespacesRequest, mapped, "gidMappings", << "gidMappings" >>)
        ELSE mem

(* The default replaces an empty base path in the caller's configuration.  *)
defaultBasePath == IF call.base = "empty" THEN "/var/run" ELSE call.base

(* The map of the tracing context, empty without a span ID.                *)
spanMap == IF client.tracing = "on" THEN {"metadata"} ELSE {}

jsonMarshal(map) == << "json", map >>

setMetadata(struct, f) ==
    CASE client.tracing = "off" -> req
      [] client.tracing # "off" /\ f = "metadata" ->
            stringStringMapToMapEntryList(struct, f, spanMap)
      [] client.tracing # "off" /\ f = "metadataOld" ->
            SetField(struct, req, f, jsonMarshal(spanMap))

-----------------------------------------------------------------------------
(* The setters of each method in the order of its closure.  The fd socket  *)
(* request has no metadataOld: it is newer than the list.                  *)

Metadata == << "metadata", "metadataOld" >>

VersionFill == Metadata \o << "verbose" >>

CreateContainerFill ==
    Metadata \o << "id", "bundlePath", "terminal", "stdin", "exitPaths", "oomExitPaths",
                   "logDrivers", "cleanupCmd", "globalArgs", "commandArgs", "envVars",
                   "cgroupManager", "additionalFds", "leakFds" >>

ExecSyncContainerFill ==
    Metadata \o << "id", "timeoutSec", "command", "terminal", "envVars", "cgroupManager" >>

AttachContainerFill == Metadata \o << "id", "socketPath", "stopAfterStdinEof" >>

ReopenLogContainerFill == Metadata \o << "id" >>

SetWindowSizeContainerFill == Metadata \o << "id", "width", "height" >>

CreateNamespacesFill == Metadata \o << "namespaces", "basePath", "podId" >>

RemoteFDsFill == << "metadata" >>

FillOrder ==
    [version |-> VersionFill, createContainer |-> CreateContainerFill,
     execSyncContainer |-> ExecSyncContainerFill, attachContainer |-> AttachContainerFill,
     reopenLogContainer |-> ReopenLogContainerFill,
     setWindowSizeContainer |-> SetWindowSizeContainerFill,
     createNamespaces |-> CreateNamespacesFill, startFdSocket |-> RemoteFDsFill]

TextLists == {"exitPaths", "oomExitPaths", "cleanupCmd", "globalArgs", "commandArgs", "command"}
FDLists == {"additionalFds", "leakFds"}

Setter(struct, f) ==
    CASE f \in Range(Metadata) -> setMetadata(struct, f)
      [] f \in TextLists -> stringSliceToTextList(struct, f)
      [] f \in FDLists -> remoteFDSliceToUInt64List(struct, f)
      [] f = "envVars" -> stringStringMapToMapEntryList(struct, f, call.given \cap {f})
      [] f = "cgroupManager" -> setCgroupManager(struct)
      [] f = "logDrivers" -> initLogDrivers
      [] f = "namespaces" -> setNamespaces
      [] f = "basePath" -> SetField(struct, req, f, << defaultBasePath >>)
      [] OTHER -> SetField(struct, req, f, Given(f))

(* Only a setter that allocates can fail.                                  *)
Allocates(struct, f) == struct.slots[f].sect = "ptr"

-----------------------------------------------------------------------------
(* The client.                                                             *)

Return(status, values) ==
    /\ pc' = "idle"
    /\ result' = [status |-> status, values |-> values]

(* Faulty: the gate of CreateNamespaces one version too low.               *)
UnsupportedBelow4(c) == c.method = "createNamespaces" /\ client.serverVersion < 4

(* The gate of CreateNamespaces and the check of SetWindowSizeContainer    *)
(* come before the connection.                                             *)
Unsupported(c) == c.method = "createNamespaces" /\ client.serverVersion < 5
SizeNil(c) == c.method = "setWindowSizeContainer" /\ "size" \notin c.given

Refusal(c) ==
    CASE Unsupported(c) -> "ErrUnsupported"
      [] SizeNil(c) -> "errTerminalSizeNil"
      [] OTHER -> "none"

Begin(c) ==
    /\ pc = "idle"
    /\ calls' = calls + 1
    /\ call' = c
    /\ at' = 1
    /\ req' = << >>
    /\ seen' = None
    /\ reply' = None
    /\ IF Refusal(c) = "none"
       THEN pc' = "dial" /\ result' = None
       ELSE Return(Refusal(c), << >>)
    /\ UNCHANGED << client, server, wires >>

(* New has the server's version before the caller gets the client.         *)
Call(m) ==
    /\ calls < MaxCalls
    /\ client.serverVersion >= 0 \/ m = "version"
    /\ \E cfg \in Configs(m) :
          Begin([method |-> m, given |-> cfg.given, items |-> cfg.items, base |-> cfg.base])

(* A caller repeats a failed call with the same configuration.             *)
Retry ==
    /\ calls < MaxCalls + MaxRetries
    /\ result # None
    /\ result.status = "error"
    /\ Begin(call)

newRPCConn ==
    /\ pc = "dial"
    /\ pc' = "fill"
    /\ UNCHANGED << client, server, call, at, req, calls, wires, seen, reply, result >>

newRPCConnFails ==
    /\ pc = "dial"
    /\ Return("error", << >>)
    /\ UNCHANGED << client, server, call, at, req, calls, wires, seen, reply >>

Filling == pc = "fill" /\ at \in DOMAIN FillOrder[call.method]

Fill ==
    /\ Filling
    /\ LET f == FillOrder[call.method][at]
       IN  /\ ~(f = "namespaces" /\ MissingIDMappings)
           /\ req' = Setter(Request[call.method], f)
           /\ call' = IF f = "basePath" THEN [call EXCEPT !.base = defaultBasePath] ELSE call
    /\ at' = at + 1
    /\ UNCHANGED << client, server, pc, calls, wires, seen, reply, result >>

(* The closure returns the setter's error and the call is never sent.      *)
FillFails ==
    /\ Filling
    /\ LET f == FillOrder[call.method][at]
       IN  /\ Allocates(Request[call.method], f)
           /\ call' = IF f = "basePath" THEN [call EXCEPT !.base = defaultBasePath] ELSE call
    /\ Return("error", << >>)
    /\ UNCHANGED << client, server, at, req, calls, wires, seen, reply >>

FillRefused ==
    /\ Filling
    /\ FillOrder[call.method][at] = "namespaces"
    /\ MissingIDMappings
    /\ Return("ErrMissingIDMappings", << >>)
    /\ UNCHANGED << client, server, call, at, req, calls, wires, seen, reply >>

SendCall ==
    /\ pc = "fill"
    /\ at = Len(FillOrder[call.method]) + 1
    /\ pc' = "await"
    /\ wires' = wires \cup
          {[serial |-> calls, of |-> call, method |-> MethodID[call.method],
            params |-> WriteAll(Params, [request |-> << req >>])]}
    /\ UNCHANGED << client, server, call, at, req, calls, seen, reply, result >>

(* The connection breaks or the context ends: the request may have been    *)
(* served, and may still be.                                               *)
Broken ==
    /\ pc = "await"
    /\ Return("error", << >>)
    /\ UNCHANGED << client, server, call, at, req, calls, wires, seen, reply >>

futureStruct ==
    /\ pc = "await"
    /\ reply # None
    /\ pc' = "decode"
    /\ UNCHANGED << client, server, call, at, req, calls, wires, seen, reply, result >>

-----------------------------------------------------------------------------
(* Decoding.                                                               *)

(* The version text the server sends, and its parser.                      *)
VersionText(minor) == << "version", minor >>
semverParse(text) ==
    IF \E n \in 0..9 : text = VersionText(n)
    THEN CHOOSE n \in 0..9 : text = VersionText(n) ELSE -1

(* Faulty: the number of the schema taken for the client's.                *)
NamespaceFromProtoCast(n) ==
    CHOOSE ns \in DOMAIN GoNamespace : n = Number(GoNamespace[ns])

NamespaceFromProto(n) ==
    CASE n = Number(Namespace["ipc"]) -> "IPC"
      [] n = Number(Namespace["net"]) -> "Net"
      [] n = Number(Namespace["pid"]) -> "PID"
      [] n = Number(Namespace["user"]) -> "User"
      [] n = Number(Namespace["uts"]) -> "UTS"
      [] OTHER -> "IPC"

NamespacesResponse(list) ==
    [i \in DOMAIN list |->
        LET ns == ReadAll(list[i], NamespaceResponse.slots)
        IN  [type |-> NamespaceFromProto(ns.type), path |-> ns.path]]

ReplyFields ==
    LET response == Read(reply.mem, Results.slots["response"])
    IN  ReadAll(IF response = Zero THEN << >> ELSE response[1], Response[call.method].slots)

Returned(m, fields) ==
    CASE m = "createNamespaces" -> [namespaces |-> NamespacesResponse(fields.namespaces)]
      [] m = "version" -> [f \in DOMAIN fields \ {"metadata"} |-> fields[f]]
      [] OTHER -> fields

serverVersionAfter ==
    IF call.method = "version" THEN semverParse(ReplyFields.version)
                               ELSE client.serverVersion

Decode ==
    /\ pc = "decode"
    /\ Return("ok", Returned(call.method, ReplyFields))
    /\ client' = [client EXCEPT !.serverVersion = serverVersionAfter]
    /\ UNCHANGED << server, call, at, req, calls, wires, seen, reply >>

(* A pointer of the response cannot be read: before or after Version has   *)
(* stored the parsed version.                                              *)
DecodeFails ==
    /\ pc = "decode"
    /\ Return("error", << >>)
    /\ client' \in {client, [client EXCEPT !.serverVersion = serverVersionAfter]}
    /\ UNCHANGED << server, call, at, req, calls, wires, seen, reply >>

-----------------------------------------------------------------------------
(* The server: it dispatches on the number of the method and reads the     *)
(* request with the slots of its own schema.                               *)

(* The fields an older server knows: those before the metadata list.       *)
Known(m) ==
    LET Name(i) == SchemaRequest[m][i][1]
    IN  {Name(i) : i \in {k \in DOMAIN SchemaRequest[m] :
                             server >= 6 \/ \A j \in 1..k : Name(j) # "metadata"}}

Implements(m) ==
    /\ m = "createNamespaces" => server >= 5
    /\ m = "startFdSocket" => server >= 6

Structs(list, slots) == [i \in DOMAIN list |-> ReadAll(list[i], slots)]

HandlerReads(f, value) ==
    CASE f \in {"metadata", "envVars"} -> Structs(value, MapEntrySlots)
      [] f = "logDrivers" ->
            [i \in DOMAIN value |->
                LET d == ReadAll(value[i], LogDriverSlots)
                IN  [d EXCEPT !.type = Enumerator(SchemaLogDriverType, @)]]
      [] f = "cgroupManager" -> Enumerator(SchemaCgroupManager, value)
      [] f = "namespaces" -> [i \in DOMAIN value |-> Enumerator(SchemaNamespace, value[i])]
      [] OTHER -> value

HandlerFields(m, mem) ==
    [f \in Known(m) |-> HandlerReads(f, Read(mem, RequestSlots[m][f]))]

(* What the handler puts into a field of its response.                     *)
AnswerValue(m, f) ==
    CASE f = "version" -> VersionText(server)
      [] f = "namespaces" ->
            [i \in DOMAIN SchemaNamespace |->
                WriteAll(ServerStruct(NamespaceResponseSlots),
                         [type |-> Number(i - 1), path |-> << SchemaNamespace[i] >>])]
      [] OTHER -> << f >>

(* Handlers of methods with an empty response leave the results alone.     *)
ServerReply(m, given) ==
    IF Response[m] = EmptyResponse THEN << >>
    ELSE WriteAll(Results, [response |-> <<
            WriteAll(ServerStruct(ResponseSlots[m]), [f \in given |-> AnswerValue(m, f)]) >>])

Serve ==
    \E w \in wires :
        LET m == SchemaMethods[w.method + 1]
            mem == Read(w.params, Ptr(0))[1]
        IN  /\ Implements(m)
            /\ wires' = wires \ {w}
            /\ \E given \in Answers(m) :
                  /\ seen' = [of |-> w.of, method |-> m, fields |-> HandlerFields(m, mem)]
                  /\ reply' = IF w.serial = calls
                              THEN [mem |-> ServerReply(m, given), answer |-> given]
                              ELSE reply
            /\ UNCHANGED << client, server, pc, call, at, req, calls, result >>

(* The handler fails, or the server has no such method.                    *)
ServeError ==
    \E w \in wires :
        /\ wires' = wires \ {w}
        /\ IF w.serial = calls /\ pc = "await"
           THEN Return("error", << >>)
           ELSE UNCHANGED << pc, result >>
        /\ UNCHANGED << client, server, call, at, req, calls, seen, reply >>

-----------------------------------------------------------------------------
Init ==
    /\ client \in [tracing : Tracing, serverVersion : {-1},
                   cgroup : {CgroupManager["systemd"], CgroupManager["cgroupfs"], PerCommand}]
    /\ server \in {4, 5, 6}
    /\ pc = "idle"
    /\ call = None
    /\ at = 1
    /\ req = << >>
    /\ calls = 0
    /\ wires = {}
    /\ seen = None
    /\ reply = None
    /\ result = None

Next ==
    \/ \E m \in Method : Call(m)
    \/ Retry
    \/ newRPCConn \/ newRPCConnFails
    \/ Fill \/ FillFails \/ FillRefused \/ SendCall
    \/ Broken \/ futureStruct \/ Decode \/ DecodeFails
    \/ Serve \/ ServeError

Spec == Init /\ [][Next]_vars

-----------------------------------------------------------------------------
(* The state has the shape the declarations give it: a call that was       *)
(* answered, by the server or by the client itself, is no longer under way *)
(* (the single return of every client method).                             *)
TypeOK ==
    /\ client.serverVersion \in -1..9
    /\ pc \in {"idle", "dial", "fill", "await", "decode"}
    /\ call = None \/ call.method \in Method
    /\ at \in 1..17
    /\ calls \in 0..(MaxCalls + MaxRetries)
    /\ \A w \in wires : w.serial \in 1..calls /\ w.method \in 0..7
    /\ result # None => pc = "idle"
    /\ result # None => result.status \in {"ok", "error", "ErrUnsupported",
                                           "errTerminalSizeNil", "ErrMissingIDMappings"}

ProtoName == [IPC |-> "ipc", PID |-> "pid", Net |-> "net", User |-> "user", UTS |-> "uts"]

(* What a configuration tells the server, field by field, with the names   *)
(* of the schema.                                                          *)
Meaning(c, f) ==
    LET Entry == [key |-> << f, "key" >>, value |-> << f, "value" >>]
    IN  CASE f = "metadata" -> IF client.tracing = "on" THEN << Entry >> ELSE << >>
          [] f = "metadataOld" ->
                IF client.tracing = "off" THEN << >> ELSE jsonMarshal(spanMap)
          [] f = "envVars" -> IF f \in c.given THEN << Entry >> ELSE << >>
          [] f = "logDrivers" ->
                [i \in DOMAIN c.items |->
                    [type |-> c.items[i], path |-> << "path", i >>,
                     maxSize |-> << "maxSize", i >>]]
          [] f = "cgroupManager" ->
                IF \/ client.cgroup = CgroupManager["cgroupfs"]
                   \/ client.cgroup = PerCommand /\ f \in c.given
                THEN "cgroupfs" ELSE "systemd"
          [] f = "namespaces" -> [i \in DOMAIN c.items |-> ProtoName[c.items[i]]]
          [] f \in {"uidMappings", "gidMappings"} ->
                IF "User" \in Range(c.items) THEN << f >> ELSE << >>
          [] f = "basePath" -> IF c.base = "given" THEN << "given" >> ELSE << "/var/run" >>
          [] OTHER -> IF f \in c.given THEN << f >> ELSE << >>

(* The exec session of AttachConfig ("if this is an attach for an Exec")   *)
(* has no setter yet ("TODO: add exec session").                           *)
Forgotten == {"execSessionId"}

(* A handler of the server, of this version or an older one, gets the call *)
(* the caller made: the same method, and in every field its schema knows   *)
(* exactly what the configuration means.  Of all that the configuration    *)
(* types offer only the exec session is lost; nothing is shifted into      *)
(* another field, or sent before a setter that failed; a repeated call     *)
(* means the same as the first; the tracing context arrives in both        *)
(* encodings.  About the closures of client.go, attach.go and              *)
(* remote_fds.go, the list converters of capnp_util.go and the generated   *)
(* setters.                                                                *)
RequestFaithful ==
    seen # None =>
        /\ seen.method = seen.of.method
        /\ \A f \in DOMAIN seen.fields :
              seen.fields[f] = IF f \in Forgotten THEN Zero ELSE Meaning(seen.of, f)

(* A call that succeeds was answered by the server and returns the answer, *)
(* field by field; the namespaces keep their types through the two         *)
(* numberings of the client and the schema; and after Version the client   *)
(* knows the version of the server it talks to.  About the decoding half   *)
(* of the client methods and the generated getters.                        *)
ResponseFaithful ==
    result # None /\ result.status = "ok" =>
        /\ reply # None
        /\ CASE call.method = "createNamespaces" ->
                   /\ Len(result.values.namespaces) = Len(SchemaNamespace)
                   /\ \A i \in DOMAIN SchemaNamespace :
                         LET ns == result.values.namespaces[i]
                         IN  /\ ns.path = << SchemaNamespace[i] >>
                             /\ ProtoName[ns.type] = SchemaNamespace[i]
             [] call.method = "version" ->
                   /\ client.serverVersion = server
                   /\ \A f \in DOMAIN result.values \ {"version"} :
                         result.values[f] = IF f \in reply.answer THEN << f >> ELSE Zero
             [] OTHER ->
                   \A f \in DOMAIN result.values :
                       result.values[f] = IF f \in reply.answer THEN << f >> ELSE Zero

(* createNamespaces is refused exactly for servers older than 0.5.0: no    *)
(* such server is ever sent one, whatever earlier calls of Version failed, *)
(* and no newer one is called unsupported.  About the version the client   *)
(* stores and the gate of CreateNamespaces.                                *)
GateMatchesServer ==
    /\ \A w \in wires : w.of.method = "createNamespaces" => server >= 5
    /\ result # None /\ result.status = "ErrUnsupported" => server < 5
=============================================================================
