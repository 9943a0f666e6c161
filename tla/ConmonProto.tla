---------------------------- MODULE ConmonProto ----------------------------
(***************************************************************************)
(* The messages of the client: the memory layout the generated Go          *)
(* accessors (internal/proto/conmon.capnp.go) give every struct, and the   *)
(* layout the schema (conmon.capnp) prescribes, which the server uses.     *)
(* A struct is a data section, addressed in bits, and a pointer section.   *)
(* An accessor reads or writes one slot of one of them.  The contents of a *)
(* struct are a function from the slots written so far to values; a value  *)
(* is a sequence, empty for zero, the empty text and the empty list.       *)
(***************************************************************************)
EXTENDS Integers, Sequences, FiniteSets, FiniteSetsExt, Functions

Bit(n) == [sect |-> "data", at |-> n, len |-> 1]
Uint16(byte) == [sect |-> "data", at |-> 8 * byte, len |-> 16]
Uint32(byte) == [sect |-> "data", at |-> 8 * byte, len |-> 32]
Uint64(byte) == [sect |-> "data", at |-> 8 * byte, len |-> 64]
Ptr(i) == [sect |-> "ptr", at |-> i, len |-> 1]

(* A generated struct type: its size, in bytes and pointers, and the slot  *)
(* of every accessor.                                                      *)
Struct(bytes, ptrs, slots) == [bytes |-> bytes, ptrs |-> ptrs, slots |-> slots]

(* The accessors of two parts of a struct.                                 *)
Join(s, t) ==
    [f \in DOMAIN s \cup DOMAIN t |-> IF f \in DOMAIN s THEN s[f] ELSE t[f]]

-----------------------------------------------------------------------------
(* The library: reading and writing slots.                                 *)

Zero == << >>
Garbled == << "garbled" >>

Overlap(s, t) ==
    /\ s.sect = t.sect
    /\ s.at < t.at + t.len
    /\ t.at < s.at + s.len

Fits(s, bytes, ptrs) == s.at + s.len <= (IF s.sect = "ptr" THEN ptrs ELSE 8 * bytes)

(* Writing one slot destroys what another accessor wrote into its bits; a  *)
(* slot outside the struct takes no value.                                 *)
Write(struct, mem, slot, value) ==
    IF Fits(slot, struct.bytes, struct.ptrs)
    THEN [s \in DOMAIN mem \cup {slot} |->
             IF s = slot THEN value ELSE IF Overlap(s, slot) THEN Garbled ELSE mem[s]]
    ELSE mem

(* A slot nobody wrote holds the default; bits of another slot are noise.  *)
Read(mem, slot) ==
    IF slot \in DOMAIN mem THEN mem[slot]
    ELSE IF \E s \in DOMAIN mem : Overlap(s, slot) THEN Garbled
    ELSE Zero

SetField(struct, mem, field, value) == Write(struct, mem, struct.slots[field], value)

(* All fields of a struct, read with the given slots.                      *)
ReadAll(mem, slots) == [f \in DOMAIN slots |-> Read(mem, slots[f])]

(* A struct written field by field from a record of values: fields that do *)
(* not fit are lost, fields that share bits spoil each other.              *)
WriteAll(struct, record) ==
    LET fitting == {f \in DOMAIN record : Fits(struct.slots[f], struct.bytes, struct.ptrs)}
        Alone(f) == \A g \in fitting \ {f} : ~Overlap(struct.slots[g], struct.slots[f])
        Of(s) == CHOOSE f \in fitting : struct.slots[f] = s
    IN  [s \in {struct.slots[f] : f \in fitting} |->
            IF Alone(Of(s)) THEN record[Of(s)] ELSE Garbled]

-----------------------------------------------------------------------------
(* The generated structs.                                                  *)

TextTextMapEntry == Struct(0, 2, [key |-> Ptr(0), value |-> Ptr(1)])

LogDriver == Struct(16, 1, [type |-> Uint16(0), path |-> Ptr(0), maxSize |-> Uint64(8)])

NamespaceResponse == Struct(8, 1, [type |-> Uint16(0), path |-> Ptr(0)])

VersionRequest ==
    Struct(8, 2, [verbose |-> Bit(0), metadataOld |-> Ptr(0), metadata |-> Ptr(1)])

VersionResponse ==
    Struct(8, 9, [processId |-> Uint32(0), version |-> Ptr(0), tag |-> Ptr(1),
                  commit |-> Ptr(2), buildDate |-> Ptr(3), target |-> Ptr(4),
                  rustVersion |-> Ptr(5), cargoVersion |-> Ptr(6),
                  cargoTree |-> Ptr(7), metadata |-> Ptr(8)])

CreateContainerIO ==
    [id |-> Ptr(0), bundlePath |-> Ptr(1), terminal |-> Bit(0), stdin |-> Bit(1),
     exitPaths |-> Ptr(2), oomExitPaths |-> Ptr(3), logDrivers |-> Ptr(4)]

CreateContainerRuntime ==
    [cleanupCmd |-> Ptr(5), globalArgs |-> Ptr(6), commandArgs |-> Ptr(7),
     metadataOld |-> Ptr(8), metadata |-> Ptr(9), envVars |-> Ptr(10),
     cgroupManager |-> Uint16(2)]

(* Faulty: both lists behind one pointer.                                  *)
CreateContainerFdsShared == [additionalFds |-> Ptr(11), leakFds |-> Ptr(11)]

CreateContainerFds == [additionalFds |-> Ptr(11), leakFds |-> Ptr(12)]

CreateContainerRequest ==
    Struct(8, 13, Join(Join(CreateContainerIO, CreateContainerRuntime), CreateContainerFds))

CreateContainerResponse == Struct(8, 0, [containerPid |-> Uint32(0)])

ExecSyncContainerRequest ==
    Struct(16, 5, [id |-> Ptr(0), timeoutSec |-> Uint64(0), command |-> Ptr(1),
                   terminal |-> Bit(64), metadataOld |-> Ptr(2), metadata |-> Ptr(3),
                   envVars |-> Ptr(4), cgroupManager |-> Uint16(10)])

ExecSyncContainerResponse ==
    Struct(8, 2, [exitCode |-> Uint32(0), stdout |-> Ptr(0), stderr |-> Ptr(1),
                  timedOut |-> Bit(32)])

AttachRequest ==
    Struct(8, 5, [id |-> Ptr(0), socketPath |-> Ptr(1), execSessionId |-> Ptr(2),
                  stopAfterStdinEof |-> Bit(0), metadataOld |-> Ptr(3),
                  metadata |-> Ptr(4)])

ReopenLogRequest ==
    Struct(0, 3, [id |-> Ptr(0), metadataOld |-> Ptr(1), metadata |-> Ptr(2)])

SetWindowSizeRequest ==
    Struct(8, 3, [id |-> Ptr(0), width |-> Uint16(0), height |-> Uint16(2),
                  metadataOld |-> Ptr(1), metadata |-> Ptr(2)])

CreateNamespacesRequest ==
    Struct(0, 7, [metadataOld |-> Ptr(0), namespaces |-> Ptr(1), uidMappings |-> Ptr(2),
                  gidMappings |-> Ptr(3), basePath |-> Ptr(4), podId |-> Ptr(5),
                  metadata |-> Ptr(6)])

CreateNamespacesResponse == Struct(0, 1, [namespaces |-> Ptr(0)])

StartFdSocketRequest == Struct(0, 1, [metadata |-> Ptr(0)])

StartFdSocketResponse == Struct(0, 1, [path |-> Ptr(0)])

(* The responses to attach, reopenLog and setWindowSize have no fields.    *)
EmptyResponse == Struct(0, 0, << >>)

(* Every method takes one request and gives one response.                  *)
Params == Struct(0, 1, [request |-> Ptr(0)])
Results == Struct(0, 1, [response |-> Ptr(0)])

(* The generated enumerations.                                             *)
LogDriver_Type == [containerRuntimeInterface |-> 0, json |-> 1]
CgroupManager == [systemd |-> 0, cgroupfs |-> 1]
Namespace == [ipc |-> 0, net |-> 1, pid |-> 2, user |-> 3, uts |-> 4]

(* An enumerator on the wire is a 16-bit number.                           *)
Number(n) == IF n = 0 THEN Zero ELSE << "number", n >>

(* The client stubs: the number each puts into the call.                   *)
MethodID ==
    [version |-> 0, createContainer |-> 1, execSyncContainer |-> 2,
     attachContainer |-> 3, reopenLogContainer |-> 4, setWindowSizeContainer |-> 5,
     createNamespaces |-> 6, startFdSocket |-> 7]

Method == DOMAIN MethodID

Request ==
    [version |-> VersionRequest, createContainer |-> CreateContainerRequest,
     execSyncContainer |-> ExecSyncContainerRequest, attachContainer |-> AttachRequest,
     reopenLogContainer |-> ReopenLogRequest,
     setWindowSizeContainer |-> SetWindowSizeRequest,
     createNamespaces |-> CreateNamespacesRequest,
     startFdSocket |-> StartFdSocketRequest]

Response ==
    [version |-> VersionResponse, createContainer |-> CreateContainerResponse,
     execSyncContainer |-> ExecSyncContainerResponse, attachContainer |-> EmptyResponse,
     reopenLogContainer |-> EmptyResponse, setWindowSizeContainer |-> EmptyResponse,
     createNamespaces |-> CreateNamespacesResponse,
     startFdSocket |-> StartFdSocketResponse]

-----------------------------------------------------------------------------
(* The schema: for every struct its fields in the order of their ordinals, *)
(* each with its width in bits, or 0 for a field behind a pointer.         *)

Text(name) == << name, 0 >>
Bool(name) == << name, 1 >>
Num(name, bits) == << name, bits >>

SchemaRequest ==
    [version |-> << Bool("verbose"), Text("metadataOld"), Text("metadata") >>,
     createContainer |->
        << Text("id"), Text("bundlePath"), Bool("terminal"), Bool("stdin"),
           Text("exitPaths"), Text("oomExitPaths"), Text("logDrivers"),
           Text("cleanupCmd"), Text("globalArgs"), Text("commandArgs"),
           Text("metadataOld"), Text("metadata"), Text("envVars"),
           Num("cgroupManager", 16), Text("additionalFds"), Text("leakFds") >>,
     execSyncContainer |->
        << Text("id"), Num("timeoutSec", 64), Text("command"), Bool("terminal"),
           Text("metadataOld"), Text("metadata"), Text("envVars"),
           Num("cgroupManager", 16) >>,
     attachContainer |->
        << Text("id"), Text("socketPath"), Text("execSessionId"),
           Bool("stopAfterStdinEof"), Text("metadataOld"), Text("metadata") >>,
     reopenLogContainer |-> << Text("id"), Text("metadataOld"), Text("metadata") >>,
     setWindowSizeContainer |->
        << Text("id"), Num("width", 16), Num("height", 16), Text("metadataOld"),
           Text("metadata") >>,
     createNamespaces |->
        << Text("metadataOld"), Text("namespaces"), Text("uidMappings"),
           Text("gidMappings"), Text("basePath"), Text("podId"), Text("metadata") >>,
     startFdSocket |-> << Text("metadata") >>]

SchemaResponse ==
    [version |->
        << Num("processId", 32), Text("version"), Text("tag"), Text("commit"),
           Text("buildDate"), Text("target"), Text("rustVersion"),
           Text("cargoVersion"), Text("cargoTree"), Text("metadata") >>,
     createContainer |-> << Num("containerPid", 32) >>,
     execSyncContainer |->
        << Num("exitCode", 32), Text("stdout"), Text("stderr"), Bool("timedOut") >>,
     attachContainer |-> << >>, reopenLogContainer |-> << >>,
     setWindowSizeContainer |-> << >>,
     createNamespaces |-> << Text("namespaces") >>,
     startFdSocket |-> << Text("path") >>]

SchemaMapEntry == << Text("key"), Text("value") >>
SchemaLogDriver == << Num("type", 16), Text("path"), Num("maxSize", 64) >>
SchemaNamespaceResponse == << Num("type", 16), Text("path") >>

SchemaLogDriverType == << "containerRuntimeInterface", "json" >>
SchemaCgroupManager == << "systemd", "cgroupfs" >>
SchemaNamespace == << "ipc", "net", "pid", "user", "uts" >>

SchemaMethods ==
    << "version", "createContainer", "execSyncContainer", "attachContainer",
       "reopenLogContainer", "setWindowSizeContainer", "createNamespaces",
       "startFdSocket" >>

(* Structs of this schema have at most two words of data and 16 pointers.  *)
DataBits == 128
Pointers == 16

(* The encoding rules of Cap'n Proto: pointers are numbered in the order   *)
(* of the ordinals; a data field takes the first free position that is a   *)
(* multiple of its width, the holes left by earlier fields included.       *)
PointersBefore(fields, i) == {j \in 1..(i - 1) : fields[j][2] = 0}

Data(bits, a) == [sect |-> "data", at |-> a, len |-> bits]

FreePositions(fields, i, slot) ==
    {a \in {k * fields[i][2] : k \in 0..((DataBits \div fields[i][2]) - 1)} :
        \A j \in 1..(i - 1) :
            fields[j][2] # 0 => ~Overlap(slot[j], Data(fields[i][2], a))}

Place(fields, i, slot) ==
    IF fields[i][2] = 0
    THEN Ptr(Cardinality(PointersBefore(fields, i)))
    ELSE Data(fields[i][2], Min(FreePositions(fields, i, slot)))

Allocate(fields) ==
    LET slot[i \in DOMAIN fields] == Place(fields, i, slot)
        Ordinal(f) == CHOOSE i \in DOMAIN fields : fields[i][1] = f
    IN  [f \in {fields[i][1] : i \in DOMAIN fields} |-> slot[Ordinal(f)]]

(* The slots the server reads and writes, computed once.                   *)
RequestSlots == [m \in Method |-> Allocate(SchemaRequest[m])]
ResponseSlots == [m \in Method |-> Allocate(SchemaResponse[m])]
MapEntrySlots == Allocate(SchemaMapEntry)
LogDriverSlots == Allocate(SchemaLogDriver)
NamespaceResponseSlots == Allocate(SchemaNamespaceResponse)

(* A struct as the server allocates it, large enough for all its slots.    *)
ServerStruct(slots) == Struct(DataBits \div 8, Pointers, slots)

(* The name the schema gives a number of an enumeration.                   *)
Enumerator(names, value) ==
    IF \E i \in DOMAIN names : value = Number(i - 1)
    THEN names[CHOOSE i \in DOMAIN names : value = Number(i - 1)]
    ELSE "not in schema"

=============================================================================
