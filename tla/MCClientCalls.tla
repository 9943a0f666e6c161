--------------------------- MODULE MCClientCalls ---------------------------
(* Every method with the empty and the full configuration, each field      *)
(* alone and each field left out, and lists of different kinds.            *)
EXTENDS ClientCalls

Patterns(fields) ==
    {{}, fields} \cup {{f} : f \in fields} \cup {fields \ {f} : f \in fields}

Lists(m) ==
    CASE m = "createContainer" ->
            {<< >>, << "json" >>, << "json", "containerRuntimeInterface" >>}
      [] m = "createNamespaces" ->
            {<< >>, << "PID", "Net" >>, << "User" >>, << "UTS", "Net", "User", "PID", "IPC" >>}
      [] OTHER -> {<< >>}

MCConfigs(m) ==
    [given : Patterns(ConfigFields[m]), base : {"given"},
     items : IF m = "createNamespaces" THEN {<< >>, << "User" >>} ELSE {<< >>}]
    \cup [given : {ConfigFields[m]}, items : Lists(m),
          base : IF m = "createNamespaces" THEN {"given", "empty"} ELSE {"given"}]

(* The server fills the version in any case.                               *)
MCAnswers(m) ==
    LET fields == DOMAIN Response[m].slots \ {"metadata", "version", "namespaces"}
    IN  {p \cup (DOMAIN Response[m].slots \cap {"version", "namespaces"}) :
            p \in Patterns(fields)}
=============================================================================
