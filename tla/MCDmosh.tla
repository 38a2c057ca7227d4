------------------------------ MODULE MCDmosh ------------------------------
(***************************************************************************)
(* One shell, one health check and one client of the API.  The requests    *)
(* are the Client's, and those of curl and of HTML forms whose way through *)
(* the server differs.                                                     *)
(***************************************************************************)
EXTENDS Dmosh

CONSTANTS shell, check, client

MCCaller == {shell, check, client}

Raw(method, resource, extension, body, override) ==
    [method |-> method, resource |-> resource, extension |-> extension,
     body |-> body, override |-> override, reader |-> "raw"]

ClientCalls ==
    {ClientCall("POST", "users"), ClientCall("GET", "users"),
     ClientCall("PUT", "character"), ClientCall("GET", "character")}

RawCalls ==
    {Raw("POST", "users", ".json", "json", NoMethod),
     Raw("GET", "users", ".csv", "none", NoMethod),
     Raw("DELETE", "character", "", "none", NoMethod),
     Raw("POST", "user", "", "form", "PATCH")}

MCRequests == ClientCalls \cup RawCalls
=============================================================================
