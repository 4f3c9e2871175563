-------------------------------- MODULE Api ---------------------------------
(***************************************************************************)
(* The service of the HTTP API and who manages it (ApiService) beside the  *)
(* requests to its server (HttpServer), in steps that come in any order.   *)
(***************************************************************************)
EXTENDS ApiService

CONSTANTS
    Requests,   \* connections, each with one request
    Apps,       \* services that requests name
    MaxBody, MaxUser, RequestFaults

VARIABLES st, kind, app, authorised, size, answers, heard, did, exists, running, up,
          requestFaults, user

requestVars == <<st, kind, app, authorised, size, answers, heard, did, exists, running,
                 up, requestFaults, user>>

Http == INSTANCE HttpServer WITH MaxFaults <- RequestFaults, faults <- requestFaults

ASSUME ApiAssumption == MaxBody \in Nat /\ MaxUser \in Nat /\ RequestFaults \in Nat

ServiceSteps == Next /\ UNCHANGED requestVars
RequestSteps == Http!Next /\ UNCHANGED vars
HostSpec == Init /\ Http!Init /\ [][ServiceSteps \/ RequestSteps]_<<vars, requestVars>>

-----------------------------------------------------------------------------
\* For every request one answer is written, with what happened, also by a server
\* that is told to stop, and its client hears it unless it has gone, or its body
\* was over the limit: then the connection is destroyed first, and nothing was
\* done (HttpApi.js createServer, readBody).
RequestsAsAnswered ==
    Http!TypeOK /\ Http!AnsweredOnce /\ Http!AnswerIsTrue /\ Http!DrainsFirst

=============================================================================
