----------------------------- MODULE HttpServer -----------------------------
(***************************************************************************)
(* The requests of the HTTP API (HttpApi.js createServer, parseRoute,      *)
(* checkAuth, readBody): a request is routed, refused without the key,     *)
(* acted on in one go, or first read to its end, while other requests and  *)
(* zm2 commands go on.  Actions are those of SystemdClient, reduced to     *)
(* what a request sees of them: no such service, failed, done.             *)
(*                                                                         *)
(* What the server writes as an answer and what its client hears are two   *)
(* things: nothing that is written to a connection that is gone arrives.   *)
(***************************************************************************)
EXTENDS Naturals, Sequences

CONSTANTS
    Requests,   \* connections, each with one request
    Apps,       \* services that requests name
    MaxBody,    \* MAX_BYTES, in chunks
    MaxFaults, MaxUser,
    None

Acts == {"start", "stop", "restart"}
Kinds == Acts \cup {"create", "list", "metrics", "wrongMethod", "unknown", "malformed"}
\* What a body turns out to be once it is complete.  "odd" is JSON with a
\* script that is no string, which api.start does not survive.
Bodies == {"none", "garbage", "noScript", "badEnv", "odd", "good"}

VARIABLES
    st,       \* request -> "new", "body", "over" (its body was too large and its
              \* connection is destroyed), "left" (its client has gone) or "done"
    kind, app, authorised,
    size,     \* request -> chunks of its body read so far
    answers,  \* request -> the status codes the server wrote for it
    heard,    \* request -> those that reached its client
    did,      \* ghost: request -> "", "missing", "failed", "threw" or "done"
    exists,   \* apps there are
    running,  \* apps that run
    up,       \* "up", "stopping" or "down"
    faults, user

Conn == <<st, kind, app, authorised, size>>
World == <<exists, running>>
vars == <<Conn, answers, heard, did, World, up, faults, user>>

Init ==
    /\ st = [r \in Requests |-> "new"]
    /\ kind = [r \in Requests |-> "unknown"] /\ app = [r \in Requests |-> None]
    /\ authorised = [r \in Requests |-> FALSE] /\ size = [r \in Requests |-> 0]
    /\ answers = [r \in Requests |-> <<>>] /\ heard = answers /\ did = [r \in Requests |-> ""]
    /\ exists \in SUBSET Apps /\ running \in SUBSET exists
    /\ up = "up" /\ faults = 0 /\ user = 0

\* An answer, and one that is written when the connection is gone.
Lost(r, code) == answers' = [answers EXCEPT ![r] = Append(@, code)] /\ UNCHANGED heard
Answer(r, code) ==
    /\ answers' = [answers EXCEPT ![r] = Append(@, code)]
    /\ heard' = [heard EXCEPT ![r] = Append(@, code)]
Told == <<answers, heard>>
Did(r, d) == did' = [did EXCEPT ![r] = d]
CanFail == faults < MaxFaults /\ faults' = faults + 1

\* What SystemdClient does for an action, and what the server answers: 404 for
\* every failure whose message says "not found", systemd's own too.
Acted(r, a, k) ==
    \/ a \notin exists /\ Did(r, "missing") /\ Answer(r, 404) /\ UNCHANGED <<running, faults>>
    \/ a \in exists /\ CanFail /\ Did(r, "failed")
         /\ (\E code \in {404, 500} : Answer(r, code))
         /\ running' \in {running, running \ {a}}
    \/ a \in exists /\ Did(r, "done") /\ Answer(r, 200) /\ UNCHANGED faults
         /\ running' = IF k = "stop" THEN running \ {a} ELSE running \cup {a}

NeedsKey(k) == k \notin {"metrics", "malformed"}

\* The request line and headers are there; everything but a body is dealt
\* with before anything else happens.
Serve(r, k, a, key) ==
    /\ up = "up" /\ st[r] = "new"
    /\ kind' = [kind EXCEPT ![r] = k] /\ app' = [app EXCEPT ![r] = a]
    /\ authorised' = [authorised EXCEPT ![r] = key]
    /\ st' = [st EXCEPT ![r] = IF k = "create" /\ key THEN "body" ELSE "done"]
    /\ \/ k = "malformed" /\ Answer(r, 400) /\ UNCHANGED <<did, running, faults>>
       \/ NeedsKey(k) /\ ~key /\ Answer(r, 401) /\ UNCHANGED <<did, running, faults>>
       \/ k = "create" /\ key /\ UNCHANGED <<Told, did, running, faults>>
       \/ k \in Acts /\ key /\ Acted(r, a, k)
       \/ /\ k \in {"list", "metrics"} /\ (key \/ k = "metrics") /\ UNCHANGED running
          /\ \/ Did(r, "done") /\ Answer(r, 200) /\ UNCHANGED faults
             \/ CanFail /\ Did(r, "failed") /\ Answer(r, 500)
       \/ k = "wrongMethod" /\ key /\ Answer(r, 405) /\ UNCHANGED <<did, running, faults>>
       \/ k = "unknown" /\ key /\ Answer(r, 404) /\ UNCHANGED <<did, running, faults>>
    /\ UNCHANGED <<size, exists, up, user>>

ChunkOn(r) ==    \* mutant: what comes after the limit is still looked at
    /\ up # "down" /\ st[r] = "body"
    /\ size' = [size EXCEPT ![r] = IF @ > MaxBody THEN @ ELSE @ + 1]
    /\ IF size[r] >= MaxBody THEN Lost(r, 400) ELSE UNCHANGED Told
    /\ UNCHANGED <<st, kind, app, authorised, did, World, up, faults, user>>
\* With the chunk that is over the limit the connection is destroyed, and the
\* answer that is written after that reaches nobody.
Chunk(r) ==
    /\ up # "down" /\ st[r] = "body"
    /\ size' = [size EXCEPT ![r] = @ + 1]
    /\ IF size[r] = MaxBody
       THEN st' = [st EXCEPT ![r] = "over"] /\ Lost(r, 400)
       ELSE UNCHANGED <<st, Told>>
    /\ UNCHANGED <<kind, app, authorised, did, World, up, faults, user>>

Created(r) ==
    \/ /\ Did(r, "done") /\ Answer(r, 200) /\ UNCHANGED faults
       /\ exists' = exists \cup {app[r]} /\ running' = running \cup {app[r]}
    \/ /\ CanFail /\ Did(r, "failed") /\ Answer(r, 500)
       /\ exists' \in {exists, exists \cup {app[r]}} /\ UNCHANGED running

\* The body is complete.  What api.start throws ends up where a body that
\* does not parse does.
BodyEnds(r, b) ==
    /\ up # "down" /\ st[r] = "body" /\ st' = [st EXCEPT ![r] = "done"]
    /\ \/ b \in {"none", "garbage", "noScript", "badEnv"} /\ Answer(r, 400) /\ UNCHANGED <<did, World, faults>>
       \/ b = "odd" /\ Did(r, "threw") /\ Answer(r, 400) /\ UNCHANGED <<World, faults>>
       \/ b = "good" /\ Created(r)
    /\ UNCHANGED <<kind, app, authorised, size, up, user>>

\* The client goes: what is written for it is lost.
Aborts(r) ==
    /\ up # "down" /\ st[r] = "body" /\ st' = [st EXCEPT ![r] = "left"]
    /\ Lost(r, 400)
    /\ UNCHANGED <<kind, app, authorised, size, did, World, up, faults, user>>

\* The error of a connection the server destroyed itself is no news.
Closes(r) ==
    /\ up # "down" /\ st[r] = "over" /\ st' = [st EXCEPT ![r] = "done"]
    /\ UNCHANGED <<Told, kind, app, authorised, size, did, World, up, faults, user>>

\* SIGTERM: no new connections; the end once those there are have ended.
\* systemd kills a server that takes too long.
Sigterm == up = "up" /\ up' = "stopping" /\ UNCHANGED <<Conn, Told, did, World, faults, user>>
Open == {r \in Requests : st[r] \in {"body", "over"}}
Exit ==
    /\ up = "stopping" /\ Open = {} /\ up' = "down"
    /\ UNCHANGED <<Conn, Told, did, World, faults, user>>
Killed ==
    /\ up # "down" /\ CanFail /\ up' = "down"
    /\ UNCHANGED <<Conn, Told, did, World, user>>

\* Other zm2 processes.
Others(a) ==
    /\ user < MaxUser /\ user' = user + 1
    /\ \/ exists' = exists \ {a} /\ running' = running \ {a}
       \/ exists' = exists \cup {a} /\ UNCHANGED running
       \/ exists' = exists /\ running' = running \ {a}
    /\ UNCHANGED <<Conn, Told, did, up, faults>>

Next ==
    \/ \E r \in Requests :
          \/ Chunk(r) \/ Aborts(r) \/ Closes(r) \/ \E b \in Bodies : BodyEnds(r, b)
          \/ \E k \in Kinds, a \in Apps, key \in BOOLEAN : Serve(r, k, a, key)
    \/ \E a \in Apps : Others(a)
    \/ Sigterm \/ Exit \/ Killed
Spec == Init /\ [][Next]_vars

-----------------------------------------------------------------------------
TypeOK ==
    /\ st \in [Requests -> {"new", "body", "over", "left", "done"}]
    /\ kind \in [Requests -> Kinds] /\ app \in [Requests -> Apps \cup {None}]
    /\ authorised \in [Requests -> BOOLEAN] /\ size \in [Requests -> 0..(MaxBody + 1)]
    /\ \A r \in Requests : {answers[r], heard[r]} \subseteq Seq({200, 400, 401, 404, 405, 500})
    /\ did \in [Requests -> {"", "missing", "failed", "threw", "done"}]
    /\ running \subseteq exists /\ exists \subseteq Apps
    /\ up \in {"up", "stopping", "down"} /\ faults \in 0..MaxFaults /\ user \in 0..MaxUser

\* For no request two answers are written, which would take the server down,
\* and none has ended without one, which its client hears unless the client has
\* gone or its body was over the limit.  To that one nothing is ever said: it
\* sees its connection reset (readBody).
AnsweredOnce ==
    \A r \in Requests :
        /\ Len(answers[r]) <= 1
        /\ st[r] \in {"over", "left", "done"} => answers[r] # <<>>
        /\ heard[r] = IF size[r] > MaxBody \/ st[r] = "left" THEN <<>> ELSE answers[r]

\* What is written is what happened: 200 for what was done and for nothing
\* else, 404 for what is not there, 500 or, where the message says "not found",
\* 404 for what failed, and what is refused or cut off has done nothing.
AnswerIsTrue ==
    \A r \in Requests : answers[r] # <<>> =>
        LET c == Head(answers[r]) IN
        /\ c = 200 <=> did[r] = "done"
        /\ c = 500 => did[r] = "failed"
        /\ did[r] = "failed" => c = 500 \/ (c = 404 /\ kind[r] \in Acts)
        /\ did[r] = "missing" => c = 404
        /\ did[r] # "" => authorised[r] \/ kind[r] = "metrics"
        /\ did[r] # "" => size[r] <= MaxBody /\ st[r] # "left"

\* A server that is told to stop ends only when it has written an answer for
\* every request it has begun, unless it is killed, and the client heard it
\* unless it has gone or its body was over the limit.
DrainsFirst ==
    faults = 0 /\ up = "down" =>
        \A r \in Requests : st[r] # "new" =>
            /\ answers[r] # <<>>
            /\ heard[r] = answers[r] \/ size[r] > MaxBody \/ st[r] = "left"
=============================================================================
