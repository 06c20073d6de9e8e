------------------------------ MODULE Streaming ------------------------------
(***************************************************************************)
(* The streaming proxy (server.rs: proxy, copy_response_headers) between a *)
(* client that downloads one virtual file in several requests, with ranges *)
(* and preconditions as RFC 9110 has them, and the upstream server.        *)
(* Between two requests, and while one waits for upstream, the file may    *)
(* change, and a refresh may give its virtual path to another item.        *)
(*                                                                         *)
(* A file is a sequence of Parts parts, a range "from part k on", and the  *)
(* version of a file is its ETag.  Upstream streams what it had when it    *)
(* sent its headers.                                                       *)
(***************************************************************************)
EXTENDS Naturals

CONSTANTS
  Sources,     \* the upstream files the virtual path may stand for
  Parts,       \* the length of a file
  Gone,        \* no file, no source, no header
  MaxVersion   \* bound: upstream changes

ASSUME StreamingAssumption ==
  /\ Parts \in Nat \ {0}
  /\ MaxVersion \in Nat
  /\ Gone \notin Nat \cup Sources

VARIABLES
  files,    \* upstream: source -> the version of the file, or Gone
  version,  \* the last version used
  alias,    \* the source_path of the virtual path in the snapshot, or Gone
  phase,       \* of the request: "idle", "sent" upstream, or in its "body"
  source,   \* the source_path the request was sent for
  request,  \* what upstream sees of the client's request
  body,     \* the parts still to come: [at, version], at is the next one
  place,    \* where the client puts the next part
  copy,     \* what the client has: part -> version, Gone where it has nothing
  etag      \* the ETag the client knows its copy by
vars == <<files, version, alias, phase, source, request, body, place, copy, etag>>

Headers == {"range", "ifRange", "ifMatch", "ifNoneMatch"}
Versions == 1..MaxVersion
ClientRequest == [method: {"GET", "HEAD"}, range: 1..Parts \cup {Gone},
            ifRange: Versions \cup {Gone}, ifMatch: Versions \cup {Gone},
            ifNoneMatch: Versions \cup {Gone}]
NoRequest == [method |-> "GET", range |-> Gone, ifRange |-> Gone, ifMatch |-> Gone,
              ifNoneMatch |-> Gone]
NoBody == [at |-> Parts + 1, version |-> Gone]
NoCopy == [k \in 1..Parts |-> Gone]

TypeOK ==
  /\ files \in [Sources -> Versions \cup {Gone}]
  /\ version \in 0..MaxVersion
  /\ alias \in Sources \cup {Gone}
  /\ phase \in {"idle", "sent", "body"}
  /\ source \in Sources \cup {Gone}
  /\ phase = "sent" => source # Gone
  /\ request \in ClientRequest
  /\ body \in [at: 1..(Parts + 1), version: Versions \cup {Gone}]
  /\ place \in 1..(Parts + 1)
  /\ copy \in [1..Parts -> Versions \cup {Gone}]
  /\ etag \in Versions \cup {Gone}

StreamInit ==
  /\ files = [s \in Sources |-> Gone]
  /\ version = 0
  /\ alias = Gone
  /\ phase = "idle" /\ source = Gone
  /\ request = NoRequest
  /\ body = NoBody /\ place = 1
  /\ copy = NoCopy /\ etag = Gone

-----------------------------------------------------------------------------
(* The rest of the world.                                                  *)

UpstreamChange ==
  /\ \E s \in Sources :
       \/ /\ version < MaxVersion
          /\ version' = version + 1
          /\ files' = [files EXCEPT ![s] = version']
       \/ files' = [files EXCEPT ![s] = Gone] /\ UNCHANGED version
  /\ UNCHANGED <<alias, phase, source, request, body, place, copy, etag>>

\* A refresh or a DELETE publishes a snapshot; it may know less than upstream.
Republish ==
  /\ alias' \in Sources \cup {Gone}
  /\ UNCHANGED <<files, version, phase, source, request, body, place, copy, etag>>

-----------------------------------------------------------------------------
(* The client.                                                             *)

Have == {k \in 1..Parts : copy[k] # Gone}

\* A request for everything, for the ETag, or for the rest of a copy on the
\* condition that it is still the rest of that copy.  A client that was never
\* given an ETag has nothing to state a condition with.
Requests ==
  {r \in ClientRequest :
     /\ r.method = "HEAD" => r = [NoRequest EXCEPT !.method = "HEAD"]
     /\ {r.ifRange, r.ifMatch, r.ifNoneMatch} \subseteq {Gone, etag}
     /\ r.range = Gone => r.ifRange = Gone /\ r.ifMatch = Gone
     /\ r.range # Gone => r.ifNoneMatch = Gone /\ r.range \notin Have
     /\ r.range # Gone /\ Have # {} /\ etag # Gone =>
          r.ifRange = etag \/ r.ifMatch = etag
     /\ r.ifNoneMatch # Gone => Have = 1..Parts}

-----------------------------------------------------------------------------
(* proxy.                                                                  *)

\* mutant: If-Range is not in the list
ForwardedUnconditionally(r) == [r EXCEPT !.ifRange = Gone]

\* What is copied from the request; no other header is.
Forwarded(r) == r

\* The virtual path is looked up and its source asked; what is not found is
\* answered at once.
Ask(r) ==
  /\ phase = "idle"
  /\ alias # Gone
  /\ source' = alias
  /\ request' = Forwarded(r)
  /\ phase' = "sent"
  /\ UNCHANGED <<files, version, alias, body, place, copy, etag>>

EndRequest ==
  /\ phase' = "idle"
  /\ body' = NoBody /\ place' = 1
  /\ source' = Gone /\ request' = NoRequest

\* Upstream's answer by RFC 9110: status, the first part of the body, headers.
Answer(v, r) ==
  LET headers == [etag |-> v, contentRange |-> Gone]
  IN CASE v = Gone -> [status |-> 404, at |-> Parts + 1, headers |-> [headers EXCEPT !.etag = Gone]]
       [] v # Gone /\ r.ifMatch \notin {Gone, v} ->
            [status |-> 412, at |-> Parts + 1, headers |-> headers]
       [] v # Gone /\ r.ifMatch \in {Gone, v} /\ r.ifNoneMatch = v ->
            [status |-> 304, at |-> Parts + 1, headers |-> headers]
       [] OTHER ->
            IF r.method = "GET" /\ r.range # Gone /\ r.ifRange \in {Gone, v}
            THEN [status |-> 206, at |-> r.range,
                  headers |-> [headers EXCEPT !.contentRange = r.range]]
            ELSE [status |-> 200, at |-> IF r.method = "GET" THEN 1 ELSE Parts + 1,
                  headers |-> headers]

\* copy_response_headers.
Copied(headers) == headers

\* Upstream sends its headers; the client gets the status, the copied headers
\* and then the body as it comes.
AnswerClient ==
  /\ phase = "sent"
  /\ LET answer == Answer(files[source], request)
         headers == Copied(answer.headers)
         status == answer.status
     IN /\ CASE status = 200 /\ request.method = "GET" ->
                  copy' = NoCopy /\ etag' = headers.etag /\ place' = 1
             [] status = 200 /\ request.method = "HEAD" ->
                  /\ copy' = IF headers.etag = etag THEN copy ELSE NoCopy
                  /\ etag' = headers.etag /\ place' = 1
             [] status = 206 ->
                  /\ UNCHANGED copy
                  /\ etag' = IF Have = {} THEN headers.etag ELSE etag
                  /\ place' = headers.contentRange
             [] status = 412 -> copy' = NoCopy /\ etag' = Gone /\ place' = 1
             [] OTHER -> UNCHANGED <<copy, etag>> /\ place' = 1   \* 304, 404
        /\ body' = [at |-> answer.at, version |-> files[source]]
  /\ phase' = "body"
  /\ UNCHANGED <<files, version, alias, source, request>>

\* 502: upstream cannot be reached, or its headers do not come in time.
BadGateway ==
  /\ phase = "sent"
  /\ EndRequest
  /\ UNCHANGED <<files, version, alias, copy, etag>>

BodyPart ==
  /\ phase = "body" /\ body.at <= Parts /\ place <= Parts
  /\ copy' = [copy EXCEPT ![place] = body.version]
  /\ body' = [body EXCEPT !.at = @ + 1]
  /\ place' = place + 1
  /\ UNCHANGED <<files, version, alias, phase, source, request, etag>>

\* The body is complete, or either side gives up.
BodyEnds ==
  /\ phase = "body"
  /\ EndRequest
  /\ UNCHANGED <<files, version, alias, copy, etag>>

StreamNext ==
  \/ UpstreamChange \/ Republish
  \/ \E r \in Requests : Ask(r)
  \/ AnswerClient \/ BadGateway \/ BodyPart \/ BodyEnds

StreamSpec == StreamInit /\ [][StreamNext]_vars

-----------------------------------------------------------------------------
(* Properties.                                                             *)

\* "Media is streamed directly from upstream, including HTTP range requests":
\* what a client puts together from ranges is one version of one file, in its
\* place, and the one it has the ETag of, although the file changes, answers
\* break off, and the path comes to stand for another item between two requests.
OneVersion ==
  /\ \A j, k \in Have : copy[j] = copy[k]
  /\ \A k \in Have : etag = copy[k]
  /\ phase = "body" /\ body.at <= Parts => place = body.at
=============================================================================
