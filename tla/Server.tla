------------------------------- MODULE Server --------------------------------
(***************************************************************************)
(* The HTTP server (server.rs): what each request is answered, and with    *)
(* what effect, while the index publishes one snapshot after another.      *)
(* A path is the sequence of its segments, a segment stands for its text   *)
(* after percent-decoding: encode_path escapes all but letters and digits, *)
(* canonical_path undoes it before it splits, and no segment of a virtual  *)
(* path holds a slash.                                                     *)
(***************************************************************************)
EXTENDS Tree

CONSTANTS
  Clients,    \* connections, each with one request at a time
  Snapshots,  \* the trees that the index may publish
  Raws,       \* the paths that clients may ask for
  NoItem,     \* the target of a client that deletes nothing
  MaxDepth    \* bound: the longest path in a snapshot

VARIABLES
  config,     \* is downstream_auth configured, is DELETE enabled
  tree,       \* the snapshot being served
  refreshed,  \* Index::ready: it has a refreshed_at
  requested,  \* a manual refresh has been spawned
  pc,         \* "deleting" while a client waits for Index::delete_item
  target,     \* the item_root that request has resolved
  last        \* history: the last request handled and what it was answered
svars == <<config, tree, refreshed, requested, pc, target, last>>

ASSUME NoItemAssumption == NoItem \notin Ids

\* What build_snapshot builds and delete_item leaves of it.
ASSUME SnapshotsAssumption ==
  /\ MaxDepth \in Nat
  /\ \A t \in Snapshots : /\ Servable(t)
                          /\ \A p \in DOMAIN t.resources : Len(p) <= MaxDepth

-----------------------------------------------------------------------------
(* Paths.                                                                  *)

Refused == {"..", "\\0", "not UTF-8"}
BadRequest == <<"..">>  \* no virtual path: it would be refused itself

HasDavPrefix(raw) == raw # <<>> /\ Head(raw) = "dav"

Dropped == {"", "."}

\* The segments that are kept.
Segments(raw) ==
  LET kept[n \in 0..Len(raw)] ==
        IF n = 0 THEN <<>>
        ELSE IF raw[n] \in Dropped THEN kept[n - 1]
        ELSE Append(kept[n - 1], raw[n])
  IN kept[Len(raw)]

\* mutant: /dav is just a name
CanonicalPathAsIs(raw) ==
  IF \E k \in DOMAIN raw : raw[k] \in Refused THEN BadRequest ELSE Segments(raw)

\* The virtual path that a request names.
CanonicalPath(raw) ==
  IF \E k \in DOMAIN raw : raw[k] \in Refused THEN BadRequest
  ELSE Segments(IF HasDavPrefix(raw) THEN Tail(raw) ELSE raw)

\* The path of an href: a collection ends in a slash.
EncodePath(p, coll, davPrefix) ==
  (IF davPrefix THEN <<"dav">> ELSE <<>>) \o p \o (IF coll THEN <<"">> ELSE <<>>)

-----------------------------------------------------------------------------
(* PROPFIND.                                                               *)

PropfindStatus(t, raw, depth) ==
  CASE depth \notin {"0", "1"} -> "FORBIDDEN"
    [] depth \in {"0", "1"} /\ CanonicalPath(raw) = BadRequest -> "BAD_REQUEST"
    [] OTHER -> IF CanonicalPath(raw) \in DOMAIN t.resources
                THEN "MULTI_STATUS" ELSE "NOT_FOUND"

\* The resources that the answer describes, each under its href.
PropfindEntries(t, raw, depth) ==
  LET p == CanonicalPath(raw)
      values == {p} \cup IF depth = "1" /\ t.resources[p].coll
                         THEN ChildrenOf(t, p) ELSE {}
  IN IF PropfindStatus(t, raw, depth) # "MULTI_STATUS" THEN {}
     ELSE {[path |-> v,
            href |-> EncodePath(v, t.resources[v].coll, HasDavPrefix(raw))] :
              v \in values}

-----------------------------------------------------------------------------
(* GET, HEAD and DELETE.  Directories of the configuration have neither a  *)
(* source_path nor an item_root.                                           *)

Lookup(t, raw) ==
  CASE CanonicalPath(raw) = BadRequest -> "BAD_REQUEST"
    [] CanonicalPath(raw) \in DOMAIN t.resources -> "FOUND"
    [] OTHER -> "NOT_FOUND"

ProxyStatus(t, raw, method) ==
  IF Lookup(t, raw) # "FOUND" THEN Lookup(t, raw)
  ELSE IF ~t.resources[CanonicalPath(raw)].coll THEN "STREAMED"
  ELSE IF method = "HEAD" THEN "OK" ELSE "METHOD_NOT_ALLOWED"

\* mutant: the item_root is not required
DeleteStatusAny(t, raw) ==
  IF ~config.delete THEN "METHOD_NOT_ALLOWED"
  ELSE IF Lookup(t, raw) # "FOUND" THEN Lookup(t, raw)
  ELSE "ACCEPTED"

\* ACCEPTED: delete_item is called.
DeleteStatus(t, raw) ==
  IF ~config.delete THEN "METHOD_NOT_ALLOWED"
  ELSE IF Lookup(t, raw) # "FOUND" THEN Lookup(t, raw)
  ELSE IF t.resources[CanonicalPath(raw)].root = None THEN "FORBIDDEN"
  ELSE "ACCEPTED"

-----------------------------------------------------------------------------
Methods == {"OPTIONS", "PROPFIND", "GET", "HEAD", "DELETE", "PUT",
            "healthz", "readyz", "metrics", "refresh"}
Nothing == [method |-> "none", credentials |-> FALSE, status |-> "none",
            entries |-> {}]

ServerTypeOK ==
  /\ config \in [auth: BOOLEAN, delete: BOOLEAN]
  /\ DOMAIN tree = {"resources", "children"}
  /\ refreshed \in BOOLEAN
  /\ requested \in BOOLEAN
  /\ pc \in [Clients -> {"idle", "deleting"}]
  /\ target \in [Clients -> Ids \cup {NoItem}]
  /\ \A c \in Clients : pc[c] = "deleting" <=> target[c] # NoItem
  /\ last # Nothing => last.method \in Methods /\ last.credentials \in BOOLEAN

\* The index starts with the stored snapshot, if there is one (of the same
\* configuration).
Init ==
  /\ config \in [auth: BOOLEAN, delete: BOOLEAN]
  /\ \/ tree = EmptyTree /\ refreshed = FALSE
     \/ tree \in Snapshots /\ refreshed = TRUE
  /\ requested = FALSE
  /\ pc = [c \in Clients |-> "idle"]
  /\ target = [c \in Clients |-> NoItem]
  /\ last = Nothing

Respond(method, credentials, status, entries) ==
  last' = [method |-> method, credentials |-> credentials, status |-> status,
           entries |-> entries]

\* require_auth has nothing to say against the request.
Passes(credentials) == config.auth => credentials

Healthz(c, credentials) ==
  /\ pc[c] = "idle"
  /\ Respond("healthz", credentials, "NO_CONTENT", {})
  /\ UNCHANGED <<config, tree, refreshed, requested, pc, target>>

Ready(c, credentials) ==
  /\ pc[c] = "idle"
  /\ Respond("readyz", credentials,
             IF refreshed THEN "NO_CONTENT" ELSE "SERVICE_UNAVAILABLE", {})
  /\ UNCHANGED <<config, tree, refreshed, requested, pc, target>>

Unauthorized(c, credentials) ==
  /\ pc[c] = "idle"
  /\ ~Passes(credentials)
  /\ \E method \in Methods \ {"healthz", "readyz"} :
       Respond(method, credentials, "UNAUTHORIZED", {})
  /\ UNCHANGED <<config, tree, refreshed, requested, pc, target>>

\* mutant: the route does not call require_auth
MetricsOpen(c, credentials) ==
  /\ pc[c] = "idle"
  /\ Respond("metrics", credentials, "OK", {})
  /\ UNCHANGED <<config, tree, refreshed, requested, pc, target>>

Metrics(c, credentials) ==
  /\ pc[c] = "idle"
  /\ Passes(credentials)
  /\ Respond("metrics", credentials, "OK", {})
  /\ UNCHANGED <<config, tree, refreshed, requested, pc, target>>

\* The refresh is spawned, and the answer does not wait for it.
Refresh(c, credentials) ==
  /\ pc[c] = "idle"
  /\ Passes(credentials)
  /\ requested' = TRUE
  /\ Respond("refresh", credentials, "ACCEPTED", {})
  /\ UNCHANGED <<config, tree, refreshed, pc, target>>

Options(c, credentials) ==
  /\ pc[c] = "idle"
  /\ Passes(credentials)
  /\ Respond("OPTIONS", credentials, "NO_CONTENT", {})
  /\ UNCHANGED <<config, tree, refreshed, requested, pc, target>>

\* Upload, rename, move, copy, lock: no other method is known.
OtherMethod(c, credentials) ==
  /\ pc[c] = "idle"
  /\ Passes(credentials)
  /\ Respond("PUT", credentials, "METHOD_NOT_ALLOWED", {})
  /\ UNCHANGED <<config, tree, refreshed, requested, pc, target>>

Propfind(c, credentials, raw, depth) ==
  /\ pc[c] = "idle"
  /\ Passes(credentials)
  /\ Respond("PROPFIND", credentials, PropfindStatus(tree, raw, depth),
             PropfindEntries(tree, raw, depth))
  /\ UNCHANGED <<config, tree, refreshed, requested, pc, target>>

\* What is streamed comes from upstream, if upstream answers at all.
Proxy(c, credentials, raw, method) ==
  /\ pc[c] = "idle"
  /\ Passes(credentials)
  /\ \E status \in {ProxyStatus(tree, raw, method)}
                   \cup (IF ProxyStatus(tree, raw, method) = "STREAMED"
                         THEN {"BAD_GATEWAY"} ELSE {}) :
       Respond(method, credentials, status, {})
  /\ UNCHANGED <<config, tree, refreshed, requested, pc, target>>

DeleteRefused(c, credentials, raw) ==
  /\ pc[c] = "idle"
  /\ Passes(credentials)
  /\ DeleteStatus(tree, raw) # "ACCEPTED"
  /\ Respond("DELETE", credentials, DeleteStatus(tree, raw), {})
  /\ UNCHANGED <<config, tree, refreshed, requested, pc, target>>

DeleteItem(c, credentials, raw) ==
  /\ pc[c] = "idle"
  /\ Passes(credentials)
  /\ DeleteStatus(tree, raw) = "ACCEPTED"
  /\ target' = [target EXCEPT ![c] = tree.resources[CanonicalPath(raw)].root]
  /\ pc' = [pc EXCEPT ![c] = "deleting"]
  /\ Respond("DELETE", credentials, "ACCEPTED", {})
  /\ UNCHANGED <<config, tree, refreshed, requested>>

\* delete_item returns; module Index has what happens inside.  The request has
\* passed require_auth before.
DeleteDone(c) ==
  /\ pc[c] = "deleting"
  /\ \/ /\ tree' = RemoveItem(tree, target[c])
        /\ Respond("DELETE", TRUE, "NO_CONTENT", {})
     \/ /\ UNCHANGED tree
        /\ Respond("DELETE", TRUE, "BAD_GATEWAY", {})
  /\ pc' = [pc EXCEPT ![c] = "idle"]
  /\ target' = [target EXCEPT ![c] = NoItem]
  /\ UNCHANGED <<config, refreshed, requested>>

\* A refresh publishes.
Publish ==
  /\ tree' \in Snapshots
  /\ refreshed' = TRUE
  /\ requested' = FALSE
  /\ UNCHANGED <<config, pc, target, last>>

Request(c, credentials) ==
  \/ Healthz(c, credentials)
  \/ Ready(c, credentials)
  \/ Unauthorized(c, credentials)
  \/ Metrics(c, credentials)
  \/ Refresh(c, credentials)
  \/ Options(c, credentials)
  \/ OtherMethod(c, credentials)
  \/ \E raw \in Raws :
       \/ \E depth \in {"0", "1", "infinity"} : Propfind(c, credentials, raw, depth)
       \/ \E method \in {"GET", "HEAD"} : Proxy(c, credentials, raw, method)
       \/ DeleteRefused(c, credentials, raw)
       \/ DeleteItem(c, credentials, raw)

Next ==
  \/ \E c \in Clients : \/ \E credentials \in BOOLEAN : Request(c, credentials)
                        \/ DeleteDone(c)
  \/ Publish

Spec == Init /\ [][Next]_svars

-----------------------------------------------------------------------------
(* Properties.                                                             *)

\* Where a client gets that starts at raw and follows every href.
Walk(raw) ==
  LET known[n \in 0..MaxDepth] ==
        IF n = 0 THEN {raw}
        ELSE known[n - 1] \cup
             UNION {{e.href : e \in PropfindEntries(tree, r, "1")} :
                      r \in known[n - 1]}
  IN known[MaxDepth]

\* No directory of the configuration is called dav, and canonical_path neither
\* drops nor refuses the name of anything.
OrdinaryNames ==
  \A t \in Snapshots : \A p \in DOMAIN t.resources :
    /\ \A k \in DOMAIN p : p[k] \notin Dropped \cup Refused
    /\ ~HasDavPrefix(p)

\* The server "exposes the matching items as virtual folders": a client that mounts
\* it at / or at /dav/, lists with Depth 1 and follows the hrefs finds every resource
\* of the snapshot, and no href leads astray: each is one that HEAD answers.
WalkFindsAll ==
  \A start \in {<<"">>, <<"dav", "">>} :
    /\ {CanonicalPath(r) : r \in Walk(start)} = DOMAIN tree.resources
    /\ \A r \in Walk(start) : ProxyStatus(tree, r, "HEAD") \in {"OK", "STREAMED"}

\* The probes, which answer anybody; none before the first request.
Public == {"none", "healthz", "readyz"}

\* If credentials are configured, a request without them is answered UNAUTHORIZED
\* on every route and for every method but the probes, whatever it asks for and
\* whether that is there or not; no entry is shown to it and no refresh or DELETE
\* begins with it; and the tree changes only by a publication of the index or at
\* the end of a DELETE.
CredentialsGuard ==
  [][config.auth =>
       /\ ~last'.credentials =>
            /\ last'.method \in Public \/ last'.status = "UNAUTHORIZED"
            /\ last'.entries = {}
       /\ requested' /\ ~requested => last'.credentials
       /\ \A c \in Clients :
            pc[c] = "idle" /\ pc'[c] = "deleting" => last'.credentials
       /\ \/ tree' \in Snapshots \cup {tree}
          \/ \E c \in Clients : pc[c] = "deleting" /\ pc'[c] = "idle"]_svars

\* "Readiness, metrics, and manual refresh use Basic authentication when
\* configured": readiness is told only to those with credentials.
ReadinessNeedsCredentials ==
  config.auth /\ last.method = "readyz" /\ ~last.credentials =>
    last.status = "UNAUTHORIZED"
=============================================================================
