------------------------------ MODULE MCProcess ------------------------------
(* Every configuration that differs from an accepted one in up to two fields, *)
(* with values at and around each limit.                                      *)
EXTENDS Process

Usual == [version |-> 1, directories |-> 1, filters |-> TRUE, interval_secs |-> 5,
          hook_cooldown |-> 5, crawl_concurrency |-> 1, https |-> TRUE,
          allow_http |-> FALSE, upstream |-> "env", downstream_auth |-> "file"]

MCConfigs ==
  {c \in [version: {1, 2}, directories: {0, 1}, filters: BOOLEAN,
          interval_secs: {4, 5}, hook_cooldown: {Absent, 4, 5},
          crawl_concurrency: {0, 1}, https: BOOLEAN, allow_http: BOOLEAN,
          upstream: Secret, downstream_auth: Secret \cup {Absent}] :
     Cardinality({f \in DOMAIN Usual : c[f] # Usual[f]}) <= 2}
=============================================================================
