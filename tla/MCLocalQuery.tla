---------------------------- MODULE MCLocalQuery ----------------------------
(* Entries and requests of the LocalQuery runs.  Entries 2 and 3 share a   *)
(* timestamp; entry 1 has an upper-case level and a custom field.          *)
EXTENDS LocalQuery

MCLower == [w \in {"ERROR", "Disk"} |-> IF w = "ERROR" THEN "error" ELSE "disk"]
MCSplit == [w \in {"level:error", "namespace:prod", "message:disk", "host:h1"} |->
              CASE w = "level:error"    -> <<"level", "error">>
                [] w = "namespace:prod" -> <<"namespace", "prod">>
                [] w = "message:disk"   -> <<"message", "Disk">>
                [] w = "host:h1"        -> <<"host", "h1">>]

Plain == [f \in {} |-> ""]
MCEntries ==
  (1 :> [ts |-> 1, level |-> "ERROR", svc |-> "api", ns |-> "prod",
         words |-> {"disk", "full"}, custom |-> [f \in {"host"} |-> "h1"]])
  @@ (2 :> [ts |-> 2, level |-> "info", svc |-> "", ns |-> "",
            words |-> {"disk"}, custom |-> Plain])
  @@ (3 :> [ts |-> 2, level |-> "error", svc |-> "api", ns |-> "",
            words |-> {"ok"}, custom |-> Plain])

MCQueries ==
  {<<>>, <<"Disk">>, <<"level:error">>, <<"namespace:prod">>, <<"host:h1">>,
   <<"Disk", "AND", "level:error">>, <<"ok", "OR", "full">>, <<"disk", "OR">>,
   <<"message:disk", "OR", "ok", "AND", "level:error">>}

Ask(q, ns, svc, from, to, limit, offset) ==
  [query |-> q, ns |-> ns, svc |-> svc, from |-> from, to |-> to,
   limit |-> limit, offset |-> offset]
MCRequests ==
  {Ask(q, ns, "", 0, 0, 1, 0) : q \in MCQueries, ns \in {"", "prod"}}
  \cup {Ask(q, "", svc, t, 0, 0, 1) : q \in {<<>>, <<"Disk">>}, svc \in {"", "api"}, t \in {0, 2}}
  \cup {Ask(<<>>, "", "", 0, t, l, o) : t \in {1, 2}, l \in {-1, 2}, o \in {-1, 0}}
=============================================================================
