--------------------------- MODULE MCHttpExchange ---------------------------
(* A small instance of HttpExchange for TLC.                               *)
EXTENDS HttpExchange

Host  == [key |-> "Host", value |-> "text"]
Close == [key |-> "Connection", value |-> "close"]

Request(method, target, version, headers) ==
  [method |-> method, target |-> target, version |-> version, headers |-> headers]

MCRequests == {
  Request("GET", "file", "1.1", <<Host>>),
  Request("GET", "missing", "1.1", <<Close, Host>>),
  Request("GET", "directory", "1.0", <<Host>>),
  Request("GET", "forbidden", "1.0", <<Close>>),
  Request("GET", "file", "1.1", << >>),
  Request("POST", "file", "1.1", <<Host>>)}

MCFileSize == [f \in {"file", "404.html"} |-> IF f = "file" THEN 3 ELSE 1]
=============================================================================
