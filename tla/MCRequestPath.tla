---------------------------- MODULE MCRequestPath ----------------------------
(***************************************************************************)
(* Two clients and one address: requests that register, log in, read and   *)
(* update, one for each of a protected and a public method of another      *)
(* service, paths that share segments, and one no pattern takes.           *)
(***************************************************************************)
EXTENDS RequestPath

HTTP(verb, path) == [verb |-> verb, url |-> <<"api", "v1">> \o path]

MCRequests ==
    { HTTP("POST", <<"users", "register">>), HTTP("POST", <<"users", "login">>),
      HTTP("GET", <<"users", "register">>), HTTP("PUT", <<"users", "u">>),
      HTTP("GET", <<"users", "u", "orders">>), HTTP("POST", <<"orders">>),
      HTTP("DELETE", <<"orders">>) }
=============================================================================
