---------------------------- MODULE MCExchange ----------------------------
(* Requests whose every prefix is different: two numbers, the longer one   *)
(* out of range; both flags on; a name as it is and as JSON; and the ones  *)
(* without a body.                                                         *)
EXTENDS Exchange

Req(op, value, text) == [op |-> op, value |-> value, text |-> text]
Post(path, value, body) == Req(path, value, <<"POST", path, "crlf">> \o body)

MCDigits == [d \in {"6", "5", "0"} |->
                CASE d = "6" -> 6 [] d = "5" -> 5 [] d = "0" -> 0]
MCNames  == {"ab", "cd"}
MCRequests ==
    {Req("metrics", None, <<"GET", "metrics">>),
     Post("stop", None, <<>>),
     Post("temperature", 650,
          <<"temperature_c", "colon", "6", "5", "0", "close">>),
     Post("config", [http |-> TRUE, prometheus |-> FALSE],
          <<"http:true", "prometheus:false">>),
     Post("config", [http |-> TRUE, prometheus |-> TRUE],
          <<"http:true", "prometheus:true">>),
     Post("probe-name", <<"ab", "cd">>, <<"ab", "cd">>),
     Post("probe-name", <<"ab", "cd">>, <<"open", "quote", "ab", "cd", "quote">>)}
===========================================================================
