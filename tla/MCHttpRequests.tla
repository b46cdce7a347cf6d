--------------------------- MODULE MCHttpRequests ---------------------------
(***************************************************************************)
(* HttpRequests with settings that are refused for each of the reasons the *)
(* code has, and with good ones for each way names are resolved.           *)
(***************************************************************************)
EXTENDS HttpRequests

NoTimeouts == [t \in {"timeout", "connect", "keep_alive", "ping"} |-> "none"]
Default == [proxies |-> {}, timeouts |-> NoTimeouts, certificates |-> {},
            dns |-> "platform", addresses |-> {}]
Timed(s) == [s EXCEPT !.timeouts = [@ EXCEPT !["timeout"] = "some"]]
Static(s, addresses) == [s EXCEPT !.dns = "static", !.addresses = addresses]

MCSettings ==
    LET good == {Default, [Default EXCEPT !.dns = "dynamic"], Static(Default, {"v4", "v6", "[v6]:port"})}
    IN good \cup {Timed(s) : s \in good}
       \cup {[Default EXCEPT !.proxies = {"bad"}], [Default EXCEPT !.certificates = {"bad"}],
             [Default EXCEPT !.timeouts = [@ EXCEPT !["connect"] = "negative"]],
             Static(Default, {"v4", "[v6]"})}
=============================================================================
