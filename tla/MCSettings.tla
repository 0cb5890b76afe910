---------------------------- MODULE MCSettings ----------------------------
(* A device with two profiles, new or set up by an older firmware, and     *)
(* forms that change one section at a time, rightly and wrongly.           *)
EXTENDS Settings

McLegacy == [g \in {"one/turn"} |-> "one"]

McOld == [Clean EXCEPT ![Ssid(1)] = "home", ![Pass(1)] = "home",
                       ![Gateway] = "one/turn", ![Token] = "one",
                       ![Request] = "r0", ![Turn] = "r0"]

McStored == {Unset, McOld}

Same == [ssid |-> << "home", "" >>, password |-> << "", "" >>,
         open |-> << FALSE, FALSE >>, gateway |-> "", token |-> "",
         key |-> "", psk |-> "", clear_psk |-> FALSE, on |-> FALSE,
         sleep |-> 30]

\* The gateway changes with its token and without; the networks change places
\* with their passwords and without; WireGuard goes on, or its key off.
McForms ==
  {[Same EXCEPT !.gateway = "two", !.token = t] : t \in {"", "two"}}
  \cup {[Same EXCEPT !.ssid = << "work", "home" >>, !.password = p] :
          p \in {<< "", "" >>, << "work", "short" >>, << "work", "home" >>}}
  \cup {[Same EXCEPT !.ssid = << "home", "home" >>, !.open = << TRUE, TRUE >>],
        [Same EXCEPT !.password = << "home", "" >>, !.token = "one",
                     !.psk = "psk", !.key = "key", !.on = TRUE],
        [Same EXCEPT !.open = << TRUE, FALSE >>, !.clear_psk = TRUE, !.sleep = 60],
        [Same EXCEPT !.sleep = 4]}
=============================================================================
