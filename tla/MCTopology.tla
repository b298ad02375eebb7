----------------------------- MODULE MCTopology -----------------------------
(* Two hops through a middle point, with what each point sees and records   *)
(* varied, and a declaration whose second hop is declared twice.            *)
EXTENDS Topology

Client == [host |-> "h1", visibility |-> "kernel", clock |-> "c1",
           timestamps |-> "kernel_monotonic", outbound |-> <<"traceparent", "tuple5">>]
Server == [host |-> "h2", visibility |-> "none", inbound |-> <<"tuple5">>]

Middles ==
  {[host |-> "h1", visibility |-> v[1], clock |-> "c1", timestamps |-> "log_s",
    inbound |-> <<"traceparent">>, outbound |-> o, sets |-> s, propagates |-> [traceparent |-> v[2]],
    trusts_incoming |-> "false"] :
     v \in {<<"kernel", "agent">>, <<"log", "proxy">>}, o \in {<<"tuple5">>, <<"traceparent", "message_id">>},
     s \in {<<"traceparent">>, <<"request_id">>}}

Firsts == {[from |-> "a", to |-> "b", expect |-> "observed"]}
Seconds ==
  {[from |-> "b", to |-> "c", expect |-> e, relation |-> r, nat |-> n, pooling |-> "true",
    rate |-> 2] :
     e \in {"unresolved", "derived", "observed", "authored"}, r \in {"call", "async"}, n \in {"snat"}}

Started ==
  {[points |-> [a |-> Client, b |-> m, c |-> Server], hops |-> <<f, s>>] :
     m \in Middles, f \in Firsts, s \in Seconds}
  \cup {[points |-> <<>>, hops |-> <<>>],
        [points |-> [a |-> Client, b |-> Server],
         hops |-> <<[from |-> "a", to |-> "b"], [from |-> "a", to |-> "b", rate |-> 1],
                    [from |-> "a", to |-> "d"], [from |-> "b"]>>]}

Values(at, field, values) == {[at |-> at, field |-> field, value |-> v] : v \in values}

Written ==
  UNION { Values("b", "visibility", {"kernel", "none", "dark"}),
          Values("c", "clock", {"c2", NotText}),
          Values("b", "inbound", {<<"tuple5", "tuple5">>, <<"cookie">>, <<NotText>>}),
          Values("b", "propagates", {[baggage |-> "agent"], [tuple5 |-> "app"],
                                   [request_id |-> "me"], [x \in {NotText} |-> NotText]}),
          Values("b", "trusts_incoming", {"true", NotText}),
          Values("a", NotText, {NotText}),
          Values("a", "colour", {"red"}),
          Values("hop", "relation", {"fanout", "push"}),
          Values("hop", "max_fanout", {2, -1}),
          Values("hop", "expect", {"unresolved", "certain"}),
          Values("hop", "to", {"a", "b"}),
          Values("hop", "noise_us", {0, -1}),
          Values("hop", NotText, {NotText}) }
=============================================================================
