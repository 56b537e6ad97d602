------------------------- MODULE MCCampaignRuntime -------------------------
(* Small flows for TLC. *)
EXTENDS CampaignRuntime

CONSTANTS t1, t2, d1, s1, n1

MCTypeOf == [n \in Nodes |->
    CASE n = d1 -> "DELAY" [] n = s1 -> "STOP" [] n = n1 -> "SEND_TEXT"
      [] OTHER -> "SEND_TEMPLATE"]

Graph(ns, es) == [nodes |-> ns, edges |-> es]

\* Two templates in a row, or a delay before the end; an update may leave the
\* nodes of one with the edges of the other.
MCGraphs == {Graph({t1, t2}, {<<t1, t2>>}), Graph({d1, s1}, {<<d1, s1>>})}

\* Every type of node, at most three in a row.
MCLongGraphs == {Graph({t1, d1, t2}, {<<t1, d1>>, <<d1, t2>>}),
                 Graph({d1, t1, s1}, {<<d1, t1>>, <<t1, s1>>}),
                 Graph({t1, n1}, {<<t1, n1>>})}

MCOneNode == {Graph({t1}, {})}

=============================================================================
