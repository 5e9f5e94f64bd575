------------------------------ MODULE MCRemote ------------------------------
(* Constants of the runs of Remote.                                        *)
EXTENDS Remote

\* One host, or that and: one where nobody listens, one that is no address,
\* and another way to write the first.
OneHost == [h \in Hosts |-> h]
WithAlias == [h \in Hosts |-> IF h = "alias" THEN "server" ELSE h]

Small == [names : {1}, payload : {1}]
AroundLimit == [names : {1}, payload : {2, 3}]

=============================================================================
