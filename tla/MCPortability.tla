---------------------------- MODULE MCPortability ----------------------------
(* Two users.  The exported instance has a destination with a credential that *)
(* is shared, one without, and up to three routes, one of them of the user    *)
(* who does not own what it leads to and one for a single input.              *)
EXTENDS Portability

CONSTANTS root, ann, ops, lab, old, night, day

Row(owner, name, shared, enabled, secret) ==
    [key |-> <<owner, name>>, shared |-> shared, enabled |-> enabled, secret |-> secret]
To(owner, name, to, input, enabled) ==
    [key |-> <<owner, name>>, to |-> to, input |-> input, enabled |-> enabled]

Whole ==
    [destinations |-> {Row(root, ops, TRUE, TRUE, TRUE), Row(ann, lab, FALSE, TRUE, FALSE)},
     routes |-> {To(ann, night, <<root, ops>>, "", TRUE),
                 To(ann, day, <<ann, lab>>, "http", TRUE),
                 To(root, night, <<root, ops>>, "", FALSE)}]
Small ==
    [destinations |-> {Row(ann, lab, FALSE, FALSE, TRUE)},
     routes |-> {To(ann, day, <<ann, lab>>, "", TRUE)}]

\* The outputs of an older file are the administrator's; one has a placeholder where
\* its credential should be.
MCYaml ==
    [destinations |-> {Row(root, ops, TRUE, TRUE, TRUE), Row(root, lab, TRUE, FALSE, TRUE),
                       Row(root, old, TRUE, TRUE, FALSE)},
     routes |-> {To(root, day, <<root, ops>>, "", TRUE),
                 To(root, night, <<root, old>>, "", TRUE)}]

MCExports == {Whole, Small}

=============================================================================
