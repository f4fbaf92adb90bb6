------------------------------ MODULE MCIngest ------------------------------
(* A management controller with a token that posts two events in one batch;  *)
(* another, with the shared secret and so not counted by the limiter, whose  *)
(* event has the key of the first; and a mail, which has no key.             *)
EXTENDS Ingest, TLC

CONSTANTS bmc1, bmc2, e1, e2, e3, e4, k1, k2, caller, mta

MCSenders == {bmc1, bmc2, mta}
MCEvents == {e1, e2, e3, e4}
MCBatch == bmc1 :> <<e1, e2>> @@ bmc2 :> <<e3>> @@ mta :> <<e4>>
MCKind == bmc1 :> "redfish" @@ bmc2 :> "redfish" @@ mta :> "mail"
MCAttempts == bmc1 :> 2 @@ bmc2 :> 1 @@ mta :> 1
MCCallers == {caller}
MCCaller == bmc1 :> caller
MCKey == e1 :> k1 @@ e2 :> k2 @@ e3 :> k1 @@ e4 :> NoKey

\* Nothing a mail does touches the state of the HTTP requests: its server is
\* explored on its own.
MailApart ==
    At(<<mta, 1>>, "unused") \/ \A r \in Requests : Sender(r) = mta \/ At(r, "unused")

\* Two HTTP requests at work at a time: the third comes when one has ended.
TwoAtOnce ==
    Cardinality({r \in Requests : ~At(r, "unused") /\ ~At(r, "done")}) <= 2

=============================================================================
