------------------------------ MODULE MCSession ------------------------------
(* Instances of Session.                                                    *)
EXTENDS Session

\* Nothing arrives, a bare 200, versions in the header or the body, a product version
SomeAnswers ==
    {[ok |-> FALSE, header |-> None, body |-> None],
     [ok |-> TRUE, header |-> None, body |-> <<2>>],
     [ok |-> TRUE, header |-> <<2, 6>>, body |-> None],
     [ok |-> TRUE, header |-> <<7>>, body |-> <<1>>]}

\* The version the collection ships and the one it would ship next
V1and2 == {<<1>>, <<2>>}
V2 == <<2>>

=============================================================================
