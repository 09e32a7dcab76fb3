----------------------------- MODULE MCScanning -----------------------------
EXTENDS Scanning, TLC

CONSTANTS l1, l2, s1

\* Bytes of two values: a third unit has the index byte of the first.
SpellOut == [b \in Bytes(2) |-> b \o b]
Events == {SpellOut[<<0, 1>>], SpellOut[<<1, 1>>]}
Codes == {<<0, 0>>, <<0, 1>>, <<1, 0>>}

\* All lines have the same hashes.
Lines ==
  {[eventId |-> e, quantity |-> q, orderIdHash |-> <<0>>, typeIdHash |-> <<1>>,
    holderNameHash |-> <<0>>, customFieldsHash |-> [n \in 0 .. q - 1 |-> <<0>>]] :
     e \in Events, q \in {1, 3}}
=============================================================================
