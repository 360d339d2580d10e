----------------------------- MODULE MCSearchApp -----------------------------
(***************************************************************************)
(* SearchApp for TLC: a corpus of three documents, texts that differ in    *)
(* what they find and in whether the answer fits the event region, and a   *)
(* manifest file that may be edited between two loads.                     *)
(***************************************************************************)
EXTENDS SearchApp

MCTerms ==
  [x \in Texts |-> CASE x = "wasm" -> <<"wasm">>
                     [] x = "wasm dom" -> <<"wasm", "dom">>
                     [] OTHER -> <<>>]

MCOccurs ==
  <<[wasm |-> 1, dom |-> 0], [wasm |-> 0, dom |-> 0], [wasm |-> 1, dom |-> 2]>>

\* The manifest of the repository, one without capabilities, and one that
\* does not resolve.
MCManifests ==
  LET Services(fields) == [s \in {"search"} |-> fields]
  IN {[bundle |-> TRUE, services |-> Services({"endpoint", "iface"}), links |-> Links],
      [bundle |-> TRUE, services |-> <<>>, links |-> {}],
      [bundle |-> TRUE, services |-> Services({"endpoint"}), links |-> Links]}

=============================================================================
