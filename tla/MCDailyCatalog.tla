--------------------------- MODULE MCDailyCatalog ---------------------------
(***************************************************************************)
(* A small instance of DailyCatalog for TLC, with the answers that tell     *)
(* complete catalogues from partial ones.                                   *)
(***************************************************************************)
EXTENDS DailyCatalog, TLC

CONSTANTS v1, v2, views1

Entry(v, n) == [video |-> v, views |-> n]

Envelope(entries, declared) == [entries |-> entries, declared |-> declared]

\* Complete; complete without a declared size; a video without views; a repeated
\* one; a malformed entry; an entry declared and not there.
CatalogAnswers ==
    {Envelope(<<Entry(v1, views1), Entry(v2, views1)>>, 2),
     Envelope(<<Entry(v1, views1)>>, NULL),
     Envelope(<<Entry(v1, NULL)>>, 1),
     Envelope(<<Entry(v2, views1), Entry(v2, views1)>>, 2),
     Envelope(<<Entry(v1, views1), Entry(NULL, NULL)>>, 2),
     Envelope(<<>>, 1)}

WorkerSymmetry == Permutations(Workers)
=============================================================================
