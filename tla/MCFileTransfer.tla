--------------------------- MODULE MCFileTransfer ---------------------------
(* Instances of FileTransfer for TLC.                                       *)
EXTENDS FileTransfer, TLC

CONSTANTS r1, r2, e1, e2, path

\* Both clients ask for one file, of which the second extractor makes more
\* chunks than the first, which only one of the requests finds.
OnePath == [r \in Requests |-> path]
TwoSizes == (e1 :> 1) @@ (e2 :> 2)
OneKnowsBoth == (r1 :> {e1, e2}) @@ (r2 :> {e2})

\* One request, one extractor.
TwoParts == [e \in Extractors |-> 2]
AllKnown == [r \in Requests |-> Extractors]
=============================================================================
