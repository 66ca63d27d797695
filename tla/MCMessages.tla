----------------------------- MODULE MCMessages -----------------------------
(* Messages on small instances *)
EXTENDS Messages, TLC

CONSTANTS i1, i2, i3, p1, p2, r1, r2, r3

Content(k, t, f, d) == [kind |-> k, text |-> t, fields |-> f, delay |-> d]

\* one text as a plain message and as an ad, the ad with its delay or another
\* field changed
AdContents == {Content("plain", "t", "f", 0), Content("extended", "t", "f", 0),
               Content("extended", "t", "f", 1), Content("extended", "t", "g", 0)}
Same == {c \in AdContents : c.fields = "f"}

MCIds == {i1, i2, i3}
MCReceipts == {r1, r2, r3}
MCProcs == {p1, p2} \cup MCReceipts

\* two deliveries at a time, and two of one id with any content; a message
\* that is delivered, expires and is delivered again among its receipts; the
\* receipts of two messages
MCScenes ==
    {[senders |-> {p1, p2}, receipts |-> {}, ids |-> MCIds, contents |-> Same,
      appends |-> 4, days |-> 2]}
    \cup
    {[senders |-> {p1, p2}, receipts |-> {}, ids |-> {i}, contents |-> AdContents,
      appends |-> 4, days |-> 1] : i \in MCIds}
    \cup
    {[senders |-> {p}, receipts |-> {r1, r2}, ids |-> {i},
      contents |-> Same, appends |-> 2, days |-> 2] : p \in {p1, p2}, i \in MCIds}
    \cup
    {[senders |-> {}, receipts |-> MCReceipts, ids |-> MCIds \ {i}, contents |-> {},
      appends |-> 0, days |-> 0] : i \in MCIds}

Symmetry == Permutations(MCIds) \cup Permutations({p1, p2})
=============================================================================
