----------------------------- MODULE MCProvider -----------------------------
(* One text reply, and one with two interleaved calls under sparse indexes. *)
EXTENDS Provider

MCRetries == {-1, 2}
MCBackoffs == {0, 2, 9}

MCReplies ==
  {[text |-> <<"Hel", "lo">>, calls |-> <<>>],
   [text |-> <<"Let me see">>,
    calls |-> <<[index |-> 0, id |-> "c1", type |-> "function", args |-> <<"{a", "}">>],
                [index |-> 2, id |-> "c2", type |-> "", args |-> <<"{b", "}">>]>>]}
=============================================================================
