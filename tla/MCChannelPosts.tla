---------------------------- MODULE MCChannelPosts ----------------------------
(* Channels whose count is too small, right and too large, or missing.       *)
EXTENDS ChannelPosts

OpenedChannels ==
  {[posts |-> 4, count |-> 3, inputs |-> 3], [posts |-> 3, count |-> 4, inputs |-> 3],
   [posts |-> 3, count |-> -1, inputs |-> 3],
   [posts |-> 6, count |-> 4, inputs |-> 2], [posts |-> 5, count |-> 8, inputs |-> 2]}
Growing == {[posts |-> 4, count |-> 8, inputs |-> 3]}
FullPages == {[posts |-> 4, count |-> 5, inputs |-> 2]}
===============================================================================
