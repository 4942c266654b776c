--------------------------- MODULE MCPostRepository ---------------------------
(* PostRepository for TLC: a root post and, if Posts has it, a reply to it. *)
EXTENDS PostRepository

CONSTANTS rootPost, replyPost

MCRoot == [p \in Posts |-> rootPost]

\* State constraint: the reply is written once; editing and deleting are seen on the root.
ReplyOnce == post[replyPost].at =< 1

=============================================================================
