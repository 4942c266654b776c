--------------------------- MODULE MCHTTPConnector ---------------------------
(* HTTPConnector for TLC: one connector with a read of each priority and a    *)
(* write, and one with a read and a write of low priority.                    *)
EXTENDS HTTPConnector

CONSTANTS main, dialog, page, prefetch, post, avatar, upload

MCOwner == [r \in Requests |-> IF r \in {avatar, upload} THEN dialog ELSE main]

=============================================================================
