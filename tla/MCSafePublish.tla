---------------------------- MODULE MCSafePublish ----------------------------
(* Instances of SafePublish for TLC. *)
EXTENDS SafePublish

CONSTANTS c0, a, b, d

\* a and then b on c0; d on c0 besides them.
MCPast == [c \in Commit |->
    CASE c = c0 -> {c0} [] c = a -> {c0, a} [] c = b -> {c0, a, b} [] c = d -> {c0, d}]
=============================================================================
