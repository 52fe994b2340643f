----------------------------- MODULE MCLoopback -----------------------------
(* Small instances of Loopback: lc.code holds three bytes with its NUL.    *)
EXTENDS Loopback

\* Two codes that fit everywhere, one that fills lc.code exactly (accepted by
\* the handler, too long for a smaller caller buffer), one too long for both.
MCCodes == {"a", "b", "edge", "long"}
MCCodeLen == [c \in MCCodes |-> CASE c = "edge" -> 2 [] c = "long" -> 3 [] OTHER -> 1]
=============================================================================
