------------------------- MODULE MCProxyConnections -------------------------
(* Small instances of ProxyConnections for TLC. *)
EXTENDS ProxyConnections

F(op, ext, mask, len) == [op |-> op, ext |-> ext, mask |-> mask, len |-> len]
MCFrames == {F("binary", 0, TRUE, 11), F("binary", 2, TRUE, 3), F("binary", 0, FALSE, 0),
             F("text", 8, TRUE, 6), F("ping", 0, TRUE, 2), F("pong", 0, TRUE, 0),
             F("cont", 0, TRUE, 3), F("close", 0, TRUE, 2), F("bad", 0, TRUE, 1),
             F("binary", 8, TRUE, 32)}
MCRequests == {[len |-> 6, good |-> TRUE], [len |-> 6, good |-> FALSE], [len |-> 30, good |-> TRUE]}

U(command, dir, ep, data, req, wLength) ==
    [command |-> command, dir |-> dir, ep |-> ep, data |-> data, req |-> req, wLength |-> wLength]
MCUrbs == {U("submit", "out", 1, 5, "none", 0), U("submit", "in", 1, 0, "none", 0),
           U("submit", "in", 3, 0, "none", 0), U("unlink", "out", 0, 0, "none", 0),
           U("unknown", "in", 0, 0, "none", 0), U("submit", "out", 0, 0, "set", 0)}
          \cup {U("submit", "in", 0, 0, r, w) :
                   r \in {"device", "config", "lang", "string", "qualifier", "bos", "msos",
                          "other", "status", "unknown"}, w \in {9, 255}}

=============================================================================
