\* Two sockets and a list of two entries: a socket can be listed twice, and
\* the list can be full.
CONSTANTS
    Fds = {"fd1", "fd2"}
    MaxSockets = 2
SPECIFICATION Spec
PROPERTIES
    ListFollowsSessions
