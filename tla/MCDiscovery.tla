----------------------------- MODULE MCDiscovery -----------------------------
EXTENDS Discovery

\* Two servers; "getUser" loses its capital when it is sanitised, and both
\* servers have a "get_log", whose name says less than its description does.
MCTools == {"user", "log", "otherLog"}

MCCard ==
    [user     |-> [server |-> "crm", raw |-> "getUser", name |-> "getuser", ord |-> 2,
                   family |-> "getuser", kind |-> "read", trust |-> "verified",
                   capability |-> "misc", named |-> "misc"],
     log      |-> [server |-> "crm", raw |-> "get_log", name |-> "get_log", ord |-> 1,
                   family |-> "get", kind |-> "read", trust |-> "verified",
                   capability |-> "observability", named |-> "misc"],
     otherLog |-> [server |-> "logs", raw |-> "get_log", name |-> "get_log", ord |-> 1,
                   family |-> "get", kind |-> "write", trust |-> "untrusted",
                   capability |-> "observability", named |-> "observability"]]

MCMayDisable == {<<"crm", "get_log">>}

\* Windows of up to two tools.
MCWindows == {s \in SeqOf(MCTools, 2) : IsInjective(s)}
=============================================================================
