------------------------- MODULE MCAgentInvocation -------------------------
(* Instances of AgentInvocation for TLC: three requests in several set-ups. *)
EXTENDS AgentInvocation

CONSTANTS a1, a2, a3, u1, u2, s1, s2

Routes == {"invoke", "stream"}
Messages == Req \X {"user", "assistant"}

Setup(r, s, l, m) == [runtime |-> r, sessions |-> s, limiter |-> l, memory |-> m]
A(k, u, s) == [kind |-> k, user |-> u, sid |-> s]
Three(x, y, z) == [r \in Req |-> CASE r = a1 -> x [] r = a2 -> y [] OTHER -> z]

\* Requests of one caller on one session; of two callers, and on a new session.
OnSession == {Three(A("invoke", u1, s1), A("invoke", u1, s1), A("invoke", u1, s1))}
OnSessions == {Three(A("invoke", u1, s1), A("invoke", u2, s1), A("invoke", u1, NoSession)),
               Three(A("invoke", u1, s1), A("invoke", u1, s1), A("invoke", u2, s1))}
OnMemory ==
    {Three(A("remember", u1, s1), A("remember", u1, s1), A("remember", u1, s1)),
     Three(A("remember", u1, s1), A("remember", u2, s1), A("invoke", u1, s1))}
AtTheLimit ==
    {Three(A("invoke", u1, s1), A("invoke", u1, s1), A("invoke", u1, s1)),
     Three(A("invoke", u1, s1), A("invoke", u1, s1), A("stream", u1, s1))}

SessionSetups == {Setup(r, s, "off", "off") : r \in {"adk", "langgraph"}, s \in {"memory", "sql"}}
MemorySetups == {Setup("langgraph", "memory", "off", m) : m \in {"memory", "sql"}}
LimiterSetups == {Setup("adk", "memory", l, "off") : l \in {"memory", "sql"}}

AdkWithSqlSessions == {Setup("adk", "sql", "off", "off")}
AllSetups == SessionSetups \cup MemorySetups \cup LimiterSetups
AllAsks == [c \in Configs |-> IF c.memory # "off" THEN OnMemory
                              ELSE IF c.limiter # "off" THEN AtTheLimit
                              ELSE IF c \in AdkWithSqlSessions THEN OnSessions
                              ELSE OnSession \cup OnSessions]

SharedLimiter == {Setup("adk", "memory", "sql", "off")}
SqlMemory == {Setup("adk", "memory", "off", "sql")}
=============================================================================
