----------------------------- MODULE MCGateway -----------------------------
EXTENDS Gateway

\* The gateway gives every session user 1 (P_user_login_req).
MCSameUser == [s \in Streams |-> 1]
MCQuota == [s \in Streams |-> 2]

Load(served, dials, logins, frames, sigterm) ==
    [served |-> served, dials |-> dials, logins |-> logins,
     frames |-> frames, sigterm |-> sigterm]

\* Three connections in every phase of acceptance when SIGTERM arrives; one
\* that logs in while the shutdown goes on; two calls of the same user, one
\* after the other or overlapping, with frames enough to fill ch_agent, the
\* hand of func_Recv and the stream of one, or frames on both; and two calls
\* at SIGTERM.
MCLoads == {Load({}, {1, 2, 3}, {}, <<0, 0>>, TRUE),
            Load({}, {1}, {1}, <<1, 0>>, TRUE),
            Load({1, 2}, {}, {1, 2}, <<2, 0>>, FALSE),
            Load({1, 2}, {}, {1, 2}, <<1, 1>>, FALSE),
            Load({1, 2}, {}, {1, 2}, <<1, 0>>, TRUE)}
=============================================================================
