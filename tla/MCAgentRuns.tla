----------------------------- MODULE MCAgentRuns -----------------------------
EXTENDS AgentRuns

CONSTANTS a1, spawn, m1, m2, w1, k1, s1, s2

MCAgents == {a1}
MCRuns == {Parent, a1}

\* The Turn is steered while it waits for its Agent, and starts again; messages,
\* a close and an abort race the Agent's end; so does a shutdown that is
\* forced, from the start or while it is under way.
MCPlans ==
    {{spawn, w1, s1, s2, "again", "failure"},
     {spawn, m1, w1, s1, "again"},
     {spawn, m1, m2, k1},
     {spawn, m1, m2, "force", "failure"},
     {spawn, m1, k1, "abort", "failure"},
     {spawn, m1, k1, "abort", "force"},
     {spawn, m1, k1, "upgrade"}}
=============================================================================
