----------------------------- MODULE MCPipeline -----------------------------
EXTENDS EntitlementPipeline, TLC

CONSTANTS old, u1, client, hook, cron

Alone == old :> NoToken
First == old :> 1

ShortLife == { <<"NONE", "ACTIVE">>, <<"ACTIVE", "GONE">>, <<"ACTIVE", "REVOKED">> }
=============================================================================
