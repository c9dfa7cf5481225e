------------------------------ MODULE MCUptime ------------------------------
EXTENDS Uptime

MCOutput == <<"up", "users">>
=============================================================================
