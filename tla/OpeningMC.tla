----------------------------- MODULE OpeningMC -----------------------------
EXTENDS Opening

MCTables == <<"notes", "jobs", "egress_log">>
MCOldJobs == {<<>>, <<"failed", "failed">>, <<"failed", "pending", "failed">>}
=============================================================================
